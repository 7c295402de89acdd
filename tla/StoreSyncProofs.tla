--------------------------- MODULE StoreSyncProofs ---------------------------
(***************************************************************************)
(* Proofs about StoreSync for any set of documents, texts and bounds.      *)
(***************************************************************************)
EXTENDS StoreSync, TLAPS

\* The types of documents and stores, and those of the tasks.
DataOK ==
  /\ src \in [Files -> Content \cup {None}]
  /\ disk \in Index /\ made \subseteq {"index", "fts"} /\ foreign \in BOOLEAN
  /\ fts \in Texts /\ marker \in BOOLEAN
  /\ mem \in Index /\ dirty \in BOOLEAN /\ staged \in Texts
  /\ cause \in [Files -> Causes]
FlowOK ==
  /\ events \in Seq(Events)
  /\ up \in BOOLEAN /\ watching \in BOOLEAN /\ rebuilt \in BOOLEAN
  /\ task \in Tasks /\ phase \in Phases /\ event \in Events
  /\ only \in Files \cup {None} /\ full \in BOOLEAN
  /\ parsed \in [Files -> Content \cup {None, Unread}]
  /\ taken \subseteq Files /\ unsynced \subseteq Files
  /\ {edits, fails, crashes, runs} \subseteq Nat

\* The two halves make up the type invariant.
LEMMA TypeHalves == TypeOK <=> DataOK /\ FlowOK
  BY DEF TypeOK, DataOK, FlowOK

\* Nothing at all is an index, a full-text index and a reading of the sources.
LEMMA EmptyTypes ==
  Empty \in Index /\ Empty \in Texts /\ Empty \in [Files -> Content \cup {None, Unread}]
  BY DEF Empty, Index, Texts

\* The full-text documents of an index are texts.
LEMMA ProjType == ASSUME NEW ix \in Index PROVE Proj(ix) \in Texts
  BY DEF Proj, Index, Texts, Entry

\* The entry of a source.
LEMMA IndexedType == ASSUME NEW c \in Content PROVE Indexed(c) \in Entry
  BY DEF Indexed, Entry, Content

\* Events name documents.
LEMMA EventTypes == ASSUME NEW e \in Events PROVE EventFiles(e) \subseteq Files
  BY DEF EventFiles, Events

\* So do the event in hand and the queue.
LEMMA QueueTypes ==
  ASSUME FlowOK
  PROVE  /\ InHand \subseteq Files /\ Queued \subseteq Files
         /\ events # <<>> =>
              /\ Head(events) \in Events /\ Tail(events) \in Seq(Events)
              /\ EventFiles(Head(events)) \subseteq Files
<1>1. InHand \subseteq Files
  BY EventTypes DEF FlowOK, InHand
<1>2. ASSUME NEW i \in 1..Len(events) PROVE EventFiles(events[i]) \subseteq Files
  <2>1. events[i] \in Events
    BY DEF FlowOK
  <2> QED BY <2>1, EventTypes
<1>3. Queued \subseteq Files
  BY <1>2 DEF Queued
<1>4. CASE events # <<>>
  <2>1. Head(events) \in Events /\ Tail(events) \in Seq(Events)
    BY <1>4 DEF FlowOK
  <2> QED BY <1>1, <1>3, <2>1, EventTypes
<1> QED BY <1>1, <1>3, <1>4

\* What the end of a task leaves is typed.
LEMMA DoneTypes ==
  ASSUME NEW left \in SUBSET Files, Done(left)
  PROVE  /\ task' = "none" /\ phase' = "none" /\ event' \in Events
         /\ only' = None /\ full' = FALSE
         /\ parsed' \in [Files -> Content \cup {None, Unread}]
         /\ taken' \subseteq Files /\ unsynced' \subseteq Files
  BY EmptyTypes DEF Done, NoEvent, Events

\* A change of the sources queues a well-formed event.
LEMMA NoticeTypes ==
  ASSUME FlowOK, NEW e \in Events, Notice(e) PROVE FlowOK'
<1>1. EventFiles(e) \subseteq Files
  BY EventTypes
<1>2. events' \in Seq(Events)
  BY DEF Notice, FlowOK
<1>3. unsynced' \subseteq Files /\ taken' \subseteq Files
  BY <1>1 DEF Notice, FlowOK
<1>4. {edits', fails', crashes', runs'} \subseteq Nat
  BY DEF Notice, FlowOK, vars, counters
<1> QED
  BY <1>2, <1>3, <1>4 DEF Notice, FlowOK, stores, memory, process, work

\* Between the reading of a source and its embedding, an event has a source.
ReadOK == task = "event" /\ phase = "embed" => parsed[event.file] \in Content

\* What an ingest makes of the sources it read are entries and texts.
LEMMA UpsertTypes ==
  ASSUME DataOK, FlowOK, NEW done \in SUBSET Reembedded
  PROVE  Upserted(done) \in Index /\ Restaged(done) \in Texts
<1>1. \A f \in done : f \in Files /\ parsed[f] \in Content
  BY DEF FlowOK, Reembedded, Read
<1>2. \A f \in done : Indexed(parsed[f]) \in Entry /\ parsed[f].body \in Bodies
  BY <1>1, IndexedType DEF Content
<1>3. ASSUME NEW f \in Refreshed PROVE [mem[f] EXCEPT !.hash = parsed[f]] \in Entry
  <2>1. f \in Files /\ parsed[f] \in Content /\ mem[f] \in Entry
    BY DEF DataOK, FlowOK, Index, Refreshed, Read, MetaOnly
  <2> QED BY <2>1 DEF Entry
<1>4. Upserted(done) \in Index
  BY <1>2, <1>3 DEF Upserted, DataOK, Index
<1>5. Restaged(done) \in Texts
  BY <1>2 DEF Restaged, DataOK, Texts
<1> QED BY <1>4, <1>5

\* Every step keeps the types.
LEMMA TypeStep == TypeOK /\ ReadOK /\ [Next]_vars => TypeOK'
<1> SUFFICES ASSUME TypeOK, ReadOK, [Next]_vars PROVE TypeOK'
  OBVIOUS
<1>a. DataOK /\ FlowOK
  BY TypeHalves
<1>b. InHand \subseteq Files /\ Queued \subseteq Files
  BY <1>a, QueueTypes
<1>c. Proj(mem) \in Texts
  BY <1>a, ProjType DEF DataOK
<1>d. UNCHANGED vars => TypeOK'
  BY DEF TypeOK, vars, stores, memory, process, work, counters
<1>e. unsynced \in SUBSET Files
  BY <1>a DEF FlowOK
<1>1. CASE Open
  <2>1. DataOK'
    BY <1>1, <1>a DEF Open, DataOK, vars, stores, memory, process, work, counters
  <2>2. FlowOK'
    BY <1>1, <1>a DEF Open, FlowOK, Tasks, Phases, vars, stores, memory, process, work, counters
  <2> QED BY <2>1, <2>2, TypeHalves DEF TypeOK, DataOK, FlowOK
<1>2. CASE OpenIndex
  <2>1. DataOK'
    BY <1>2, <1>a DEF OpenIndex, DataOK, vars, stores, memory, process, work, counters, Goto, Done
  <2>2. FlowOK'
    BY <1>2, <1>a, <1>b, DoneTypes, <1>e DEF OpenIndex, FlowOK, Tasks, Phases, vars, stores, memory, process, work, counters, Goto
  <2> QED BY <2>1, <2>2, TypeHalves DEF TypeOK, DataOK, FlowOK
<1>3. CASE RebuildHook
  <2>1. DataOK'
    BY <1>3, <1>a DEF RebuildHook, DataOK, vars, stores, memory, process, work, counters, Goto
  <2>2. FlowOK'
    BY <1>3, <1>a DEF RebuildHook, FlowOK, Tasks, Phases, vars, stores, memory, process, work, counters, Goto
  <2> QED BY <2>1, <2>2, TypeHalves DEF TypeOK, DataOK, FlowOK
<1>4. CASE Rebuild
  <2>1. DataOK'
    BY <1>4, <1>a, EmptyTypes DEF Rebuild, DataOK, vars, stores, memory, process, work, counters
  <2>2. FlowOK'
    BY <1>4, <1>a DEF Rebuild, FlowOK, Tasks, Phases, vars, stores, memory, process, work, counters
  <2> QED BY <2>1, <2>2, TypeHalves DEF TypeOK, DataOK, FlowOK
<1>5. CASE StartEvent
  <2>1. DataOK'
    BY <1>5, <1>a DEF StartEvent, DataOK, vars, stores, memory, process, work, counters, Start
  <2>2. FlowOK'
    BY <1>5, <1>a, QueueTypes DEF StartEvent, FlowOK, Tasks, Phases, vars, stores, memory, process, work, counters, Start, AfterLock
  <2> QED BY <2>1, <2>2, TypeHalves DEF TypeOK, DataOK, FlowOK
<1>6. CASE RefuseEvent
  <2>1. DataOK'
    BY <1>6, <1>a DEF RefuseEvent, DataOK, vars, stores, memory, process, work, counters, DropEvent
  <2>2. FlowOK'
    BY <1>6, <1>a, QueueTypes DEF RefuseEvent, FlowOK, Tasks, Phases, vars, stores, memory, process, work, counters, DropEvent, NoFails
  <2> QED BY <2>1, <2>2, TypeHalves DEF TypeOK, DataOK, FlowOK
<1>7. CASE Recover
  <2>1. DataOK'
    BY <1>7, <1>a, <1>c DEF Recover, DataOK, vars, stores, memory, process, work, counters, Goto, Causes
  <2>2. FlowOK'
    BY <1>7, <1>a DEF Recover, FlowOK, Tasks, Phases, vars, stores, memory, process, work, counters, Goto
  <2> QED BY <2>1, <2>2, TypeHalves DEF TypeOK, DataOK, FlowOK
<1>8. CASE Retire
  <2>1. DataOK'
    BY <1>8, <1>a DEF Retire, DataOK, vars, stores, memory, process, work, counters, Goto, Done
  <2>2. FlowOK'
    BY <1>8, <1>a, DoneTypes, <1>e DEF Retire, FlowOK, Tasks, Phases, vars, stores, memory, process, work, counters, Goto
  <2> QED BY <2>1, <2>2, TypeHalves DEF TypeOK, DataOK, FlowOK
<1>9. CASE Save
  <2>1. DataOK'
    BY <1>9, <1>a DEF Save, DataOK, vars, stores, memory, process, work, counters
  <2>2. FlowOK'
    BY <1>9, <1>a, DoneTypes, <1>e DEF Save, FlowOK, Tasks, Phases, vars, stores, memory, process, work, counters, Goto
  <2> QED BY <2>1, <2>2, TypeHalves DEF TypeOK, DataOK, FlowOK
<1>10. CASE Commit
  <2>1. DataOK'
    BY <1>10, <1>a DEF Commit, DataOK, vars, stores, memory, process, work, counters, Goto
  <2>2. FlowOK'
    BY <1>10, <1>a DEF Commit, FlowOK, Tasks, Phases, vars, stores, memory, process, work, counters, Goto
  <2> QED BY <2>1, <2>2, TypeHalves DEF TypeOK, DataOK, FlowOK
<1>11. CASE Finish
  <2>1. DataOK'
    BY <1>11, <1>a DEF Finish, DataOK, vars, stores, memory, process, work, counters, Done
  <2>2. FlowOK'
    BY <1>11, <1>a, DoneTypes, <1>b DEF Finish, FlowOK, Tasks, Phases, vars, stores, memory, process, work, counters
  <2> QED BY <2>1, <2>2, TypeHalves DEF TypeOK, DataOK, FlowOK
<1>12. CASE EventRename
  <2>1. DataOK'
    BY <1>12, <1>a DEF EventRename, DataOK, vars, stores, memory, process, work, counters, Without, Goto, Causes, Index, Texts
  <2>2. FlowOK'
    BY <1>12, <1>a DEF EventRename, FlowOK, Tasks, Phases, vars, stores, memory, process, work, counters, Without, Goto
  <2> QED BY <2>1, <2>2, TypeHalves DEF TypeOK, DataOK, FlowOK
<1>13. CASE EventSchema
  <2>1. DataOK'
    BY <1>13, <1>a DEF EventSchema, DataOK, vars, stores, memory, process, work, counters, Reconciles
  <2>2. FlowOK'
    BY <1>13, <1>a DEF EventSchema, FlowOK, Tasks, Phases, vars, stores, memory, process, work, counters, Reconciles
  <2> QED BY <2>1, <2>2, TypeHalves DEF TypeOK, DataOK, FlowOK
<1>14. CASE IngestMissing
  <2>1. DataOK'
    BY <1>14, <1>a DEF IngestMissing, DataOK, vars, stores, memory, process, work, counters, Done
  <2>2. FlowOK'
    BY <1>14, <1>a, DoneTypes, <1>e DEF IngestMissing, FlowOK, Tasks, Phases, vars, stores, memory, process, work, counters
  <2> QED BY <2>1, <2>2, TypeHalves DEF TypeOK, DataOK, FlowOK
<1>36. CASE IngestCancel
  <2>1. DataOK'
    BY <1>36, <1>a DEF IngestCancel, DataOK, Done
  <2>2. FlowOK'
    BY <1>36, <1>a, DoneTypes, <1>e DEF IngestCancel, FlowOK, Tasks, Phases, vars, stores, memory, process, work, counters
  <2> QED BY <2>1, <2>2, TypeHalves DEF TypeOK, DataOK, FlowOK
<1>15. CASE Fail
  <2>1. DataOK'
    BY <1>15, <1>a, EmptyTypes DEF Fail, DataOK, vars, stores, memory, process, work, counters, Fails, Done
  <2>7. unsynced \cup InHand \in SUBSET Files
    BY <1>a, <1>b DEF FlowOK
  <2>8. Done(unsynced \cup InHand)
    BY <1>15 DEF Fail
  <2>9. {edits', fails', crashes', runs'} \subseteq Nat
    BY <1>15, <1>a DEF Fail, FlowOK, Fails, counters
  <2>2. FlowOK'
    BY <1>15, <1>a, <2>7, <2>8, <2>9, DoneTypes DEF Fail, FlowOK, Tasks, Phases, stores, memory, process, work
  <2> QED BY <2>1, <2>2, TypeHalves DEF TypeOK, DataOK, FlowOK
<1>16. CASE LockTimeout
  <2>1. DataOK'
    BY <1>16, <1>a DEF LockTimeout, DataOK, vars, stores, memory, process, work, counters, DropEvent, Fails
  <2>2. FlowOK'
    BY <1>16, <1>a, QueueTypes DEF LockTimeout, FlowOK, Tasks, Phases, vars, stores, memory, process, work, counters, DropEvent, Fails
  <2> QED BY <2>1, <2>2, TypeHalves DEF TypeOK, DataOK, FlowOK
<1>17. CASE Crash
  <2>1. DataOK'
    BY <1>17, <1>a, EmptyTypes DEF Crash, DataOK, vars, stores, memory, process, work, counters, Done
  <2>6. <<>> \in Seq(Events)
    OBVIOUS
  <2>7. unsynced \cup InHand \cup Queued \in SUBSET Files
    BY <1>a, <1>b DEF FlowOK
  <2>8. Done(unsynced \cup InHand \cup Queued)
    BY <1>17 DEF Crash
  <2>9. {edits', fails', crashes', runs'} \subseteq Nat
    BY <1>17, <1>a DEF Crash, FlowOK, Fails, counters
  <2>2. FlowOK'
    BY <1>17, <1>a, <2>6, <2>7, <2>8, <2>9, DoneTypes DEF Crash, FlowOK, Tasks, Phases, stores, memory, process, work
  <2> QED BY <2>1, <2>2, TypeHalves DEF TypeOK, DataOK, FlowOK
<1>18. CASE ChangeSpace
  <2>1. DataOK'
    BY <1>18, <1>a DEF ChangeSpace, DataOK, vars, stores, memory, process, work, counters, Fails
  <2>2. FlowOK'
    BY <1>18, <1>a DEF ChangeSpace, FlowOK, Tasks, Phases, vars, stores, memory, process, work, counters, Fails
  <2> QED BY <2>1, <2>2, TypeHalves DEF TypeOK, DataOK, FlowOK
<1>19. CASE EditSchema
  <2>1. DataOK'
    BY <1>19, <1>a DEF EditSchema, DataOK, vars, stores, memory, process, work, counters, Notice
  <2>2. FlowOK'
    BY <1>19, <1>a, EventTypes DEF EditSchema, FlowOK, Tasks, Phases, vars, stores, memory, process, work, counters, Notice, NoEvent, Events
  <2> QED BY <2>1, <2>2, TypeHalves DEF TypeOK, DataOK, FlowOK
<1>20. CASE StartWatch
  <2>1. DataOK'
    BY <1>20, <1>a DEF StartWatch, DataOK, vars, stores, memory, process, work, counters
  <2>2. FlowOK'
    BY <1>20, <1>a DEF StartWatch, FlowOK, Tasks, Phases, vars, stores, memory, process, work, counters
  <2> QED BY <2>1, <2>2, TypeHalves DEF TypeOK, DataOK, FlowOK
<1>21. CASE StartModules
  <2>1. DataOK'
    BY <1>21, <1>a DEF StartModules, DataOK, vars, stores, memory, process, work, counters, Start
  <2>2. FlowOK'
    BY <1>21, <1>a DEF StartModules, FlowOK, Tasks, Phases, vars, stores, memory, process, work, counters, Start
  <2> QED BY <2>1, <2>2, TypeHalves DEF TypeOK, DataOK, FlowOK
<1>22. ASSUME NEW s \in {"index", "fts"}, LoseStore(s) PROVE TypeOK'
  <2>1. DataOK'
    BY <1>22, <1>a, EmptyTypes DEF LoseStore, DataOK, vars, stores, memory, process, work, counters, Fails
  <2>2. FlowOK'
    BY <1>22, <1>a DEF LoseStore, FlowOK, Tasks, Phases, vars, stores, memory, process, work, counters, Fails
  <2> QED BY <2>1, <2>2, TypeHalves DEF TypeOK, DataOK, FlowOK
<1>23. ASSUME NEW f \in Files, EventUpsertFails(f) PROVE TypeOK'
  <2>1. DataOK'
    BY <1>23, <1>a DEF EventUpsertFails, DataOK, vars, stores, memory, process, work, counters, Fails, Done, Index
  <2>7. unsynced \cup InHand \in SUBSET Files
    BY <1>a, <1>b DEF FlowOK
  <2>8. Done(unsynced \cup InHand)
    BY <1>23 DEF EventUpsertFails
  <2>9. {edits', fails', crashes', runs'} \subseteq Nat
    BY <1>23, <1>a DEF EventUpsertFails, FlowOK, Fails, counters
  <2>2. FlowOK'
    BY <1>23, <1>a, <2>7, <2>8, <2>9, DoneTypes DEF EventUpsertFails, FlowOK, Tasks, Phases, stores, memory, process, work
  <2> QED BY <2>1, <2>2, TypeHalves DEF TypeOK, DataOK, FlowOK
<1>24. ASSUME NEW bad \in SUBSET Files, IngestParse(bad) PROVE TypeOK'
  <2>1. DataOK'
    BY <1>24, <1>a DEF IngestParse, DataOK, vars, stores, memory, process, work, counters
  <2>2. FlowOK'
    BY <1>24, <1>a DEF IngestParse, FlowOK, Tasks, Phases, vars, stores, memory, process, work, counters, Fails, NoFails, DataOK
  <2> QED BY <2>1, <2>2, TypeHalves DEF TypeOK, DataOK, FlowOK
<1>25. ASSUME NEW f \in Files, NEW c \in Content \cup {None}, Edit(f, c) PROVE TypeOK'
  <2>1. DataOK'
    BY <1>25, <1>a DEF Edit, DataOK, vars, stores, memory, process, work, counters, Notice
  <2>7. [kind |-> "change", file |-> f, from |-> None] \in Events
    BY DEF Events
  <2>2. FlowOK'
    BY <1>25, <1>a, <2>7, NoticeTypes DEF Edit
  <2> QED BY <2>1, <2>2, TypeHalves DEF TypeOK, DataOK, FlowOK
<1>26. ASSUME NEW f \in Files, NEW g \in Files, Rename(f, g) PROVE TypeOK'
  <2>1. DataOK'
    BY <1>26, <1>a DEF Rename, DataOK, vars, stores, memory, process, work, counters, Notice
  <2>7. [kind |-> "rename", file |-> g, from |-> f] \in Events
    BY DEF Events
  <2>2. FlowOK'
    BY <1>26, <1>a, <2>7, NoticeTypes DEF Rename
  <2> QED BY <2>1, <2>2, TypeHalves DEF TypeOK, DataOK, FlowOK
<1>27. ASSUME NEW f \in Files \cup {None}, NEW w \in BOOLEAN, StartIngest(f, w) PROVE TypeOK'
  <2>1. DataOK'
    BY <1>27, <1>a DEF StartIngest, DataOK, vars, stores, memory, process, work, counters, Start
  <2>2. FlowOK'
    BY <1>27, <1>a DEF StartIngest, FlowOK, Tasks, Phases, vars, stores, memory, process, work, counters, Start, AfterLock
  <2> QED BY <2>1, <2>2, TypeHalves DEF TypeOK, DataOK, FlowOK
<1>28. ASSUME NEW f \in Files, EventGone(f) PROVE TypeOK'
  <2>1. DataOK'
    BY <1>28, <1>a DEF EventGone, DataOK, vars, stores, memory, process, work, counters, Without, Reconciles, Causes, Index, Texts
  <2>2. FlowOK'
    BY <1>28, <1>a, EventTypes DEF EventGone, FlowOK, Tasks, Phases, vars, stores, memory, process, work, counters, Without, Reconciles
  <2> QED BY <2>1, <2>2, TypeHalves DEF TypeOK, DataOK, FlowOK
<1>29. ASSUME NEW f \in Files, EventUnchanged(f) PROVE TypeOK'
  <2>1. DataOK'
    BY <1>29, <1>a DEF EventUnchanged, DataOK, vars, stores, memory, process, work, counters, AfterRename, Reconciles, Causes
  <2>2. FlowOK'
    BY <1>29, <1>a DEF EventUnchanged, FlowOK, Tasks, Phases, vars, stores, memory, process, work, counters, Reconciles
  <2> QED BY <2>1, <2>2, TypeHalves DEF TypeOK, DataOK, FlowOK
<1>30. ASSUME NEW f \in Files, EventRefresh(f) PROVE TypeOK'
  <2>1. DataOK'
    BY <1>30, <1>a DEF EventRefresh, DataOK, vars, stores, memory, process, work, counters, AfterRename, Reconciles, Causes, MetaOnly, Index, Entry
  <2>2. FlowOK'
    BY <1>30, <1>a, EventTypes DEF EventRefresh, FlowOK, Tasks, Phases, vars, stores, memory, process, work, counters, Reconciles
  <2> QED BY <2>1, <2>2, TypeHalves DEF TypeOK, DataOK, FlowOK
<1>31. ASSUME NEW f \in Files, EventRead(f) PROVE TypeOK'
  <2>1. DataOK'
    BY <1>31, <1>a DEF EventRead, DataOK, vars, stores, memory, process, work, counters
  <2>2. FlowOK'
    BY <1>31, <1>a, EventTypes DEF EventRead, FlowOK, Tasks, Phases, vars, stores, memory, process, work, counters, DataOK
  <2> QED BY <2>1, <2>2, TypeHalves DEF TypeOK, DataOK, FlowOK
<1>32. ASSUME NEW f \in Files, EventUpsert(f) PROVE TypeOK'
  <2>0. f \in Files /\ parsed[f] \in Content /\ parsed[f].body \in Bodies
    BY <1>32 DEF EventUpsert, ReadOK, Content
  <2>1. DataOK'
    BY <1>32, <1>a, <2>0, IndexedType DEF EventUpsert, DataOK, vars, stores, memory, process, work, counters, Reconciles, Causes, Index, Texts
  <2>2. FlowOK'
    BY <1>32, <1>a DEF EventUpsert, FlowOK, Tasks, Phases, vars, stores, memory, process, work, counters, Reconciles
  <2> QED BY <2>1, <2>2, TypeHalves DEF TypeOK, DataOK, FlowOK
<1>33. CASE IngestApply
  <2>1. Upserted(Reembedded) \in Index /\ Restaged(Reembedded) \in Texts
    BY <1>a, UpsertTypes
  <2>2. mem' \in Index
    BY <1>33, <2>1 DEF IngestApply, Index
  <2>3. staged' \in Texts
    BY <1>33, <1>c, <2>1 DEF IngestApply, Texts
  <2>4. cause' \in [Files -> Causes]
    BY <1>33, <1>a DEF IngestApply, DataOK, Causes
  <2>5. DataOK'
    BY <1>33, <1>a, <2>2, <2>3, <2>4 DEF IngestApply, DataOK, vars, stores, memory, process, work, counters
  <2>6. FlowOK'
    BY <1>33, <1>a DEF IngestApply, FlowOK, Tasks, Phases, vars, stores, memory, process, work, counters
  <2> QED BY <2>5, <2>6 DEF TypeOK, DataOK, FlowOK
<1>34. ASSUME NEW done \in SUBSET Files, NEW g \in Files, IngestApplyFails(done, g) PROVE TypeOK'
  <2>1. Upserted(done) \in Index /\ Restaged(done) \in Texts
    BY <1>a, <1>34, UpsertTypes DEF IngestApplyFails
  <2>2. mem' \in Index
    BY <1>34, <2>1 DEF IngestApplyFails, Index
  <2>3. DataOK'
    BY <1>34, <1>a, <2>1, <2>2 DEF IngestApplyFails, Done, DataOK, vars, stores, memory, process, work, counters
  <2>7. unsynced \in SUBSET Files
    BY <1>a, <1>b DEF FlowOK
  <2>8. Done(unsynced)
    BY <1>34 DEF IngestApplyFails
  <2>9. {edits', fails', crashes', runs'} \subseteq Nat
    BY <1>34, <1>a DEF IngestApplyFails, FlowOK, Fails, counters
  <2>4. FlowOK'
    BY <1>34, <1>a, <2>7, <2>8, <2>9, DoneTypes DEF IngestApplyFails, FlowOK, Tasks, Phases, stores, memory, process, work
  <2> QED BY <2>3, <2>4 DEF TypeOK, DataOK, FlowOK
<1>35. ASSUME NEW bad \in SUBSET Files, ModulesRefresh(bad) PROVE TypeOK'
  <2>1. ASSUME NEW f \in Files PROVE mem'[f] \in Entry \cup {None}
    <3>1. CASE src[f] # None /\ mem[f] # None
      <4>1. src[f] \in Content /\ mem[f] \in Entry
        BY <1>a, <3>1 DEF DataOK, Index
      <4>2. mem'[f] \in {mem[f], [mem[f] EXCEPT !.hash = src[f]]}
        BY <1>35, <3>1 DEF ModulesRefresh
      <4> QED BY <4>1, <4>2 DEF Entry
    <3>2. CASE src[f] # None /\ mem[f] = None
      <4>1. src[f] \in Content
        BY <1>a, <3>2 DEF DataOK
      <4>2. mem'[f] \in {None, [hash |-> src[f], emb |-> None]}
        BY <1>35, <3>2 DEF ModulesRefresh
      <4> QED BY <4>1, <4>2 DEF Entry
    <3>3. CASE src[f] = None
      BY <1>35, <3>3 DEF ModulesRefresh
    <3> QED BY <3>1, <3>2, <3>3
  <2>2. mem' \in Index
    BY <1>35, <2>1 DEF ModulesRefresh, Index
  <2>3. DataOK'
    BY <1>35, <1>a, <2>2 DEF ModulesRefresh, Goto, DataOK, vars, stores, memory, process, work, counters
  <2>4. FlowOK'
    BY <1>35, <1>a DEF ModulesRefresh, Goto, Fails, NoFails, FlowOK, Tasks, Phases, vars, stores, memory, process, work, counters
  <2> QED BY <2>3, <2>4 DEF TypeOK, DataOK, FlowOK
<1> QED
  BY <1>d, <1>1, <1>2, <1>3, <1>4, <1>5, <1>6, <1>7, <1>8, <1>9, <1>10, <1>11, <1>12, <1>13, <1>14, <1>15, <1>16, <1>17, <1>18, <1>19, <1>20, <1>21, <1>22, <1>23, <1>24, <1>25, <1>26, <1>27, <1>28, <1>29, <1>30, <1>31, <1>32, <1>33, <1>34, <1>35, <1>36 DEF Next, Progress, Failures, Users
-----------------------------------------------------------------------------
(* The inductive invariant *)

\* The two agree on every document no known defect concerns.
Known(a, b) == \A f \in Files : cause[f] = "none" => a[f] = b[f]

\* Which phases a task goes through, and those it goes through behind the marker.
FlowInv ==
  /\ task # "none" => up
  /\ task = "none" <=> phase = "none"
  /\ task = "open" => phase \in {"open", "rebuild", "recover", "retire"}
  /\ task = "modules" => phase \in {"ready", "save", "recover", "retire"}
  /\ phase \in {"open", "rebuild"} => task = "open"
  /\ phase \in {"renamed", "save_meta"} => task = "event"
  /\ phase \in {"embed", "commit", "finish"} => task \in {"event", "ingest"}
  /\ phase \in {"rebuild", "recover", "retire", "renamed", "commit"} => marker
  /\ phase = "save" /\ task # "modules" => marker
  /\ phase = "ready" /\ task # "modules" => ~marker
  /\ phase = "embed" /\ task = "ingest" => ~marker
  /\ foreign /\ task = "ingest" => full
  /\ up => "fts" \in made

\* What the stores, the handle and the full-text writer have in common in each
\* phase.  Without a marker, what a commit would publish is what is published.
PhaseInv ==
  /\ up /\ ~marker => Known(staged, fts)
  /\ phase = "open" => staged = fts
  /\ phase \in {"recover", "retire", "ready"} => mem = disk
  /\ phase = "retire" => staged = Proj(disk) /\ fts = Proj(disk)
  /\ phase = "embed" /\ task = "ingest" => mem = disk
  /\ phase = "embed" => Known(staged, Proj(mem))
  /\ phase = "renamed" => \A f \in Files :
       IF f = event.from THEN staged[f] = None /\ mem[f] = None
       ELSE mem[f] = disk[f] /\ (cause[f] = "none" => staged[f] = fts[f] /\ fts[f] = Proj(disk)[f])
  /\ phase = "save_meta" =>
       /\ Known(staged, Proj(mem)) /\ Known(fts, Proj(mem))
       /\ ~marker => Proj(mem) = Proj(disk)
  /\ phase = "save" /\ task # "modules" => Known(staged, Proj(mem))
  /\ phase = "save" /\ task = "modules" /\ ~marker => Proj(mem) = Proj(disk)
  /\ phase = "commit" => Known(staged, Proj(disk))
  /\ phase = "finish" => Known(staged, Proj(disk)) /\ Known(fts, Proj(disk))

SplitInv == TypeOK /\ ReadOK /\ FlowInv /\ PhaseInv /\ NoSilentSplit

\* Every step keeps the phases of the tasks, and what an event has read.
LEMMA FlowStep == TypeOK /\ ReadOK /\ FlowInv /\ [Next]_vars => ReadOK' /\ FlowInv'
<1> SUFFICES ASSUME TypeOK, ReadOK, FlowInv, [Next]_vars PROVE ReadOK' /\ FlowInv'
  OBVIOUS
<1>0. CASE UNCHANGED vars
  BY <1>0 DEF ReadOK, FlowInv, vars, stores, memory, process, work, counters
<1>1. CASE Open
  BY <1>1 DEF Open, ReadOK, FlowInv, vars, stores, memory, process, work, counters
<1>2. CASE OpenIndex
  BY <1>2 DEF OpenIndex, ReadOK, FlowInv, vars, stores, memory, process, work, counters, Goto, Done
<1>3. CASE RebuildHook
  BY <1>3 DEF RebuildHook, ReadOK, FlowInv, vars, stores, memory, process, work, counters, Goto
<1>4. CASE Rebuild
  BY <1>4 DEF Rebuild, ReadOK, FlowInv, vars, stores, memory, process, work, counters
<1>5. CASE StartEvent
  BY <1>5 DEF StartEvent, ReadOK, FlowInv, vars, stores, memory, process, work, counters, Start, AfterLock
<1>6. CASE RefuseEvent
  BY <1>6 DEF RefuseEvent, ReadOK, FlowInv, vars, stores, memory, process, work, counters, DropEvent
<1>7. CASE Recover
  BY <1>7 DEF Recover, ReadOK, FlowInv, vars, stores, memory, process, work, counters, Goto
<1>8. CASE Retire
  BY <1>8 DEF Retire, ReadOK, FlowInv, vars, stores, memory, process, work, counters, Goto, Done
<1>9. CASE Save
  <2>1. foreign' => foreign
    BY <1>9 DEF Save
  <2>2. CASE task = "modules" /\ ~marker
    BY <1>9, <2>1, <2>2 DEF Save, ReadOK, FlowInv, process, work, Done
  <2>3. CASE task = "modules" /\ marker
    BY <1>9, <2>1, <2>3 DEF Save, ReadOK, FlowInv, process, work, Goto
  <2>4. CASE task # "modules"
    <3>1. task \in Tasks
      BY DEF TypeOK
    <3> QED BY <1>9, <2>1, <2>4, <3>1 DEF Tasks, Save, ReadOK, FlowInv, process, work, Goto
  <2> QED BY <2>2, <2>3, <2>4
<1>10. CASE Commit
  BY <1>10 DEF Commit, ReadOK, FlowInv, vars, stores, memory, process, work, counters, Goto
<1>11. CASE Finish
  BY <1>11 DEF Finish, ReadOK, FlowInv, vars, stores, memory, process, work, counters, Done
<1>12. CASE EventRename
  BY <1>12 DEF EventRename, ReadOK, FlowInv, vars, stores, memory, process, work, counters, Without, Goto
<1>13. CASE EventSchema
  BY <1>13 DEF EventSchema, ReadOK, FlowInv, vars, stores, memory, process, work, counters, Reconciles
<1>14. CASE IngestMissing
  BY <1>14 DEF IngestMissing, ReadOK, FlowInv, vars, stores, memory, process, work, counters, Done
<1>36. CASE IngestCancel
  BY <1>36 DEF IngestCancel, ReadOK, FlowInv, stores, memory, process, work, counters, Done
<1>15. CASE IngestApply
  BY <1>15 DEF IngestApply, ReadOK, FlowInv, vars, stores, memory, process, work, counters
<1>16. CASE Fail
  BY <1>16 DEF Fail, ReadOK, FlowInv, vars, stores, memory, process, work, counters, Done
<1>17. CASE LockTimeout
  BY <1>17 DEF LockTimeout, ReadOK, FlowInv, vars, stores, memory, process, work, counters, DropEvent
<1>18. CASE Crash
  BY <1>18 DEF Crash, ReadOK, FlowInv, vars, stores, memory, process, work, counters, Done
<1>19. CASE ChangeSpace
  BY <1>19 DEF ChangeSpace, ReadOK, FlowInv, vars, stores, memory, process, work, counters
<1>20. CASE EditSchema
  BY <1>20 DEF EditSchema, ReadOK, FlowInv, vars, stores, memory, process, work, counters, Notice
<1>21. CASE StartWatch
  BY <1>21 DEF StartWatch, ReadOK, FlowInv, vars, stores, memory, process, work, counters
<1>22. CASE StartModules
  BY <1>22 DEF StartModules, ReadOK, FlowInv, vars, stores, memory, process, work, counters, Start
<1>23. ASSUME NEW s \in {"index", "fts"}, LoseStore(s) PROVE ReadOK' /\ FlowInv'
  BY <1>23 DEF LoseStore, ReadOK, FlowInv, vars, stores, memory, process, work, counters
<1>24. ASSUME NEW f \in Files, EventUpsertFails(f) PROVE ReadOK' /\ FlowInv'
  BY <1>24 DEF EventUpsertFails, ReadOK, FlowInv, vars, stores, memory, process, work, counters, Done
<1>25. ASSUME NEW bad \in SUBSET Files, IngestParse(bad) PROVE ReadOK' /\ FlowInv'
  BY <1>25 DEF IngestParse, ReadOK, FlowInv, vars, stores, memory, process, work, counters
<1>26. ASSUME NEW bad \in SUBSET Files, ModulesRefresh(bad) PROVE ReadOK' /\ FlowInv'
  BY <1>26 DEF ModulesRefresh, ReadOK, FlowInv, vars, stores, memory, process, work, counters, Goto
<1>27. ASSUME NEW done \in SUBSET Files, NEW g \in Files, IngestApplyFails(done, g) PROVE ReadOK' /\ FlowInv'
  BY <1>27 DEF IngestApplyFails, ReadOK, FlowInv, vars, stores, memory, process, work, counters, Done
<1>28. ASSUME NEW f \in Files, NEW c \in Content \cup {None}, Edit(f, c) PROVE ReadOK' /\ FlowInv'
  BY <1>28 DEF Edit, ReadOK, FlowInv, vars, stores, memory, process, work, counters, Notice
<1>29. ASSUME NEW f \in Files, NEW g \in Files, Rename(f, g) PROVE ReadOK' /\ FlowInv'
  BY <1>29 DEF Rename, ReadOK, FlowInv, vars, stores, memory, process, work, counters, Notice
<1>30. ASSUME NEW f \in Files \cup {None}, NEW w \in BOOLEAN, StartIngest(f, w) PROVE ReadOK' /\ FlowInv'
  BY <1>30 DEF StartIngest, ReadOK, FlowInv, vars, stores, memory, process, work, counters, Start, AfterLock
<1>31. ASSUME NEW f \in Files, EventGone(f) PROVE ReadOK' /\ FlowInv'
  BY <1>31 DEF EventGone, ReadOK, FlowInv, vars, stores, memory, process, work, counters, AtFile, Without, Reconciles
<1>32. ASSUME NEW f \in Files, EventUnchanged(f) PROVE ReadOK' /\ FlowInv'
  BY <1>32 DEF EventUnchanged, ReadOK, FlowInv, vars, stores, memory, process, work, counters, AtFile, Reconciles
<1>33. ASSUME NEW f \in Files, EventRefresh(f) PROVE ReadOK' /\ FlowInv'
  BY <1>33 DEF EventRefresh, ReadOK, FlowInv, vars, stores, memory, process, work, counters, AtFile, Reconciles
<1>34. ASSUME NEW f \in Files, EventRead(f) PROVE ReadOK' /\ FlowInv'
  BY <1>34 DEF EventRead, ReadOK, FlowInv, vars, stores, memory, process, work, counters, AtFile, TypeOK, DataOK, FlowOK
<1>35. ASSUME NEW f \in Files, EventUpsert(f) PROVE ReadOK' /\ FlowInv'
  BY <1>35 DEF EventUpsert, ReadOK, FlowInv, vars, stores, memory, process, work, counters, Reconciles
<1> QED
  BY <1>0, <1>1, <1>2, <1>3, <1>4, <1>5, <1>6, <1>7, <1>8, <1>9, <1>10, <1>11, <1>12, <1>13, <1>14, <1>15, <1>16, <1>17, <1>18, <1>19, <1>20, <1>21, <1>22, <1>23, <1>24, <1>25, <1>26, <1>27, <1>28, <1>29, <1>30, <1>31, <1>32, <1>33, <1>34, <1>35, <1>36 DEF Next, Progress, Failures, Users

\* Where an event or an ingest has changed nothing yet, nothing differs.
LEMMA Quiet ==
  ASSUME FlowInv, PhaseInv, NoSilentSplit, phase = "ready", task # "modules",
         NEW g \in Files, cause[g] = "none"
  PROVE  staged[g] = fts[g] /\ fts[g] = Proj(disk)[g] /\ mem = disk
<1>1. up /\ ~marker /\ "fts" \in made
  BY DEF FlowInv
<1> QED BY <1>1 DEF PhaseInv, NoSilentSplit, Known, Agree

\* Every step keeps what the phases promise of the stores, and the promise.
LEMMA PhaseStep == TypeOK /\ ReadOK /\ FlowInv /\ PhaseInv /\ NoSilentSplit /\ [Next]_vars => PhaseInv' /\ NoSilentSplit'
<1> SUFFICES ASSUME TypeOK, ReadOK, FlowInv, PhaseInv, NoSilentSplit, [Next]_vars PROVE PhaseInv' /\ NoSilentSplit'
  OBVIOUS
<1>0. CASE UNCHANGED vars
  BY <1>0 DEF PhaseInv, NoSilentSplit, FlowInv, Known, Agree, vars, stores, memory, process, work, counters
<1>1. CASE Open
  BY <1>1 DEF Open, PhaseInv, NoSilentSplit, FlowInv, Known, Agree, vars, stores, memory, process, work, counters
<1>2. CASE OpenIndex
  BY <1>2 DEF OpenIndex, PhaseInv, NoSilentSplit, FlowInv, Known, Agree, vars, stores, memory, process, work, counters, Goto, Done
<1>3. CASE RebuildHook
  BY <1>3 DEF RebuildHook, PhaseInv, NoSilentSplit, FlowInv, Known, Agree, vars, stores, memory, process, work, counters, Goto
<1>4. CASE Rebuild
  BY <1>4 DEF Rebuild, PhaseInv, NoSilentSplit, FlowInv, Known, Agree, vars, stores, memory, process, work, counters
<1>5. CASE StartEvent
  BY <1>5 DEF StartEvent, PhaseInv, NoSilentSplit, FlowInv, Known, Agree, vars, stores, memory, process, work, counters, Start, AfterLock
<1>6. CASE RefuseEvent
  BY <1>6 DEF RefuseEvent, PhaseInv, NoSilentSplit, FlowInv, Known, Agree, vars, stores, memory, process, work, counters, DropEvent
<1>7. CASE Recover
  BY <1>7 DEF Recover, PhaseInv, NoSilentSplit, FlowInv, Known, Agree, vars, stores, memory, process, work, counters, Goto
<1>8. CASE Retire
  BY <1>8 DEF Retire, PhaseInv, NoSilentSplit, FlowInv, Known, Agree, vars, stores, memory, process, work, counters, Goto, Done
<1>9. CASE Save
  BY <1>9 DEF Save, PhaseInv, NoSilentSplit, FlowInv, Known, Agree, vars, stores, memory, process, work, counters, Goto, Done
<1>10. CASE Commit
  BY <1>10 DEF Commit, PhaseInv, NoSilentSplit, FlowInv, Known, Agree, vars, stores, memory, process, work, counters, Goto
<1>11. CASE Finish
  BY <1>11 DEF Finish, PhaseInv, NoSilentSplit, FlowInv, Known, Agree, vars, stores, memory, process, work, counters, Done
<1>12. CASE EventRename
  BY <1>12 DEF EventRename, PhaseInv, NoSilentSplit, FlowInv, Known, Agree, vars, stores, memory, process, work, counters, Without, Goto, Proj
<1>13. CASE EventSchema
  BY <1>13 DEF EventSchema, PhaseInv, NoSilentSplit, FlowInv, Known, Agree, vars, stores, memory, process, work, counters, Reconciles
<1>14. CASE IngestMissing
  BY <1>14 DEF IngestMissing, PhaseInv, NoSilentSplit, FlowInv, Known, Agree, vars, stores, memory, process, work, counters, Done
<1>36. CASE IngestCancel
  BY <1>36 DEF IngestCancel, PhaseInv, NoSilentSplit, FlowInv, Known, Agree, stores, memory, process, work, counters, Done
<1>15. CASE IngestApply
  <2>1. mem = disk /\ ~marker /\ mem \in Index
    BY <1>15 DEF IngestApply, PhaseInv, FlowInv, TypeOK
  <2>2. ASSUME NEW g \in Files, cause'[g] = "none" PROVE staged'[g] = Proj(mem')[g]
    <3>1. CASE g \in Reembedded
      <4>1. parsed[g] \in Content /\ g \notin Vanished
        BY <3>1 DEF Reembedded, Read, Vanished, TypeOK
      <4>2. Indexed(parsed[g]) # None /\ Indexed(parsed[g]).emb = parsed[g].body
        BY <4>1, IndexedType, NoneAssumption DEF Indexed
      <4>3. mem'[g] = Indexed(parsed[g]) /\ staged'[g] = parsed[g].body
        BY <1>15, <3>1, <4>1 DEF IngestApply, Upserted, Restaged
      <4> QED BY <4>2, <4>3 DEF Proj
    <3>2. CASE g \in Vanished
      BY <1>15, <3>2 DEF IngestApply, Proj
    <3>3. CASE full /\ g \notin Reembedded \cup Vanished
      <4>1. mem'[g] = None
        BY <1>15, <2>2, <3>3 DEF IngestApply
      <4>2. staged'[g] = None
        BY <1>15, <3>3 DEF IngestApply, Restaged, Refill
      <4> QED BY <4>1, <4>2 DEF Proj
    <3>4. CASE ~full /\ g \notin Reembedded \cup Vanished
      <4>1. ~foreign
        BY <1>15, <3>4 DEF IngestApply, FlowInv
      <4>2. Proj(mem')[g] = Proj(mem)[g]
        <5>1. CASE mem[g] = None
          BY <1>15, <3>4, <5>1 DEF IngestApply, Upserted, Proj
        <5>2. CASE mem[g] # None /\ g \in Refreshed
          <6>1. mem[g] \in Entry /\ parsed[g] \in Content
            BY <2>1, <5>2 DEF Index, Refreshed, Read, TypeOK
          <6>2. mem'[g] = [mem[g] EXCEPT !.hash = parsed[g]]
            BY <1>15, <3>4, <4>1, <5>2 DEF IngestApply, Upserted
          <6>3. mem'[g] \in Entry /\ mem'[g].emb = mem[g].emb
            BY <6>1, <6>2 DEF Entry
          <6> QED BY <5>2, <6>3, NoneAssumption DEF Proj
        <5>3. CASE mem[g] # None /\ g \notin Refreshed
          BY <1>15, <3>4, <4>1, <5>3 DEF IngestApply, Upserted, Proj
        <5> QED BY <5>1, <5>2, <5>3
      <4>3. CASE Refill /\ Proj(mem)[g] # None
        BY <1>15, <3>4, <4>2, <4>3 DEF IngestApply
      <4>4. CASE ~(Refill /\ Proj(mem)[g] # None)
        <5>1. staged'[g] = staged[g] /\ cause[g] = "none"
          BY <1>15, <2>2, <3>4, <4>4 DEF IngestApply, Restaged
        <5> QED BY <1>15, <4>2, <5>1 DEF IngestApply, PhaseInv, Known
      <4> QED BY <4>3, <4>4
    <3> QED BY <3>1, <3>2, <3>3, <3>4
  <2>3. Known(staged, Proj(mem))'
    BY <2>2 DEF Known
  <2> QED BY <1>15, <2>3 DEF IngestApply, PhaseInv, NoSilentSplit
<1>16. CASE Fail
  BY <1>16 DEF Fail, PhaseInv, NoSilentSplit, FlowInv, Known, Agree, vars, stores, memory, process, work, counters, Done
<1>17. CASE LockTimeout
  BY <1>17 DEF LockTimeout, PhaseInv, NoSilentSplit, FlowInv, Known, Agree, vars, stores, memory, process, work, counters, DropEvent
<1>18. CASE Crash
  BY <1>18 DEF Crash, PhaseInv, NoSilentSplit, FlowInv, Known, Agree, vars, stores, memory, process, work, counters, Done
<1>19. CASE ChangeSpace
  BY <1>19 DEF ChangeSpace, PhaseInv, NoSilentSplit, FlowInv, Known, Agree, vars, stores, memory, process, work, counters
<1>20. CASE EditSchema
  BY <1>20 DEF EditSchema, PhaseInv, NoSilentSplit, FlowInv, Known, Agree, vars, stores, memory, process, work, counters, Notice
<1>21. CASE StartWatch
  BY <1>21 DEF StartWatch, PhaseInv, NoSilentSplit, FlowInv, Known, Agree, vars, stores, memory, process, work, counters
<1>22. CASE StartModules
  BY <1>22 DEF StartModules, PhaseInv, NoSilentSplit, FlowInv, Known, Agree, vars, stores, memory, process, work, counters, Start
<1>23. ASSUME NEW s \in {"index", "fts"}, LoseStore(s) PROVE PhaseInv' /\ NoSilentSplit'
  BY <1>23 DEF LoseStore, PhaseInv, NoSilentSplit, FlowInv, Known, Agree, vars, stores, memory, process, work, counters
<1>24. ASSUME NEW f \in Files, EventUpsertFails(f) PROVE PhaseInv' /\ NoSilentSplit'
  BY <1>24 DEF EventUpsertFails, PhaseInv, NoSilentSplit, FlowInv, Known, Agree, vars, stores, memory, process, work, counters, Done
<1>25. ASSUME NEW bad \in SUBSET Files, IngestParse(bad) PROVE PhaseInv' /\ NoSilentSplit'
  BY <1>25 DEF IngestParse, PhaseInv, NoSilentSplit, FlowInv, Known, Agree, vars, stores, memory, process, work, counters
<1>26. ASSUME NEW bad \in SUBSET Files, ModulesRefresh(bad) PROVE PhaseInv' /\ NoSilentSplit'
  <2>1. mem = disk /\ mem \in Index
    BY <1>26 DEF ModulesRefresh, PhaseInv, TypeOK
  <2>2. ASSUME ~marker', NEW g \in Files PROVE Proj(mem')[g] = Proj(mem)[g]
    <3>1. CASE mem[g] = None
      <4>1. mem'[g] = None
        BY <1>26, <2>2, <3>1 DEF ModulesRefresh
      <4> QED BY <3>1, <4>1 DEF Proj
    <3>2. CASE mem[g] # None
      <4>1. mem[g] \in Entry /\ mem'[g] \in {mem[g], [mem[g] EXCEPT !.hash = src[g]]}
        BY <1>26, <2>1, <2>2, <3>2 DEF ModulesRefresh, Index
      <4>2. src[g] \in Content \/ mem'[g] = mem[g]
        BY <1>26, <2>2, <3>2, <4>1 DEF ModulesRefresh, TypeOK
      <4>3. mem'[g] \in Entry /\ mem'[g].emb = mem[g].emb
        BY <4>1, <4>2 DEF Entry
      <4> QED BY <3>2, <4>3, NoneAssumption DEF Proj
    <3> QED BY <3>1, <3>2
  <2>3. ~marker' => Proj(mem') = Proj(disk)
    BY <2>1, <2>2 DEF Proj
  <2> QED BY <1>26, <2>3 DEF ModulesRefresh, Goto, PhaseInv, NoSilentSplit, Known, Agree, FlowInv, vars, stores, memory, process, work, counters
<1>27. ASSUME NEW done \in SUBSET Files, NEW g \in Files, IngestApplyFails(done, g) PROVE PhaseInv' /\ NoSilentSplit'
  BY <1>27 DEF IngestApplyFails, PhaseInv, NoSilentSplit, FlowInv, Known, Agree, vars, stores, memory, process, work, counters, Done
<1>28. ASSUME NEW f \in Files, NEW c \in Content \cup {None}, Edit(f, c) PROVE PhaseInv' /\ NoSilentSplit'
  BY <1>28 DEF Edit, PhaseInv, NoSilentSplit, FlowInv, Known, Agree, vars, stores, memory, process, work, counters, Notice
<1>29. ASSUME NEW f \in Files, NEW g \in Files, Rename(f, g) PROVE PhaseInv' /\ NoSilentSplit'
  BY <1>29 DEF Rename, PhaseInv, NoSilentSplit, FlowInv, Known, Agree, vars, stores, memory, process, work, counters, Notice
<1>30. ASSUME NEW f \in Files \cup {None}, NEW w \in BOOLEAN, StartIngest(f, w) PROVE PhaseInv' /\ NoSilentSplit'
  BY <1>30 DEF StartIngest, PhaseInv, NoSilentSplit, FlowInv, Known, Agree, vars, stores, memory, process, work, counters, Start, AfterLock
<1>31. ASSUME NEW f \in Files, EventGone(f) PROVE PhaseInv' /\ NoSilentSplit'
  BY <1>31 DEF EventGone, PhaseInv, NoSilentSplit, FlowInv, Known, Agree, vars, stores, memory, process, work, counters, AtFile, Without, Reconciles, Proj
<1>32. ASSUME NEW f \in Files, EventUnchanged(f) PROVE PhaseInv' /\ NoSilentSplit'
  <2>1. ASSUME NEW g \in Files, cause'[g] = "none"
        PROVE  staged[g] = fts[g] /\ fts[g] = Proj(disk)[g]
    <3>1. CASE phase = "renamed"
      <4>1. g # event.from /\ cause[g] = "none"
        BY <1>32, <2>1, <3>1 DEF EventUnchanged, AfterRename, TypeOK
      <4> QED BY <3>1, <4>1 DEF PhaseInv
    <3>2. CASE phase = "ready"
      <4>1. cause' = cause /\ task = "event"
        BY <1>32, <3>2 DEF EventUnchanged, AfterRename, AtFile
      <4> QED BY <2>1, <3>2, <4>1, Quiet
    <3> QED BY <1>32, <3>1, <3>2 DEF EventUnchanged, AtFile
  <2>2. Known(staged, fts)' /\ Known(staged, Proj(disk))' /\ Known(fts, Proj(disk))'
    BY <1>32, <2>1 DEF Known, EventUnchanged, Reconciles
  <2> QED BY <1>32, <2>2 DEF EventUnchanged, Reconciles, PhaseInv, NoSilentSplit, Known, Agree
<1>33. ASSUME NEW f \in Files, EventRefresh(f) PROVE PhaseInv' /\ NoSilentSplit'
  <2>1. Proj(mem') = Proj(mem)
    <3>1. mem \in Index /\ mem[f] \in Entry /\ src[f] \in Content
      BY <1>33 DEF EventRefresh, MetaOnly, TypeOK, Index
    <3>2. mem' = [mem EXCEPT ![f] = [mem[f] EXCEPT !.hash = src[f]]]
      BY <1>33 DEF EventRefresh
    <3>3. mem'[f] \in Entry /\ mem'[f].emb = mem[f].emb
      BY <3>1, <3>2 DEF Entry, Index
    <3>4. \A g \in Files : Proj(mem')[g] = Proj(mem)[g]
      BY <3>1, <3>2, <3>3, NoneAssumption DEF Proj, Index
    <3> QED BY <3>4 DEF Proj
  <2>2. ASSUME NEW g \in Files, cause'[g] = "none"
        PROVE  staged[g] = fts[g] /\ fts[g] = Proj(mem)[g]
    <3>1. CASE phase = "renamed"
      <4>1. g # event.from /\ cause[g] = "none"
        BY <1>33, <2>2, <3>1 DEF EventRefresh, AfterRename, TypeOK
      <4> QED BY <3>1, <4>1 DEF PhaseInv, Proj
    <3>2. CASE phase = "ready"
      <4>1. cause' = cause /\ task = "event"
        BY <1>33, <3>2 DEF EventRefresh, AfterRename, AtFile
      <4> QED BY <2>2, <3>2, <4>1, Quiet
    <3> QED BY <1>33, <3>1, <3>2 DEF EventRefresh, AtFile
  <2>3. Known(staged, fts)' /\ Known(staged, Proj(mem))' /\ Known(fts, Proj(mem))'
    BY <1>33, <2>1, <2>2 DEF Known, EventRefresh, Reconciles
  <2>4. ~marker => Proj(mem) = Proj(disk)
    BY <1>33 DEF EventRefresh, AtFile, FlowInv, PhaseInv
  <2>5. NoSilentSplit'
    <3>1. ASSUME ~marker PROVE phase = "ready"
      BY <1>33, <3>1 DEF EventRefresh, AtFile, FlowInv
    <3>2. ASSUME ~marker PROVE cause' = cause
      BY <1>33, <3>1, <3>2 DEF EventRefresh, AfterRename
    <3> QED BY <1>33, <3>2 DEF NoSilentSplit, Agree, EventRefresh, Reconciles
  <2> QED BY <1>33, <2>1, <2>3, <2>4, <2>5 DEF EventRefresh, Reconciles, PhaseInv
<1>34. ASSUME NEW f \in Files, EventRead(f) PROVE PhaseInv' /\ NoSilentSplit'
  <2>1. ASSUME NEW g \in Files, cause[g] = "none" PROVE staged[g] = Proj(mem)[g]
    <3>1. CASE phase = "renamed"
      <4>1. CASE g = event.from
        BY <3>1, <4>1 DEF PhaseInv, Proj
      <4>2. CASE g # event.from
        BY <2>1, <3>1, <4>2 DEF PhaseInv, Proj
      <4> QED BY <4>1, <4>2
    <3>2. CASE phase = "ready"
      BY <1>34, <2>1, <3>2, Quiet DEF EventRead, AtFile
    <3> QED BY <1>34, <3>1, <3>2 DEF EventRead, AtFile
  <2>2. Known(staged, Proj(mem))'
    BY <1>34, <2>1 DEF Known, EventRead, memory
  <2> QED BY <1>34, <2>2 DEF EventRead, AtFile, PhaseInv, NoSilentSplit, Known, Agree, vars, stores, memory, process, work, counters
<1>35. ASSUME NEW f \in Files, EventUpsert(f) PROVE PhaseInv' /\ NoSilentSplit'
  <2>1. f \in Files /\ parsed[f] \in Content
    BY <1>35 DEF EventUpsert, ReadOK
  <2>2. Indexed(parsed[f]) \in Entry /\ Indexed(parsed[f]).emb = parsed[f].body
    BY <2>1, IndexedType DEF Indexed
  <2>3. mem' = [mem EXCEPT ![f] = Indexed(parsed[f])] /\ mem \in Index /\ staged \in Texts
    BY <1>35 DEF EventUpsert, TypeOK
  <2>4. ASSUME NEW g \in Files, cause'[g] = "none" PROVE staged'[g] = Proj(mem')[g]
    <3>1. CASE g = f
      BY <1>35, <2>1, <2>2, <2>3, <3>1, NoneAssumption DEF EventUpsert, Proj, Index, Texts
    <3>2. CASE g # f
      <4>1. cause[g] = "none" /\ staged'[g] = staged[g] /\ Proj(mem')[g] = Proj(mem)[g]
        BY <1>35, <2>3, <2>4, <3>2 DEF EventUpsert, TypeOK, Proj, Index, Texts
      <4> QED BY <1>35, <4>1 DEF EventUpsert, PhaseInv, Known
    <3> QED BY <3>1, <3>2
  <2>5. Known(staged, Proj(mem))'
    BY <2>4 DEF Known
  <2> QED BY <1>35, <2>5 DEF EventUpsert, Reconciles, PhaseInv, NoSilentSplit
<1> QED
  BY <1>0, <1>1, <1>2, <1>3, <1>4, <1>5, <1>6, <1>7, <1>8, <1>9, <1>10, <1>11, <1>12, <1>13, <1>14, <1>15, <1>16, <1>17, <1>18, <1>19, <1>20, <1>21, <1>22, <1>23, <1>24, <1>25, <1>26, <1>27, <1>28, <1>29, <1>30, <1>31, <1>32, <1>33, <1>34, <1>35, <1>36 DEF Next, Progress, Failures, Users

-----------------------------------------------------------------------------
(* The theorems *)

\* An empty project keeps every promise.
LEMMA SplitInit == Init => SplitInv
<1> SUFFICES ASSUME Init PROVE SplitInv
  OBVIOUS
<1>1. DataOK
  BY EmptyTypes DEF Init, DataOK, Causes
<1>2. FlowOK
  <2>1. <<>> \in Seq(Events)
    OBVIOUS
  <2>2. events \in Seq(Events) /\ event \in Events
    BY <2>1 DEF Init, NoEvent, Events
  <2>3. task \in Tasks /\ phase \in Phases /\ only \in Files \cup {None} /\ full \in BOOLEAN
    BY DEF Init, Tasks, Phases
  <2>4. up \in BOOLEAN /\ watching \in BOOLEAN /\ rebuilt \in BOOLEAN
    BY DEF Init
  <2>5. taken \subseteq Files /\ unsynced \subseteq Files
    BY DEF Init
  <2>6. {edits, fails, crashes, runs} \subseteq Nat
    BY DEF Init
  <2>7. parsed \in [Files -> Content \cup {None, Unread}]
    BY EmptyTypes DEF Init
  <2> QED BY <2>2, <2>3, <2>4, <2>5, <2>6, <2>7 DEF FlowOK
<1>3. ReadOK /\ FlowInv /\ PhaseInv /\ NoSilentSplit
  BY DEF Init, ReadOK, FlowInv, PhaseInv, NoSilentSplit
<1> QED BY <1>1, <1>2, <1>3, TypeHalves DEF SplitInv

\* And every step keeps them.
LEMMA SplitStep == SplitInv /\ [Next]_vars => SplitInv'
  BY TypeStep, FlowStep, PhaseStep DEF SplitInv

\* The inductive invariant always holds.
LEMMA SplitAlways == Spec => []SplitInv
  BY SplitInit, SplitStep, PTL DEF Spec

\* Every variable always has the shape of its counterpart.
THEOREM StoresTyped == Spec => []TypeOK
<1>1. SplitInv => TypeOK
  BY DEF SplitInv
<1> QED BY <1>1, SplitAlways, PTL

\* Whatever fails or dies, and whenever: where no marker is found, the committed
\* full-text index describes the documents of the index file.
THEOREM SplitsAreMarked == Spec => []NoSilentSplit
<1>1. SplitInv => NoSilentSplit
  BY DEF SplitInv
<1> QED BY <1>1, SplitAlways, PTL

\* Neither store changes its documents without the marker.
LEMMA MarkedStep ==
  SplitInv /\ [Next]_vars =>
    [fts' # fts \/ Proj(disk') # Proj(disk) => marker \/ "fts" \notin made']_vars
<1> SUFFICES ASSUME SplitInv, [Next]_vars, ~marker, "fts" \in made'
             PROVE  fts' = fts /\ Proj(disk') = Proj(disk)
  OBVIOUS
<1> USE DEF SplitInv
<1>0. CASE UNCHANGED vars
  BY <1>0 DEF vars, stores, memory, process, work, counters
<1>1. CASE Open
  BY <1>1 DEF Open, stores
<1>2. CASE OpenIndex
  BY <1>2 DEF OpenIndex, stores, Goto, Done
<1>3. CASE RebuildHook
  BY <1>3 DEF RebuildHook, stores, Goto
<1>4. CASE Rebuild
  BY <1>4 DEF Rebuild, stores, FlowInv, PhaseInv
<1>5. CASE StartEvent
  BY <1>5 DEF StartEvent, stores, Start, AfterLock
<1>6. CASE RefuseEvent
  BY <1>6 DEF RefuseEvent, stores, DropEvent
<1>7. CASE Recover
  BY <1>7 DEF Recover, stores, Goto, FlowInv, PhaseInv
<1>8. CASE Retire
  BY <1>8 DEF Retire, stores, Goto, Done
<1>9. CASE Save
  BY <1>9 DEF Save, stores, Goto, Done, FlowInv, PhaseInv
<1>10. CASE Commit
  BY <1>10 DEF Commit, stores, Goto, FlowInv, PhaseInv
<1>11. CASE Finish
  BY <1>11 DEF Finish, stores, Done
<1>12. CASE EventRename
  BY <1>12 DEF EventRename, stores, Without, Goto
<1>13. CASE EventSchema
  BY <1>13 DEF EventSchema, stores, Reconciles
<1>14. CASE IngestMissing
  BY <1>14 DEF IngestMissing, stores, Done
<1>36. CASE IngestCancel
  BY <1>36 DEF IngestCancel, stores, Done, FlowInv, PhaseInv
<1>15. CASE IngestApply
  BY <1>15 DEF IngestApply, stores
<1>16. CASE Fail
  BY <1>16 DEF Fail, stores, Done
<1>17. CASE LockTimeout
  BY <1>17 DEF LockTimeout, stores, DropEvent
<1>18. CASE Crash
  BY <1>18 DEF Crash, stores, Done
<1>19. CASE ChangeSpace
  BY <1>19 DEF ChangeSpace, stores
<1>20. CASE EditSchema
  BY <1>20 DEF EditSchema, stores, Notice
<1>21. CASE StartWatch
  BY <1>21 DEF StartWatch, stores
<1>22. CASE StartModules
  BY <1>22 DEF StartModules, stores, Start
<1>23. ASSUME NEW s \in {"index", "fts"}, LoseStore(s) PROVE fts' = fts /\ Proj(disk') = Proj(disk)
  BY <1>23 DEF LoseStore, stores
<1>24. ASSUME NEW f \in Files, EventUpsertFails(f) PROVE fts' = fts /\ Proj(disk') = Proj(disk)
  BY <1>24 DEF EventUpsertFails, stores, Done
<1>25. ASSUME NEW bad \in SUBSET Files, IngestParse(bad) PROVE fts' = fts /\ Proj(disk') = Proj(disk)
  BY <1>25 DEF IngestParse, stores
<1>26. ASSUME NEW bad \in SUBSET Files, ModulesRefresh(bad) PROVE fts' = fts /\ Proj(disk') = Proj(disk)
  BY <1>26 DEF ModulesRefresh, stores, Goto
<1>27. ASSUME NEW done \in SUBSET Files, NEW g \in Files, IngestApplyFails(done, g) PROVE fts' = fts /\ Proj(disk') = Proj(disk)
  BY <1>27 DEF IngestApplyFails, stores, Done
<1>28. ASSUME NEW f \in Files, NEW c \in Content \cup {None}, Edit(f, c) PROVE fts' = fts /\ Proj(disk') = Proj(disk)
  BY <1>28 DEF Edit, stores, Notice
<1>29. ASSUME NEW f \in Files, NEW g \in Files, Rename(f, g) PROVE fts' = fts /\ Proj(disk') = Proj(disk)
  BY <1>29 DEF Rename, stores, Notice
<1>30. ASSUME NEW f \in Files \cup {None}, NEW w \in BOOLEAN, StartIngest(f, w) PROVE fts' = fts /\ Proj(disk') = Proj(disk)
  BY <1>30 DEF StartIngest, stores, Start, AfterLock
<1>31. ASSUME NEW f \in Files, EventGone(f) PROVE fts' = fts /\ Proj(disk') = Proj(disk)
  BY <1>31 DEF EventGone, stores, AtFile, Without, Reconciles
<1>32. ASSUME NEW f \in Files, EventUnchanged(f) PROVE fts' = fts /\ Proj(disk') = Proj(disk)
  BY <1>32 DEF EventUnchanged, stores, AtFile, Reconciles
<1>33. ASSUME NEW f \in Files, EventRefresh(f) PROVE fts' = fts /\ Proj(disk') = Proj(disk)
  BY <1>33 DEF EventRefresh, stores, AtFile, Reconciles
<1>34. ASSUME NEW f \in Files, EventRead(f) PROVE fts' = fts /\ Proj(disk') = Proj(disk)
  BY <1>34 DEF EventRead, stores, AtFile
<1>35. ASSUME NEW f \in Files, EventUpsert(f) PROVE fts' = fts /\ Proj(disk') = Proj(disk)
  BY <1>35 DEF EventUpsert, stores, Reconciles
<1> QED
  BY <1>0, <1>1, <1>2, <1>3, <1>4, <1>5, <1>6, <1>7, <1>8, <1>9, <1>10, <1>11, <1>12, <1>13, <1>14, <1>15, <1>16, <1>17, <1>18, <1>19, <1>20, <1>21, <1>22, <1>23, <1>24, <1>25, <1>26, <1>27, <1>28, <1>29, <1>30, <1>31, <1>32, <1>33, <1>34, <1>35, <1>36 DEF Next, Progress, Failures, Users

\* The write-ahead rule of the marker, at every step.
THEOREM MarkerComesFirst == Spec => MarkerPrecedesChange
  BY SplitAlways, MarkedStep, PTL DEF Spec, MarkerPrecedesChange

-----------------------------------------------------------------------------
(* No change of a source is forgotten.  What a task has read travels from the parse   *)
(* to the handle, the file and the full-text index while sources go on changing and    *)
(* tasks fail or die.  The invariant follows it: at each phase, the documents a task   *)
(* has taken are fresh in the store that the next step copies from, and every other    *)
(* document is fresh in the file or known to be behind.                                *)

\* What an index says of a document is what its source is.
Fresh(ix, f) == IF src[f] = None THEN ix[f] = None ELSE ix[f] = Indexed(src[f])

\* Documents that may be out of date.
Behind == unsynced \cup Queued \cup InHand

\* Events name what they must, and a rename's old path is gone unless a later
\* event tells of it.
WellFormed(e) ==
  \/ e.kind = "schema" /\ e.file = None /\ e.from = None
  \/ e.kind = "change" /\ e.file \in Files /\ e.from = None
  \/ e.kind = "rename" /\ e.file \in Files /\ e.from \in Files \ {e.file}
EventInv ==
  /\ events # <<>> \/ task = "event" => watching
  /\ WellFormed(event) /\ \A i \in 1..Len(events) : WellFormed(events[i])
  /\ phase = "renamed" => event.kind = "rename"
  /\ \A i \in 1..Len(events) : events[i].kind = "rename" =>
       \/ src[events[i].from] = None
       \/ \E j \in (i + 1)..Len(events) : events[i].from \in EventFiles(events[j])
  /\ task = "event" /\ event.kind = "rename" => src[event.from] = None \/ event.from \in Queued

\* What a task has read is what the sources still are, until it is written to the
\* handle and to the file; what was edited since is behind.
TakenInv ==
  /\ task \in {"none", "open", "modules"} \/ phase \in {"ready", "renamed", "recover", "retire"} => taken = {}
  /\ task = "event" => taken \subseteq EventFiles(event)
  /\ phase = "embed" => \A f \in taken : (task = "event" /\ f = event.from) \/ parsed[f] = src[f]
  /\ phase = "embed" /\ task = "ingest" =>
       \A f \in Files : IF parsed[f] = Unread THEN f \notin taken ELSE f \in Behind \cup taken
  /\ phase \in {"save", "save_meta"} => \A f \in taken : Fresh(mem, f) \/ (task = "event" /\ f \in Queued)
  /\ phase \in {"commit", "finish"} => \A f \in taken : Fresh(disk, f) \/ (task = "event" /\ f \in Queued)

\* The handle differs from the file only on the documents of the event in hand,
\* and a save makes nothing stale that is not behind.
HandleInv ==
  /\ task = "event" => \A g \in Files \ InHand : mem[g] = disk[g]
  /\ task = "event" /\ event.kind = "rename" /\ phase \in {"renamed", "embed"} => mem[event.from] = None
  /\ phase \in {"save", "save_meta"} => \A f \in Files : Fresh(mem, f) \/ f \in Behind

FreshInv == EventInv /\ TakenInv /\ HandleInv /\ StaleOnlyIfKnown

\* Queues: what appending and removing an event does to the documents they name.
LEMMA QueueGrows ==
  ASSUME TypeOK, NEW e \in Events, events' = Append(events, e)
  PROVE  /\ Queued' = Queued \cup EventFiles(e)
         /\ Len(events') = Len(events) + 1 /\ events'[Len(events) + 1] = e
         /\ \A i \in 1..Len(events) : events'[i] = events[i]
<1>1. events \in Seq(Events)
  BY DEF TypeOK
<1>2. /\ Len(events') = Len(events) + 1 /\ events'[Len(events) + 1] = e
      /\ \A i \in 1..Len(events) : events'[i] = events[i]
  BY <1>1
<1>3. Len(events) \in Nat
  BY <1>1
<1>4. ASSUME NEW f \in Queued PROVE f \in Queued'
  <2>1. PICK i \in 1..Len(events) : f \in EventFiles(events[i])
    BY <1>4 DEF Queued
  <2> QED BY <1>2, <1>3, <2>1 DEF Queued
<1>5. ASSUME NEW f \in Queued' PROVE f \in Queued \cup EventFiles(e)
  <2>1. PICK i \in 1..Len(events') : f \in EventFiles(events'[i])
    BY <1>5 DEF Queued
  <2>2. CASE i = Len(events) + 1
    BY <1>2, <2>1, <2>2
  <2>3. CASE i # Len(events) + 1
    BY <1>2, <1>3, <2>1, <2>3 DEF Queued
  <2> QED BY <2>2, <2>3
<1>6. EventFiles(e) \subseteq Queued'
  BY <1>2, <1>3 DEF Queued
<1> QED BY <1>2, <1>4, <1>5, <1>6

\* Taking the oldest event leaves the documents of the others queued, in order.
LEMMA QueueShrinks ==
  ASSUME TypeOK, events # <<>>, events' = Tail(events)
  PROVE  /\ Queued = Queued' \cup EventFiles(Head(events))
         /\ Len(events') = Len(events) - 1 /\ Head(events) = events[1]
         /\ \A i \in 1..Len(events') : events'[i] = events[i + 1]
<1>1. events \in Seq(Events) /\ Len(events) \in Nat /\ Len(events) > 0
  BY DEF TypeOK
<1>2. /\ Len(events') = Len(events) - 1 /\ Head(events) = events[1]
      /\ \A i \in 1..Len(events') : events'[i] = events[i + 1]
  BY <1>1
<1>3. ASSUME NEW f \in Queued PROVE f \in Queued' \cup EventFiles(Head(events))
  <2>1. PICK i \in 1..Len(events) : f \in EventFiles(events[i])
    BY <1>3 DEF Queued
  <2>2. CASE i = 1
    BY <1>2, <2>1, <2>2
  <2>3. CASE i # 1
    <3>1. i - 1 \in 1..Len(events') /\ events'[i - 1] = events[i]
      BY <1>1, <1>2, <2>3
    <3> QED BY <2>1, <3>1 DEF Queued
  <2> QED BY <2>2, <2>3
<1>4. ASSUME NEW f \in Queued' PROVE f \in Queued
  <2>1. PICK i \in 1..Len(events') : f \in EventFiles(events'[i])
    BY <1>4 DEF Queued
  <2>2. i + 1 \in 1..Len(events) /\ events[i + 1] = events'[i]
    BY <1>1, <1>2
  <2> QED BY <2>1, <2>2 DEF Queued
<1>5. EventFiles(Head(events)) \subseteq Queued
  BY <1>1, <1>2 DEF Queued
<1> QED BY <1>2, <1>3, <1>4, <1>5

\* Handling or dropping the oldest event leaves the others well-formed, and the
\* old path of a rename gone or told of.
LEMMA QueueOrder ==
  ASSUME TypeOK, EventInv, events # <<>>, events' = Tail(events), src' = src
  PROVE  /\ WellFormed(Head(events))
         /\ Head(events).kind = "rename" => src[Head(events).from] = None \/ Head(events).from \in Queued'
         /\ \A i \in 1..Len(events') : WellFormed(events'[i])
         /\ \A i \in 1..Len(events') : events'[i].kind = "rename" =>
              \/ src'[events'[i].from] = None
              \/ \E j \in (i + 1)..Len(events') : events'[i].from \in EventFiles(events'[j])
<1>1. /\ Len(events) \in Nat /\ Len(events) > 0
      /\ Len(events') = Len(events) - 1 /\ Head(events) = events[1]
      /\ \A i \in 1..Len(events') : events'[i] = events[i + 1]
  BY QueueShrinks DEF TypeOK
<1>2. WellFormed(Head(events))
  BY <1>1 DEF EventInv
<1>3. ASSUME NEW i \in 1..Len(events'), NEW j \in (i + 2)..Len(events)
      PROVE  j - 1 \in (i + 1)..Len(events') /\ events'[j - 1] = events[j]
  BY <1>1
<1>4. ASSUME Head(events).kind = "rename", src[Head(events).from] # None
      PROVE  Head(events).from \in Queued'
  <2>1. PICK j \in 2..Len(events) : Head(events).from \in EventFiles(events[j])
    BY <1>1, <1>4 DEF EventInv
  <2>2. j - 1 \in 1..Len(events') /\ events'[j - 1] = events[j]
    BY <1>1
  <2> QED BY <2>1, <2>2 DEF Queued
<1>5. ASSUME NEW i \in 1..Len(events')
      PROVE  /\ WellFormed(events'[i])
             /\ events'[i].kind = "rename" =>
                  \/ src'[events'[i].from] = None
                  \/ \E j \in (i + 1)..Len(events') : events'[i].from \in EventFiles(events'[j])
  <2>1. i + 1 \in 1..Len(events) /\ events'[i] = events[i + 1]
    BY <1>1
  <2>2. CASE events'[i].kind = "rename" /\ src'[events'[i].from] # None
    <3>1. PICK j \in (i + 2)..Len(events) : events'[i].from \in EventFiles(events[j])
      BY <2>1, <2>2 DEF EventInv
    <3> QED BY <2>1, <1>3, <3>1 DEF EventInv
  <2> QED BY <2>1, <2>2 DEF EventInv
<1> QED BY <1>2, <1>4, <1>5

\* The end of a task keeps everything if it leaves behind what is out of date.
LEMMA DoneFresh ==
  ASSUME FreshInv, NEW left, Done(left), UNCHANGED <<src, events, watching>>,
         \A f \in Files : Fresh(disk, f)' \/ f \in left \cup Queued
  PROVE  FreshInv'
<1>1. EventInv'
  BY DEF FreshInv, EventInv, Done, NoEvent, WellFormed
<1>2. TakenInv' /\ HandleInv'
  BY DEF Done, TakenInv, HandleInv
<1>3. StaleOnlyIfKnown'
  BY DEF Done, StaleOnlyIfKnown, InSync, Fresh, Queued
<1> QED BY <1>1, <1>2, <1>3 DEF FreshInv

\* What the file says is what the sources are, but for the documents behind.
LEMMA FileFresh == ASSUME FreshInv, NEW f \in Files PROVE Fresh(disk, f) \/ f \in Behind
  BY DEF FreshInv, StaleOnlyIfKnown, InSync, Fresh, Behind

\* A change of the sources puts the documents it concerns behind.
LEMMA NoticeFresh ==
  ASSUME TypeOK, FreshInv, NEW e \in Events, WellFormed(e), Notice(e),
         e.kind = "rename" => src'[e.from] = None,
         \A f \in Files \ EventFiles(e) : src'[f] = src[f]
  PROVE  FreshInv'
<1>0. Len(events) \in Nat
  BY DEF TypeOK
<1>1. Behind' = Behind \cup EventFiles(e) /\ Queued \subseteq Queued'
  <2>1. CASE watching
    <3>1. Queued' = Queued \cup EventFiles(e)
      BY <2>1, QueueGrows DEF Notice
    <3> QED BY <2>1, <3>1 DEF Notice, Behind, InHand, work
  <2>2. CASE ~watching
    BY <2>2 DEF Notice, Behind, InHand, Queued, work
  <2> QED BY <2>1, <2>2
<1>2. ASSUME NEW f \in Files, f \notin EventFiles(e), NEW ix PROVE Fresh(ix, f) => (IF src'[f] = None THEN ix[f] = None ELSE ix[f] = Indexed(src'[f]))
  BY <1>2 DEF Fresh
<1>3. UNCHANGED <<disk, mem, task, phase, event, parsed, watching>> /\ taken' = taken \ EventFiles(e)
  BY DEF Notice, stores, memory, process, work
<1>4. EventInv'
  <2>1. CASE ~watching
    <3>1. events = <<>> /\ events' = <<>> /\ task # "event"
      BY <2>1 DEF FreshInv, EventInv, Notice
    <3> QED BY <1>3, <2>1, <3>1 DEF FreshInv, EventInv
  <2>2. CASE watching
    <3>1. /\ Queued' = Queued \cup EventFiles(e)
          /\ Len(events') = Len(events) + 1 /\ events'[Len(events) + 1] = e
          /\ \A i \in 1..Len(events) : events'[i] = events[i]
      BY <2>2, QueueGrows DEF Notice
    <3>2. ASSUME NEW i \in 1..Len(events')
          PROVE  /\ WellFormed(events'[i])
                 /\ events'[i].kind = "rename" =>
                      \/ src'[events'[i].from] = None
                      \/ \E j \in (i + 1)..Len(events') : events'[i].from \in EventFiles(events'[j])
      <4>1. CASE i = Len(events) + 1
        BY <3>1, <4>1
      <4>2. CASE i # Len(events) + 1
        <5>1. i \in 1..Len(events) /\ events'[i] = events[i] /\ WellFormed(events[i])
          BY <1>0, <3>1, <4>2 DEF FreshInv, EventInv
        <5>2. CASE events[i].kind = "rename" /\ events[i].from \in EventFiles(e)
          BY <1>0, <3>1, <5>1, <5>2
        <5>3. CASE events[i].kind = "rename" /\ events[i].from \notin EventFiles(e)
          <6>1. events[i].from \in Files
            BY <5>1, <5>3 DEF WellFormed
          <6>2. src'[events[i].from] = src[events[i].from]
            BY <5>3, <6>1
          <6>3. CASE src[events[i].from] # None
            <7>1. PICK j \in (i + 1)..Len(events) : events[i].from \in EventFiles(events[j])
              BY <5>1, <5>3, <6>3 DEF FreshInv, EventInv
            <7>2. j \in (i + 1)..Len(events') /\ events'[j] = events[j]
              BY <1>0, <3>1, <5>1
            <7> QED BY <5>1, <7>1, <7>2
          <6> QED BY <5>1, <6>2, <6>3
        <5> QED BY <5>1, <5>2, <5>3
      <4> QED BY <4>1, <4>2
    <3>3. task' = "event" /\ event'.kind = "rename" => src'[event'.from] = None \/ event'.from \in Queued'
      BY <1>3, <3>1 DEF FreshInv, EventInv, WellFormed
    <3> QED BY <1>3, <2>2, <3>2, <3>3 DEF FreshInv, EventInv
  <2> QED BY <2>1, <2>2
<1>5. TakenInv'
  <2>1. taken \subseteq Files
    BY DEF TypeOK
  <2> QED BY <1>1, <1>2, <1>3, <2>1 DEF FreshInv, TakenInv, Fresh
<1>6. HandleInv'
  BY <1>1, <1>2, <1>3 DEF FreshInv, HandleInv, Fresh, InHand
<1>7. StaleOnlyIfKnown'
  BY <1>1, <1>2, <1>3, FileFresh DEF StaleOnlyIfKnown, InSync, Fresh, Behind
<1> QED BY <1>4, <1>5, <1>6, <1>7 DEF FreshInv

\* An entry with both hashes of a source is the entry of that source.
LEMMA EntryIs ==
  ASSUME NEW x \in Entry, NEW c \in Content, x.hash = c, x.emb = c.body PROVE x = Indexed(c)
  BY DEF Entry, Indexed

\* The documents of an event in hand.
LEMMA EventNames ==
  ASSUME FreshInv, task = "event"
  PROVE  /\ event.kind = "schema" => InHand = {}
         /\ event.kind = "change" => InHand = {event.file}
         /\ event.kind = "rename" =>
              /\ InHand = {event.file, event.from} /\ {event.file, event.from} \subseteq Files
              /\ event.file # event.from
         /\ EventFiles(event) = InHand /\ event.kind \in {"schema", "change", "rename"}
  BY NoneAssumption DEF FreshInv, EventInv, WellFormed, InHand, EventFiles

\* A step of an event keeps everything if it touches the handle at the documents
\* of the event only, and what it counts as taken is as up to date as it should.
LEMMA EventFresh ==
  ASSUME FreshInv, task = "event", UNCHANGED <<src, events, watching, disk, task, event, unsynced>>,
         phase' \in {"renamed", "embed", "save", "save_meta", "finish"},
         phase' = "renamed" => event.kind = "rename" /\ taken' = {},
         taken' \subseteq InHand,
         \A g \in Files \ InHand : mem'[g] = disk[g],
         event.kind = "rename" /\ phase' \in {"renamed", "embed"} => mem'[event.from] = None,
         phase' = "embed" => \A g \in taken' : g = event.from \/ parsed'[g] = src[g],
         phase' \in {"save", "save_meta"} => \A g \in taken' : Fresh(mem, g)' \/ g \in Queued,
         phase' = "finish" => \A g \in taken' : Fresh(disk, g) \/ g \in Queued
  PROVE  FreshInv'
<1>1. EventInv'
  BY DEF FreshInv, EventInv, Queued
<1>2. TakenInv'
  BY EventNames DEF TakenInv, Fresh, Queued
<1>3. Behind' = Behind /\ InHand' = InHand
  BY DEF Behind, InHand, Queued
<1>4. ASSUME NEW f \in Files PROVE Fresh(mem, f)' \/ f \in Behind
  <2>1. CASE f \in InHand
    BY <2>1 DEF Behind
  <2>2. CASE f \notin InHand
    BY <2>2, FileFresh DEF Fresh
  <2> QED BY <2>1, <2>2
<1>5. HandleInv'
  BY <1>3, <1>4 DEF HandleInv
<1>6. StaleOnlyIfKnown'
  BY <1>3, FileFresh DEF StaleOnlyIfKnown, InSync, Behind, Fresh
<1> QED BY <1>1, <1>2, <1>5, <1>6 DEF FreshInv

\* Every step keeps what is fresh fresh, or records that it is behind: one case
\* per action.
LEMMA FreshStep == SplitInv /\ FreshInv /\ [Next]_vars => FreshInv'
<1> SUFFICES ASSUME SplitInv, FreshInv, [Next]_vars PROVE FreshInv'
  OBVIOUS
<1> USE DEF SplitInv
<1>0. CASE UNCHANGED vars
  BY <1>0 DEF FreshInv, EventInv, TakenInv, HandleInv, StaleOnlyIfKnown, Behind, Queued, InHand, Fresh, InSync, vars, stores, memory, process, work
<1>1. CASE Open
  BY <1>1 DEF Open, FlowInv, FreshInv, EventInv, TakenInv, HandleInv, StaleOnlyIfKnown, Queued, InHand, InSync, work
<1>2. CASE OpenIndex
  <2>1. CASE marker
    BY <1>2, <2>1 DEF OpenIndex, Goto, FlowInv, FreshInv, EventInv, TakenInv, HandleInv, StaleOnlyIfKnown, Queued, InHand, InSync, stores, process, work
  <2>2. CASE ~marker
    <3>1. Done(unsynced) /\ InHand = {}
      BY <1>2, <2>2 DEF OpenIndex, FlowInv, InHand
    <3>2. \A f \in Files : Fresh(disk, f)' \/ f \in unsynced \cup Queued
      BY <1>2, <3>1, FileFresh DEF OpenIndex, Fresh, Behind, stores
    <3> QED BY <1>2, <3>1, <3>2, DoneFresh DEF OpenIndex, process
  <2> QED BY <2>1, <2>2
<1>3. CASE RebuildHook
  BY <1>3 DEF RebuildHook, Goto, FreshInv, EventInv, TakenInv, HandleInv, StaleOnlyIfKnown, Queued, InHand, InSync, memory, process, work
<1>4. CASE Rebuild
  BY <1>4 DEF Rebuild, Empty, FlowInv, FreshInv, EventInv, TakenInv, HandleInv, StaleOnlyIfKnown, InSync, work
<1>5. CASE StartEvent
  <2>1. /\ UNCHANGED <<src, disk, watching, unsynced, parsed, taken>> /\ mem' = disk
        /\ task = "none" /\ task' = "event" /\ phase' \in {"recover", "ready"}
        /\ events # <<>> /\ event' = Head(events) /\ events' = Tail(events)
    BY <1>5 DEF StartEvent, Start, AfterLock, stores, process
  <2>2. Queued = Queued' \cup EventFiles(Head(events))
    BY <2>1, QueueShrinks
  <2>3. EventInv'
    BY <2>1, QueueOrder DEF FreshInv, EventInv
  <2>4. TakenInv' /\ HandleInv'
    BY <2>1 DEF FreshInv, TakenInv, HandleInv
  <2>5. StaleOnlyIfKnown'
    BY <2>1, <2>2 DEF FreshInv, StaleOnlyIfKnown, InSync, InHand
  <2> QED BY <2>3, <2>4, <2>5 DEF FreshInv
<1>6. CASE RefuseEvent
  <2>1. /\ UNCHANGED <<src, disk, mem, watching, task, phase, event, parsed, taken>>
        /\ task # "event" /\ events # <<>> /\ events' = Tail(events)
        /\ unsynced' = unsynced \cup EventFiles(Head(events))
    BY <1>6 DEF RefuseEvent, DropEvent, stores, memory, process, work
  <2>2. Queued = Queued' \cup EventFiles(Head(events))
    BY <2>1, QueueShrinks
  <2>3. Behind' = Behind
    BY <2>1, <2>2 DEF Behind, InHand
  <2>4. EventInv'
    BY <2>1, QueueOrder DEF FreshInv, EventInv
  <2>5. TakenInv' /\ HandleInv'
    BY <2>1, <2>3 DEF FreshInv, TakenInv, HandleInv, Fresh
  <2>6. StaleOnlyIfKnown'
    BY <2>1, <2>3, FileFresh DEF StaleOnlyIfKnown, InSync, Behind, Fresh
  <2> QED BY <2>4, <2>5, <2>6 DEF FreshInv
<1>7. CASE Recover
  BY <1>7 DEF Recover, Goto, FreshInv, EventInv, TakenInv, HandleInv, StaleOnlyIfKnown, Queued, InHand, InSync, process, work
<1>8. CASE Retire
  <2>1. CASE task \in {"event", "ingest"}
    BY <1>8, <2>1 DEF Retire, Goto, FreshInv, EventInv, TakenInv, HandleInv, StaleOnlyIfKnown, Queued, InHand, InSync, memory, process, work
  <2>2. CASE task \notin {"event", "ingest"}
    <3>1. Done(unsynced) /\ InHand = {}
      BY <1>8, <2>2 DEF Retire, InHand
    <3>2. \A f \in Files : Fresh(disk, f)' \/ f \in unsynced \cup Queued
      BY <1>8, <3>1, FileFresh DEF Retire, Fresh, Behind
    <3> QED BY <1>8, <3>1, <3>2, DoneFresh DEF Retire, process
  <2> QED BY <2>1, <2>2
<1>9. CASE Save
  <2>1. \A f \in Files : Fresh(disk, f)' \/ f \in Behind
    BY <1>9 DEF Save, FreshInv, HandleInv, Fresh
  <2>2. UNCHANGED <<src, events, watching, mem>> /\ disk' = mem
    BY <1>9 DEF Save, process
  <2>3. CASE task = "modules" /\ ~marker
    BY <1>9, <2>1, <2>2, <2>3, DoneFresh DEF Save, Behind, InHand
  <2>4. CASE task # "modules" \/ marker
    <3>1. UNCHANGED <<task, event, unsynced, taken, parsed>> /\ phase' \in {"recover", "commit", "finish"}
      BY <1>9, <2>4 DEF Save, Goto, work
    <3>2. EventInv'
      BY <2>2, <3>1 DEF FreshInv, EventInv, Queued
    <3>3. TakenInv'
      BY <1>9, <2>2, <2>4, <3>1 DEF Save, Goto, FreshInv, TakenInv, Fresh, Queued
    <3>4. HandleInv'
      BY <2>2, <3>1 DEF HandleInv
    <3>5. StaleOnlyIfKnown'
      BY <2>1, <2>2, <3>1 DEF StaleOnlyIfKnown, InSync, Fresh, Behind, InHand, Queued
    <3> QED BY <3>2, <3>3, <3>4, <3>5 DEF FreshInv
  <2> QED BY <2>3, <2>4
<1>10. CASE Commit
  BY <1>10 DEF Commit, Goto, FreshInv, EventInv, TakenInv, HandleInv, StaleOnlyIfKnown, Queued, InHand, Fresh, InSync, memory, process, work
<1>11. CASE Finish
  <2>1. Done((unsynced \cup InHand) \ taken) /\ UNCHANGED <<src, events, watching, disk>>
    BY <1>11 DEF Finish
  <2>2. ASSUME NEW f \in Files PROVE Fresh(disk, f)' \/ f \in ((unsynced \cup InHand) \ taken) \cup Queued
    <3>1. Fresh(disk, f)' = Fresh(disk, f)
      BY <2>1 DEF Fresh
    <3>2. CASE f \in taken
      BY <1>11, <3>1, <3>2 DEF Finish, FreshInv, TakenInv
    <3> QED BY <3>1, <3>2, FileFresh DEF Behind
  <2> QED BY <2>1, <2>2, DoneFresh
<1>12. CASE EventRename
  <2>1. task = "event" /\ event.kind = "rename" /\ taken = {} /\ mem = disk
    BY <1>12 DEF EventRename, FreshInv, TakenInv, PhaseInv
  <2>2. /\ UNCHANGED <<src, events, watching, disk, task, event, unsynced, taken>> /\ phase' = "renamed"
        /\ mem' = [g \in Files |-> IF g = event.from THEN None ELSE mem[g]]
    BY <1>12 DEF EventRename, Without, Goto, process, work
  <2>3. event.from \in InHand \cap Files
    BY <2>1, EventNames
  <2> QED BY <2>1, <2>2, <2>3, EventFresh
<1>13. CASE EventSchema
  BY <1>13 DEF EventSchema, Reconciles, FreshInv, EventInv, TakenInv, HandleInv, StaleOnlyIfKnown, Behind, Queued, InHand, Fresh, InSync, process, work
<1>14. CASE IngestMissing
  <2>1. Done(unsynced) /\ UNCHANGED <<src, events, watching, disk>>
    BY <1>14 DEF IngestMissing, stores, process
  <2>2. \A h \in Files : Fresh(disk, h)' \/ h \in unsynced \cup Queued
    BY <1>14, <2>1, FileFresh DEF IngestMissing, Fresh, Behind, InHand
  <2> QED BY <2>1, <2>2, DoneFresh
<1>15. CASE IngestApply
  <2>1. /\ UNCHANGED <<src, events, watching, disk, task, event, taken, parsed>>
        /\ phase' = "save" /\ task = "ingest" /\ phase = "embed" /\ mem = disk /\ mem \in Index
        /\ foreign => full
    BY <1>15 DEF IngestApply, PhaseInv, FlowInv, TypeOK, process, work
  <2>2. unsynced' = unsynced \cup {f \in Files \ Reembedded : foreign /\ mem[f] # None}
    BY <1>15 DEF IngestApply
  <2>3. /\ mem' = [f \in Files |-> IF f \in Vanished THEN None ELSE Upserted(Reembedded)[f]]
        /\ Behind \subseteq Behind'
    BY <1>15, <2>1, <2>2 DEF IngestApply, Behind, InHand, Queued
  <2>4. ASSUME NEW f \in taken PROVE Fresh(mem, f)'
    <3>1. f \in Files /\ parsed[f] = src[f] /\ parsed[f] # Unread /\ src[f] \in Content \cup {None}
      BY <2>1, <2>4 DEF FreshInv, TakenInv, TypeOK
    <3>2. CASE src[f] = None
      BY <2>1, <2>3, <3>1, <3>2 DEF Fresh, Vanished, Upserted, Reembedded, Refreshed, Read
    <3>3. CASE src[f] # None
      <4>1. f \in Read /\ f \notin Vanished /\ parsed[f] \in Content
        BY <3>1, <3>3 DEF Read, Vanished
      <4>2. CASE f \in Reembedded
        BY <2>1, <2>3, <3>1, <3>3, <4>1, <4>2 DEF Fresh, Upserted
      <4>3. CASE f \notin Reembedded
        <5>1. ~full /\ ~foreign /\ mem[f] \in Entry /\ mem[f] # None
          BY <2>1, <3>1, <4>1, <4>3 DEF Reembedded, Unchanged, MetaOnly, Index
        <5>2. CASE MetaOnly(mem[f], parsed[f])
          <6>1. mem'[f] = [mem[f] EXCEPT !.hash = parsed[f]]
            BY <2>3, <3>1, <4>1, <4>3, <5>1, <5>2 DEF Upserted, Refreshed
          <6>2. mem'[f] = Indexed(parsed[f])
            BY <4>1, <5>1, <5>2, <6>1 DEF MetaOnly, Entry, Indexed
          <6> QED BY <2>1, <3>1, <3>3, <6>2 DEF Fresh
        <5>3. CASE Unchanged(mem[f], parsed[f])
          <6>1. mem'[f] = mem[f]
            BY <2>3, <3>1, <4>1, <4>3, <5>1, <5>3 DEF Upserted, Refreshed, Unchanged, MetaOnly
          <6>2. mem[f] = Indexed(parsed[f])
            BY <4>1, <5>1, <5>3, EntryIs DEF Unchanged
          <6> QED BY <2>1, <3>1, <3>3, <6>1, <6>2 DEF Fresh
        <5> QED BY <4>1, <4>3, <5>2, <5>3 DEF Reembedded
      <4> QED BY <4>2, <4>3
    <3> QED BY <3>2, <3>3
  <2>5. ASSUME NEW f \in Files, f \notin taken, f \notin Behind' PROVE Fresh(mem, f)'
    <3>1. f \notin Behind /\ parsed[f] = Unread
      BY <2>1, <2>3, <2>5 DEF FreshInv, TakenInv
    <3>2. f \notin Reembedded \cup Refreshed \cup Vanished
      BY <3>1, UnreadAssumption DEF Reembedded, Refreshed, Vanished, Read
    <3>3. foreign => mem[f] = None
      BY <2>2, <2>5, <3>2 DEF Behind
    <3>4. mem'[f] = disk[f]
      BY <2>1, <2>3, <3>2, <3>3 DEF Upserted
    <3> QED BY <2>1, <3>1, <3>4, FileFresh DEF Fresh
  <2>6. EventInv'
    BY <2>1 DEF FreshInv, EventInv, Queued
  <2>7. TakenInv' /\ HandleInv'
    BY <2>1, <2>4, <2>5 DEF TakenInv, HandleInv
  <2>8. StaleOnlyIfKnown'
    BY <2>1, <2>3, FileFresh DEF StaleOnlyIfKnown, InSync, Behind, Fresh
  <2> QED BY <2>6, <2>7, <2>8 DEF FreshInv
<1>16. CASE Fail
  <2>1. Done(unsynced \cup InHand) /\ UNCHANGED <<src, events, watching, disk>>
    BY <1>16 DEF Fail, stores, process
  <2>2. \A h \in Files : Fresh(disk, h)' \/ h \in (unsynced \cup InHand) \cup Queued
    BY <1>16, <2>1, FileFresh DEF Fail, Fresh, Behind, InHand
  <2> QED BY <2>1, <2>2, DoneFresh
<1>17. CASE LockTimeout
  <2>1. /\ UNCHANGED <<src, disk, mem, watching, task, phase, event, parsed, taken>>
        /\ task # "event" /\ events # <<>> /\ events' = Tail(events)
        /\ unsynced' = unsynced \cup EventFiles(Head(events))
    BY <1>17 DEF LockTimeout, DropEvent, stores, memory, process, work
  <2>2. Queued = Queued' \cup EventFiles(Head(events))
    BY <2>1, QueueShrinks
  <2>3. Behind' = Behind
    BY <2>1, <2>2 DEF Behind, InHand
  <2>4. EventInv'
    BY <2>1, QueueOrder DEF FreshInv, EventInv
  <2>5. TakenInv' /\ HandleInv'
    BY <2>1, <2>3 DEF FreshInv, TakenInv, HandleInv, Fresh
  <2>6. StaleOnlyIfKnown'
    BY <2>1, <2>3, FileFresh DEF StaleOnlyIfKnown, InSync, Behind, Fresh
  <2> QED BY <2>4, <2>5, <2>6 DEF FreshInv
<1>18. CASE Crash
  <2>1. /\ UNCHANGED <<src, disk>> /\ events' = <<>> /\ task' = "none" /\ phase' = "none"
        /\ event' = NoEvent /\ taken' = {} /\ unsynced' = Behind
    BY <1>18 DEF Crash, Done, Behind, stores
  <2>2. EventInv' /\ TakenInv' /\ HandleInv'
    BY <2>1 DEF EventInv, TakenInv, HandleInv, NoEvent, WellFormed
  <2>3. StaleOnlyIfKnown'
    BY <2>1, FileFresh DEF StaleOnlyIfKnown, InSync, Fresh
  <2> QED BY <2>2, <2>3 DEF FreshInv
<1>19. CASE ChangeSpace
  BY <1>19 DEF ChangeSpace, FreshInv, EventInv, TakenInv, HandleInv, StaleOnlyIfKnown, Behind, Queued, InHand, Fresh, InSync, memory, process, work
<1>20. CASE EditSchema
  <2>1. NoEvent \in Events /\ WellFormed(NoEvent) /\ NoEvent.kind # "rename" /\ Notice(NoEvent) /\ src' = src
    BY <1>20 DEF EditSchema, NoEvent, Events, WellFormed
  <2> QED BY <2>1, NoticeFresh
<1>21. CASE StartWatch
  BY <1>21 DEF StartWatch, FreshInv, EventInv, TakenInv, HandleInv, StaleOnlyIfKnown, Behind, Queued, InHand, Fresh, InSync, stores, memory, work
<1>22. CASE StartModules
  BY <1>22 DEF StartModules, Start, FreshInv, EventInv, TakenInv, HandleInv, StaleOnlyIfKnown, Queued, InHand, InSync, stores, process, work
<1>23. ASSUME NEW s \in {"index", "fts"}, LoseStore(s) PROVE FreshInv'
  BY <1>23 DEF LoseStore, FreshInv, EventInv, TakenInv, HandleInv, StaleOnlyIfKnown, Behind, Queued, InHand, Fresh, InSync, memory, process, work
<1>24. ASSUME NEW f \in Files, EventUpsertFails(f) PROVE FreshInv'
  <2>1. Done(unsynced \cup InHand) /\ UNCHANGED <<src, events, watching, disk>>
    BY <1>24 DEF EventUpsertFails, stores, process
  <2>2. \A h \in Files : Fresh(disk, h)' \/ h \in (unsynced \cup InHand) \cup Queued
    BY <1>24, <2>1, FileFresh DEF EventUpsertFails, Fresh, Behind, InHand
  <2> QED BY <2>1, <2>2, DoneFresh
<1>25. ASSUME NEW bad \in SUBSET Files, IngestParse(bad) PROVE FreshInv'
  BY <1>25 DEF IngestParse, FreshInv, EventInv, TakenInv, HandleInv, StaleOnlyIfKnown, Queued, InHand, InSync, stores, process
<1>26. ASSUME NEW bad \in SUBSET Files, ModulesRefresh(bad) PROVE FreshInv'
  <2>1. /\ UNCHANGED <<src, events, watching, disk, task, event, unsynced, taken, parsed>>
        /\ phase' = "save" /\ task = "modules" /\ taken = {} /\ mem = disk
    BY <1>26 DEF ModulesRefresh, Goto, FreshInv, TakenInv, PhaseInv, process, work
  <2>2. ASSUME NEW f \in Files PROVE Fresh(mem, f)' \/ f \in Behind
    <3>1. CASE f \in Behind
      BY <3>1
    <3>2. CASE Fresh(disk, f)
      <4>1. CASE src[f] = None
        BY <1>26, <2>1, <3>2, <4>1 DEF ModulesRefresh, Fresh
      <4>2. CASE src[f] # None
        <5>1. src[f] \in Content /\ mem[f] = Indexed(src[f])
          BY <2>1, <3>2, <4>2 DEF Fresh, TypeOK
        <5>2. mem[f] # None /\ mem[f] \in Entry /\ [mem[f] EXCEPT !.hash = src[f]] = mem[f]
          BY <5>1, IndexedType, NoneAssumption DEF Indexed
        <5>3. mem'[f] = mem[f]
          BY <1>26, <4>2, <5>2 DEF ModulesRefresh
        <5> QED BY <2>1, <4>2, <5>1, <5>3 DEF Fresh
      <4> QED BY <4>1, <4>2
    <3> QED BY <3>1, <3>2, FileFresh
  <2>3. Behind' = Behind
    BY <2>1 DEF Behind, InHand, Queued
  <2>4. EventInv'
    BY <2>1 DEF FreshInv, EventInv, Queued
  <2>5. TakenInv' /\ HandleInv'
    BY <2>1, <2>2, <2>3 DEF TakenInv, HandleInv
  <2>6. StaleOnlyIfKnown'
    BY <2>1, <2>3, FileFresh DEF StaleOnlyIfKnown, InSync, Behind, Fresh
  <2> QED BY <2>4, <2>5, <2>6 DEF FreshInv
<1>27. ASSUME NEW done \in SUBSET Files, NEW g \in Files, IngestApplyFails(done, g) PROVE FreshInv'
  <2>1. Done(unsynced) /\ UNCHANGED <<src, events, watching, disk>>
    BY <1>27 DEF IngestApplyFails, stores, process
  <2>2. \A h \in Files : Fresh(disk, h)' \/ h \in unsynced \cup Queued
    BY <1>27, <2>1, FileFresh DEF IngestApplyFails, Fresh, Behind, InHand
  <2> QED BY <2>1, <2>2, DoneFresh
<1>28. ASSUME NEW f \in Files, NEW c \in Content \cup {None}, Edit(f, c) PROVE FreshInv'
  <2> DEFINE e == [kind |-> "change", file |-> f, from |-> None]
  <2>1. e \in Events /\ WellFormed(e) /\ e.kind # "rename" /\ Notice(e)
    BY <1>28 DEF Edit, Events, WellFormed
  <2>2. EventFiles(e) = {f}
    BY NoneAssumption DEF EventFiles
  <2>3. \A h \in Files \ EventFiles(e) : src'[h] = src[h]
    BY <1>28, <2>2 DEF Edit, TypeOK
  <2> QED BY <2>1, <2>3, NoticeFresh
<1>29. ASSUME NEW f \in Files, NEW g \in Files, Rename(f, g) PROVE FreshInv'
  <2> DEFINE e == [kind |-> "rename", file |-> g, from |-> f]
  <2>1. e \in Events /\ WellFormed(e) /\ e.from = f /\ Notice(e)
    BY <1>29 DEF Rename, Events, WellFormed
  <2>2. EventFiles(e) = {f, g}
    BY NoneAssumption DEF EventFiles
  <2>3. (\A h \in Files \ EventFiles(e) : src'[h] = src[h]) /\ src'[f] = None
    BY <1>29, <2>2 DEF Rename, TypeOK
  <2> QED BY <2>1, <2>3, NoticeFresh
<1>30. ASSUME NEW f \in Files \cup {None}, NEW w \in BOOLEAN, StartIngest(f, w) PROVE FreshInv'
  BY <1>30 DEF StartIngest, Start, AfterLock, SplitInv, FlowInv, PhaseInv, FreshInv, EventInv, TakenInv, HandleInv, StaleOnlyIfKnown, Behind, Queued, InHand, Fresh, InSync, vars, stores, memory, process, work, counters
<1>31. ASSUME NEW f \in Files, EventGone(f) PROVE FreshInv'
  <2>1. task = "event" /\ f = event.file /\ taken = {} /\ event.kind \in {"change", "rename"}
    BY <1>31 DEF EventGone, AtFile, FreshInv, TakenInv, EventInv
  <2>2. /\ UNCHANGED <<src, events, watching, disk, task, event, unsynced>> /\ phase' = "save"
        /\ mem' = [g \in Files |-> IF g = f THEN None ELSE mem[g]] /\ taken' = InHand /\ f \in InHand
    BY <1>31, <2>1, EventNames DEF EventGone, Without, Reconciles, process, work
  <2>3. \A g \in Files \ InHand : mem'[g] = disk[g]
    BY <2>1, <2>2 DEF FreshInv, HandleInv
  <2>4. ASSUME NEW g \in taken' PROVE Fresh(mem, g)' \/ g \in Queued
    <3>1. CASE g = f
      BY <1>31, <2>2, <3>1 DEF EventGone, Fresh
    <3>2. CASE g # f
      <4>1. event.kind = "rename" /\ g = event.from /\ g \in Files
        BY <2>1, <2>2, <2>4, <3>2, EventNames
      <4>2. mem[g] = None
        BY <1>31, <2>1, <4>1 DEF EventGone, AtFile, FreshInv, HandleInv
      <4>3. src[g] = None \/ g \in Queued
        BY <2>1, <4>1 DEF FreshInv, EventInv
      <4> QED BY <2>2, <4>1, <4>2, <4>3 DEF Fresh
    <3> QED BY <3>1, <3>2
  <2> QED BY <2>1, <2>2, <2>3, <2>4, EventFresh
<1>32. ASSUME NEW f \in Files, EventUnchanged(f) PROVE FreshInv'
  <2>1. /\ task = "event" /\ f = event.file /\ taken = {} /\ event.kind \in {"change", "rename"}
        /\ phase \in {"ready", "renamed"}
    BY <1>32 DEF EventUnchanged, AtFile, FreshInv, TakenInv, EventInv
  <2>2. /\ UNCHANGED <<src, events, watching, disk, task, event, unsynced, mem>> /\ phase' = "finish"
        /\ taken' = {f} /\ f \in InHand
    BY <1>32, <2>1, EventNames DEF EventUnchanged, Reconciles, process, work
  <2>3. mem[f] \in Entry /\ src[f] \in Content /\ mem[f] = Indexed(src[f])
    <3>1. mem[f] \in Entry /\ src[f] \in Content
      BY <1>32 DEF EventUnchanged, Unchanged, TypeOK, Index
    <3> QED BY <1>32, <3>1, EntryIs DEF EventUnchanged, Unchanged
  <2>4. mem[f] = disk[f]
    <3>1. CASE phase = "ready"
      BY <3>1 DEF PhaseInv
    <3>2. CASE phase = "renamed"
      <4>1. f # event.from
        BY <2>1, <3>2, EventNames DEF FreshInv, EventInv
      <4> QED BY <3>2, <4>1 DEF PhaseInv
    <3> QED BY <2>1, <3>1, <3>2
  <2>5. Fresh(disk, f)
    BY <1>32, <2>3, <2>4 DEF EventUnchanged, Fresh
  <2>6. \A g \in Files \ InHand : mem'[g] = disk[g]
    BY <2>1, <2>2 DEF FreshInv, HandleInv
  <2> QED BY <2>1, <2>2, <2>5, <2>6, EventFresh
<1>33. ASSUME NEW f \in Files, EventRefresh(f) PROVE FreshInv'
  <2>1. task = "event" /\ f = event.file /\ taken = {} /\ event.kind \in {"change", "rename"}
    BY <1>33 DEF EventRefresh, AtFile, FreshInv, TakenInv, EventInv
  <2>2. /\ UNCHANGED <<src, events, watching, disk, task, event, unsynced>> /\ phase' = "save_meta"
        /\ mem' = [mem EXCEPT ![f].hash = src[f]] /\ taken' = InHand /\ f \in InHand
    BY <1>33, <2>1, EventNames DEF EventRefresh, Reconciles, process, work
  <2>3. mem \in Index /\ mem[f] \in Entry /\ src[f] \in Content /\ mem[f].emb = src[f].body
    BY <1>33 DEF EventRefresh, MetaOnly, TypeOK, Index
  <2>4. mem'[f] = Indexed(src[f]) /\ \A g \in Files \ {f} : mem'[g] = mem[g]
    BY <2>2, <2>3 DEF Index, Entry, Indexed
  <2>5. \A g \in Files \ InHand : mem'[g] = disk[g]
    BY <2>1, <2>2, <2>4 DEF FreshInv, HandleInv
  <2>6. ASSUME NEW g \in taken' PROVE Fresh(mem, g)' \/ g \in Queued
    <3>1. CASE g = f
      BY <1>33, <2>2, <2>4, <3>1 DEF EventRefresh, Fresh
    <3>2. CASE g # f
      <4>1. event.kind = "rename" /\ g = event.from /\ g \in Files
        BY <2>1, <2>2, <2>6, <3>2, EventNames
      <4>2. mem[g] = None
        BY <1>33, <2>1, <4>1 DEF EventRefresh, AtFile, FreshInv, HandleInv
      <4>3. src[g] = None \/ g \in Queued
        BY <2>1, <4>1 DEF FreshInv, EventInv
      <4> QED BY <2>2, <2>4, <3>2, <4>1, <4>2, <4>3 DEF Fresh
    <3> QED BY <3>1, <3>2
  <2> QED BY <2>1, <2>2, <2>5, <2>6, EventFresh
<1>34. ASSUME NEW f \in Files, EventRead(f) PROVE FreshInv'
  <2>1. task = "event" /\ f = event.file /\ event.kind \in {"change", "rename"}
    BY <1>34 DEF EventRead, AtFile, FreshInv, EventInv
  <2>2. /\ UNCHANGED <<src, events, watching, disk, task, event, unsynced, mem>> /\ phase' = "embed"
        /\ parsed' = [parsed EXCEPT ![f] = src[f]] /\ taken' = InHand
    BY <1>34, <2>1, EventNames DEF EventRead, stores, memory, process
  <2>3. \A g \in Files \ InHand : mem'[g] = disk[g]
    BY <2>1, <2>2 DEF FreshInv, HandleInv
  <2>4. event.kind = "rename" => mem'[event.from] = None
    BY <1>34, <2>1, <2>2 DEF EventRead, AtFile, FreshInv, HandleInv
  <2>5. \A g \in taken' : g = event.from \/ parsed'[g] = src[g]
    BY <2>1, <2>2, EventNames DEF TypeOK
  <2> QED BY <2>1, <2>2, <2>3, <2>4, <2>5, EventFresh
<1>35. ASSUME NEW f \in Files, EventUpsert(f) PROVE FreshInv'
  <2>1. task = "event" /\ phase = "embed" /\ f = event.file /\ f \in InHand
    BY <1>35, NoneAssumption DEF EventUpsert, InHand, EventFiles
  <2>2. /\ UNCHANGED <<src, events, watching, disk, task, event, unsynced, taken>> /\ phase' = "save"
        /\ mem' = [mem EXCEPT ![f] = Indexed(parsed[f])]
    BY <1>35, <2>1 DEF EventUpsert, Reconciles, process, work
  <2>3. mem \in Index /\ parsed[f] \in Content
    BY <2>1 DEF ReadOK, TypeOK
  <2>4. mem'[f] = Indexed(parsed[f]) /\ \A g \in Files \ {f} : mem'[g] = mem[g]
    BY <2>2, <2>3 DEF Index
  <2>5. \A g \in Files \ InHand : mem'[g] = disk[g]
    BY <2>1, <2>2, <2>4 DEF FreshInv, HandleInv
  <2>6. taken \subseteq InHand
    BY <2>1, EventNames DEF FreshInv, TakenInv
  <2>7. ASSUME NEW g \in taken' PROVE Fresh(mem, g)' \/ g \in Queued
    <3>1. CASE g = event.from
      <4>1. event.kind = "rename" /\ g \in Files /\ g # f
        BY <2>1, <2>2, <2>6, <2>7, <3>1, EventNames, NoneAssumption DEF FreshInv, EventInv, WellFormed
      <4>2. mem[g] = None
        BY <2>1, <3>1, <4>1 DEF FreshInv, HandleInv
      <4>3. src[g] = None \/ g \in Queued
        BY <2>1, <3>1, <4>1 DEF FreshInv, EventInv
      <4> QED BY <2>2, <2>4, <4>1, <4>2, <4>3 DEF Fresh
    <3>2. CASE g # event.from
      <4>1. g = f
        BY <2>1, <2>2, <2>6, <2>7, <3>2, EventNames
      <4>2. parsed[f] = src[f]
        BY <2>1, <2>2, <2>7, <3>2, <4>1 DEF FreshInv, TakenInv
      <4> QED BY <2>2, <2>3, <2>4, <4>1, <4>2, NoneAssumption DEF Fresh
    <3> QED BY <3>1, <3>2
  <2> QED BY <2>1, <2>2, <2>5, <2>6, <2>7, EventFresh
<1>36. CASE IngestCancel
  <2>1. Done(unsynced) /\ UNCHANGED <<src, events, watching, disk>>
    BY <1>36 DEF IngestCancel, PhaseInv, FlowInv, stores, process
  <2>2. \A h \in Files : Fresh(disk, h)' \/ h \in unsynced \cup Queued
    BY <1>36, <2>1, FileFresh DEF IngestCancel, Fresh, Behind, InHand
  <2> QED BY <2>1, <2>2, DoneFresh
<1> QED
  BY <1>0, <1>1, <1>2, <1>3, <1>4, <1>5, <1>6, <1>7, <1>8, <1>9, <1>10, <1>11, <1>12, <1>13, <1>14, <1>15, <1>16, <1>17, <1>18, <1>19, <1>20, <1>21, <1>22, <1>23, <1>24, <1>25, <1>26, <1>27, <1>28, <1>29, <1>30, <1>31, <1>32, <1>33, <1>34, <1>35, <1>36 DEF Next, Progress, Failures, Users

\* An empty project, all of whose sources are behind.
LEMMA FreshInit == Init => FreshInv
<1> SUFFICES ASSUME Init PROVE FreshInv
  OBVIOUS
<1>1. EventInv /\ TakenInv /\ HandleInv
  BY DEF Init, EventInv, TakenInv, HandleInv, NoEvent, WellFormed
<1>2. StaleOnlyIfKnown
  BY DEF Init, StaleOnlyIfKnown, InSync, Empty
<1> QED BY <1>1, <1>2 DEF FreshInv

\* No change of a source is forgotten, however events, ingests, module runs,
\* failures and crashes follow one another: a document whose entry is not up to
\* date has an event queued or in hand, or is known to be behind.
THEOREM StaleIsKnown == Spec => []StaleOnlyIfKnown
<1>1. FreshInv => StaleOnlyIfKnown
  BY DEF FreshInv
<1> QED BY <1>1, FreshInit, FreshStep, SplitAlways, PTL DEF Spec
=============================================================================
