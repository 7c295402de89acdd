--------------------------- MODULE WritebackProofs ---------------------------
(***************************************************************************)
(* Proofs about Writeback for any documents, texts, definitions, overlays  *)
(* and bounds.                                                             *)
(***************************************************************************)
EXTENDS Writeback, TLAPS

Loops == {"apply", "suppress", "restore", "unstable"}
Writing == {"guard", "compare", "rename", "reread"}
Files == [src : Source, ino : Nat]

-----------------------------------------------------------------------------
(* Types of the operators *)

\* None stands for nothing that is there.
LEMMA NoneApart ==
  /\ None \notin Source /\ None \notin Computed /\ None \notin Stored /\ None \notin Intent
  /\ None \notin Files /\ None \notin Docs /\ None \notin Vals /\ None \notin Defs
  BY NoneIsNoRecord, WritebackAssumption DEF Files

LEMMA OverlayTypes ==
  /\ Schemas \subseteq [Mods -> Defs \cup {None}] \cup {Broken}
  /\ Eval \in [Defs \X Texts -> Vals \cup {None}] /\ Target \in [Docs -> Docs]
  /\ Attempts \in Nat \ {0} /\ First \subseteq Schemas
  BY WritebackAssumption

\* The source on disk is the one of the file, if there is one.
LEMMA OnType ==
  ASSUME file \in [Docs -> Files \cup {None}], NEW d \in Docs
  PROVE  /\ On(d) \in Source \cup {None}
         /\ On(d) \in Source => file[d] # None /\ file[d] \in Files /\ On(d) = file[d].src
         /\ file[d] # None => On(d) \in Source
  BY NoneApart DEF On, Files

\* Every proof is of a value that w allows.
Proven(en, w) == \A m \in Mods : en[m] # None /\ en[m].proof # None => en[m].proof \in w[m]
Values == [Mods -> SUBSET Vals]

LEMMA ReconcileFacts ==
  ASSUME NEW en \in Entries, NEW src \in Source, NEW w \in Values
  PROVE  /\ Reconcile(en, src) \in Entries
         /\ Proven(en, w) => Proven(Reconcile(en, src), w)
<1>1. ASSUME NEW m \in Mods
      PROVE  /\ Reconcile(en, src)[m] \in Computed \cup {None}
             /\ Reconcile(en, src)[m] \in {en[m], [en[m] EXCEPT !.proof = None]}
             /\ en[m] = None => Reconcile(en, src)[m] = None
  BY NoneApart DEF Reconcile, Entries, Computed
<1>2. Reconcile(en, src) \in Entries
  BY <1>1 DEF Reconcile, Entries
<1>3. ASSUME Proven(en, w) PROVE Proven(Reconcile(en, src), w)
  <2>1. SUFFICES ASSUME NEW m \in Mods, Reconcile(en, src)[m] # None,
                        Reconcile(en, src)[m].proof # None
                 PROVE  Reconcile(en, src)[m].proof \in w[m]
    BY DEF Proven
  <2>2. en[m] # None /\ en[m] \in Computed
    BY <2>1, <1>1 DEF Entries
  <2>3. Reconcile(en, src)[m] = en[m]
    BY <2>1, <2>2, <1>1 DEF Computed
  <2> QED BY <2>1, <2>2, <2>3, <1>3 DEF Proven
<1> QED BY <1>2, <1>3

LEMMA StateFacts ==
  ASSUME NEW en \in Entries, NEW src \in Source, NEW w \in Values
  PROVE  /\ State(src, en) \in Stored /\ State(src, en) # None
         /\ State(src, en).src = src /\ State(src, en).entry \in Entries
         /\ Proven(en, w) => Proven(State(src, en).entry, w)
<1>1. State(src, en) \in Stored
  BY ReconcileFacts DEF State, Stored
<1> QED BY <1>1, ReconcileFacts, NoneApart DEF State

LEMMA RefreshedFacts ==
  ASSUME NEW st \in Stored \cup {None}, NEW src \in Source \cup {None}, NEW w \in Values
  PROVE  /\ Refreshed(st, src) \in Stored \cup {None}
         /\ src # None => Refreshed(st, src) # None
         /\ (st # None => Proven(st.entry, w)) /\ Refreshed(st, src) # None
            => Proven(Refreshed(st, src).entry, w)
<1> DEFINE en == IF st = None THEN NoEntries ELSE st.entry
<1>1. en \in Entries
  BY DEF NoEntries, Entries, Stored
<1>2. (st # None => Proven(st.entry, w)) => Proven(en, w)
  BY DEF NoEntries, Proven
<1>3. CASE src = None
  BY <1>3 DEF Refreshed
<1>4. CASE src # None
  <2>1. src \in Source /\ Refreshed(st, src) = State(src, en)
    BY <1>4 DEF Refreshed
  <2> QED BY <2>1, <1>1, <1>2, <1>4, StateFacts
<1> QED BY <1>3, <1>4

-----------------------------------------------------------------------------
(* The inductive invariant *)

DataOK ==
  /\ file \in [Docs -> Files \cup {None}]
  /\ saved \in Index /\ mem \in Index /\ snap \in Index
  /\ journal \in [Docs -> Intent \cup {None}]
  /\ inodes \in Nat /\ wrote \in [Docs -> Values]

FlowOK ==
  /\ schema \in Schemas /\ phase \in Phases /\ scope \subseteq Docs /\ module \in Mods
  /\ attempt \in 0..Attempts /\ before \in Schemas \cup {Broken} /\ seen \in Schemas \cup {Broken}
  /\ owners \subseteq Docs /\ todo \subseteq Docs
  /\ expect \in [Docs -> Source \cup {None, Free}]
  /\ touched \in [Docs -> SUBSET Mods] /\ again \subseteq Docs
  /\ late \in BOOLEAN /\ steady \in BOOLEAN
  /\ cause \in [Docs -> {"none", "edited", "twice", "superseded", "restored"}]
  /\ edits \in Nat /\ changes \in Nat /\ faults \in Nat /\ runs \in Nat

JobOK == job \in Job \cup {NoJob} /\ (phase \in Writing <=> job # NoJob)

\* Loops visit documents that the handle and the snapshot know.
DomInv ==
  /\ todo \cup owners \subseteq Indexed(mem)
  /\ phase \in {"none", "recover"} => todo = {} /\ owners = {}
  /\ phase \notin {"none", "recover", "attempt", "load"} => Indexed(snap) = Indexed(mem)

\* What a write may do to the index and the document, whether it succeeds or not.
Base(j) ==
  /\ j \in Job /\ mem[j.doc] # None /\ j.new.text = j.old.text
  /\ Proven(j.err, wrote[j.doc])
Fine(j) ==
  \A m \in Mods :
    /\ j.ok[m] # None /\ j.ok[m].proof # None =>
         \/ j.ok[m].proof \in wrote[j.doc][m]
         \/ j.ok[m].proof = j.new.fields[m] /\ j.new.fields[m] # j.old.fields[m]
    /\ j.new.fields[m] = None => j.old.fields[m] \in wrote[j.doc][m] \cup {None}

JobInv ==
  /\ phase \in Writing => Base(job) /\ Fine(job)
  /\ phase \in {"guard", "compare", "rename"} /\ job.new # job.old =>
       /\ journal[job.doc] # None /\ journal[job.doc].entry = job.ok
       /\ journal[job.doc].ino = inodes
  /\ phase = "rename" =>
       /\ job.new # job.old
       /\ ~late => file[job.doc] # None /\ file[job.doc].src = job.old
  /\ phase = "reread" => Proven(job.ok, wrote[job.doc])

\* Every ownership proof, wherever it is kept, is of a value that a module put
\* into the document; an intent's as soon as the document is the intent's file.
IndexProven(ix) == \A d \in Docs : ix[d] # None => Proven(ix[d].entry, wrote[d])
ProofsInv ==
  /\ IndexProven(mem) /\ IndexProven(saved) /\ IndexProven(snap)
  /\ \A d \in Docs :
       /\ file[d] # None => file[d].ino <= inodes
       /\ journal[d] # None =>
            /\ 0 < journal[d].ino /\ journal[d].ino <= inodes
            /\ file[d] # None /\ file[d].ino = journal[d].ino
               => Proven(journal[d].entry, wrote[d])

WritebackInv == DataOK /\ FlowOK /\ JobOK /\ DomInv /\ JobInv /\ ProofsInv

LEMMA TypeHalves == TypeOK <=> DataOK /\ FlowOK /\ JobOK
  BY DEF TypeOK, DataOK, FlowOK, JobOK, Files, Values, Writing

LEMMA InvInit == Init => WritebackInv
<1> SUFFICES ASSUME Init PROVE WritebackInv
  OBVIOUS
<1>1. [d \in Docs |-> None] \in Index
  BY DEF Index
<1>2. DataOK
  <2>1. NoFields \in Fields
    BY DEF NoFields, Fields
  <2>2. file \in [Docs -> Files \cup {None}]
    BY <2>1 DEF Init, Files, Source
  <2>3. wrote \in [Docs -> Values]
    BY DEF Init, Values
  <2>4. journal \in [Docs -> Intent \cup {None}] /\ inodes \in Nat
    BY DEF Init
  <2>5. saved \in Index /\ mem \in Index /\ snap \in Index
    BY <1>1 DEF Init
  <2> QED BY <2>2, <2>3, <2>4, <2>5 DEF DataOK
<1>3. FlowOK
  <2>1. /\ schema \in Schemas /\ attempt \in 0..Attempts
        /\ expect \in [Docs -> Source \cup {None, Free}]
    BY OverlayTypes DEF Init
  <2>2. touched \in [Docs -> SUBSET Mods]
    BY DEF Init
  <2>3. cause \in [Docs -> {"none", "edited", "twice", "superseded", "restored"}]
    BY DEF Init
  <2> QED BY <2>1, <2>2, <2>3 DEF Init, FlowOK, Phases, Mods
<1>4. JobOK
  BY DEF Init, JobOK, Writing
<1>5. DomInv
  BY DEF Init, DomInv, Indexed
<1>6. JobInv
  BY DEF Init, JobInv, Writing
<1>7. ProofsInv
  BY DEF Init, ProofsInv, IndexProven
<1> QED BY <1>2, <1>3, <1>4, <1>5, <1>6, <1>7 DEF WritebackInv

-----------------------------------------------------------------------------
(* Steps that only move the run *)

\* A job is not NoJob: it has a document.
LEMMA JobApart == ASSUME NEW j \in Job PROVE j # NoJob /\ j.doc \in Docs
  BY NoneApart DEF Job, NoJob

LEMMA Quiet ==
  ASSUME WritebackInv, UNCHANGED <<file, saved, journal, mem, job, inodes, wrote, late>>,
         snap' \in {snap, mem}, phase \notin Writing, phase' \notin Writing
  PROVE  DataOK' /\ JobOK' /\ JobInv' /\ ProofsInv'
<1>1. DataOK'
  BY DEF WritebackInv, DataOK
<1>2. JobOK'
  BY DEF WritebackInv, JobOK
<1>3. JobInv'
  BY DEF JobInv, Writing
<1>4. ProofsInv'
  <2>1. CASE snap' = snap
    BY <2>1 DEF WritebackInv, ProofsInv, IndexProven
  <2>2. CASE snap' = mem
    BY <2>2 DEF WritebackInv, ProofsInv, IndexProven
  <2> QED BY <2>1, <2>2
<1> QED BY <1>1, <1>2, <1>3, <1>4

LEMMA AttemptStep == ASSUME WritebackInv, Attempt PROVE WritebackInv'
<1>1. DataOK' /\ JobOK' /\ JobInv' /\ ProofsInv'
  BY Quiet DEF Attempt, Goto, Writing, world, stores
<1>2. FlowOK'
  BY DEF WritebackInv, FlowOK, Attempt, Goto, Phases, Mods, world, counters
<1>3. DomInv'
  BY DEF WritebackInv, DomInv, Attempt, Goto, Indexed
<1> QED BY <1>1, <1>2, <1>3 DEF WritebackInv

LEMMA LoadStep == ASSUME WritebackInv, Load PROVE WritebackInv'
<1>1. DataOK' /\ JobOK' /\ JobInv' /\ ProofsInv'
  BY Quiet DEF Load, Goto, Writing, world, stores, history
<1>2. FlowOK'
  BY DEF WritebackInv, FlowOK, Load, Goto, Phases, world, counters, history
<1>3. DomInv'
  BY DEF WritebackInv, DomInv, Load, Goto, Indexed
<1> QED BY <1>1, <1>2, <1>3 DEF WritebackInv

LEMMA EvaluateStep == ASSUME WritebackInv, Evaluate PROVE WritebackInv'
<1>1. DataOK' /\ JobOK' /\ JobInv' /\ ProofsInv'
  BY Quiet DEF Evaluate, Goto, Writing, world, stores, history
<1>2. Patched \subseteq Indexed(mem) /\ Owners \subseteq Indexed(mem)
  BY DEF Patched, Owners
<1>3. Indexed(mem) \subseteq Docs
  BY DEF Indexed
<1>4. \A t \in Docs : mem[t] # None => mem[t].src \in Source
  BY DEF WritebackInv, DataOK, Index, Stored
<1>5. expect' \in [Docs -> Source \cup {None, Free}]
  BY <1>4 DEF Evaluate
<1>6. FlowOK'
  BY <1>2, <1>3, <1>5 DEF WritebackInv, FlowOK, Evaluate, Goto, Phases, world, counters, history
<1>7. DomInv'
  BY <1>2 DEF WritebackInv, DomInv, Evaluate, Goto, Indexed
<1> QED BY <1>1, <1>6, <1>7 DEF WritebackInv

LEMMA AppliedStep == ASSUME WritebackInv, Applied PROVE WritebackInv'
<1>1. DataOK' /\ JobOK' /\ JobInv' /\ ProofsInv'
  BY Quiet DEF Applied, Goto, Writing, world, stores, history, plan
<1>2. FlowOK'
  BY DEF WritebackInv, FlowOK, Applied, Goto, Phases, world, counters, history, plan
<1>3. DomInv'
  BY DEF WritebackInv, DomInv, Applied, Goto, Indexed, plan
<1> QED BY <1>1, <1>2, <1>3 DEF WritebackInv

LEMMA DependencyChangedStep == ASSUME WritebackInv, DependencyChanged PROVE WritebackInv'
<1>1. DataOK' /\ JobOK' /\ JobInv' /\ ProofsInv'
  BY Quiet DEF DependencyChanged, Goto, Writing, world, stores, history, plan
<1>2. FlowOK'
  BY DEF WritebackInv, FlowOK, DependencyChanged, Goto, Phases, world, counters, history, plan
<1>3. DomInv'
  BY DEF WritebackInv, DomInv, DependencyChanged, Goto, Indexed, plan
<1> QED BY <1>1, <1>2, <1>3 DEF WritebackInv

LEMMA ExecutionFailsStep == ASSUME WritebackInv, ExecutionFails PROVE WritebackInv'
<1>1. DataOK' /\ JobOK' /\ JobInv' /\ ProofsInv'
  BY Quiet DEF ExecutionFails, Goto, Writing, world, stores, plan
<1>2. Indexed(snap) \subseteq Docs /\ Indexed(snap) = Indexed(mem)
  BY DEF Indexed, WritebackInv, DomInv, ExecutionFails
<1>3. FlowOK'
  <2>1. cause' \in [Docs -> {"none", "edited", "twice", "superseded", "restored"}]
    BY DEF ExecutionFails
  <2>2. steady' \in BOOLEAN
    BY DEF ExecutionFails
  <2>3. todo' \subseteq Docs /\ phase' \in Phases /\ faults' \in Nat
    BY <1>2 DEF WritebackInv, FlowOK, ExecutionFails, Faulted, Goto, Phases
  <2> QED BY <2>1, <2>2, <2>3 DEF WritebackInv, FlowOK, ExecutionFails, world, plan
<1>4. DomInv'
  BY <1>2 DEF WritebackInv, DomInv, ExecutionFails, Goto, Indexed, plan
<1> QED BY <1>1, <1>3, <1>4 DEF WritebackInv

LEMMA LeaveStep == ASSUME WritebackInv, Leave PROVE WritebackInv'
<1>1. DataOK' /\ JobOK' /\ JobInv' /\ ProofsInv'
  BY Quiet DEF Leave, Goto, Writing, world, stores, history, plan
<1>2. FlowOK'
  BY DEF WritebackInv, FlowOK, Leave, Goto, Phases, world, counters, history, plan
<1>3. DomInv'
  BY DEF WritebackInv, DomInv, Leave, Goto, Indexed, plan
<1> QED BY <1>1, <1>2, <1>3 DEF WritebackInv

LEMMA CheckStep == ASSUME WritebackInv, Check PROVE WritebackInv'
<1>1. DataOK' /\ JobOK' /\ JobInv' /\ ProofsInv'
  BY Quiet DEF Check, Goto, Writing, world, stores, history
<1>2. Indexed(mem) \subseteq Docs
  BY DEF Indexed
<1>3. FlowOK'
  BY <1>2, OverlayTypes DEF WritebackInv, FlowOK, Check, Goto, Phases, Mods, world, counters, history
<1>4. DomInv'
  BY DEF WritebackInv, DomInv, Check, Goto, Indexed
<1> QED BY <1>1, <1>3, <1>4 DEF WritebackInv

LEMMA SaveStep == ASSUME WritebackInv, Save PROVE WritebackInv'
<1>1. DataOK'
  BY DEF WritebackInv, DataOK, Save, world, plan, history
<1>2. FlowOK'
  BY DEF WritebackInv, FlowOK, Save, Goto, Phases, world, counters, history, plan
<1>3. JobOK' /\ JobInv'
  BY DEF WritebackInv, JobOK, JobInv, Save, Goto, Writing
<1>4. DomInv'
  BY DEF WritebackInv, DomInv, Save, Goto, Indexed, plan
<1>5. ProofsInv'
  BY DEF WritebackInv, ProofsInv, IndexProven, Save, world, plan, history
<1> QED BY <1>1, <1>2, <1>3, <1>4, <1>5 DEF WritebackInv

-----------------------------------------------------------------------------
(* The steps of a write *)

LEMMA PutFacts ==
  ASSUME DataOK, IndexProven(mem), NEW d \in Docs, mem[d] # None,
         NEW src \in Source, NEW en \in Entries, Proven(en, wrote[d]),
         mem' = [mem EXCEPT ![d] = State(src, en)], wrote' = wrote
  PROVE  mem' \in Index /\ Indexed(mem') = Indexed(mem) /\ IndexProven(mem)'
<1>1. /\ State(src, en) \in Stored /\ State(src, en) # None
      /\ Proven(State(src, en).entry, wrote[d])
  BY StateFacts DEF DataOK
<1>2. mem' \in Index
  BY <1>1 DEF DataOK, Index
<1>3. \A x \in Docs : mem'[x] = IF x = d THEN State(src, en) ELSE mem[x]
  BY DEF DataOK, Index
<1>4. Indexed(mem') = Indexed(mem)
  BY <1>1, <1>3 DEF Indexed
<1>5. IndexProven(mem)'
  BY <1>1, <1>3 DEF IndexProven
<1> QED BY <1>2, <1>4, <1>5

\* What the rest of the invariant needs of a job's parts.
LEMMA JobTypes ==
  ASSUME DataOK, NEW j, Base(j)
  PROVE  /\ j.doc \in Docs /\ j # NoJob /\ mem[j.doc].src \in Source /\ j.old \in Source
         /\ j.new \in Source /\ j.ok \in Entries /\ j.err \in Entries /\ j.back \in Loops
         /\ j.new.fields \in [Mods -> Vals \cup {None}]
<1>1. j \in Job
  BY DEF Base
<1>2. j.doc \in Docs /\ j # NoJob
  BY <1>1, JobApart
<1>3. mem[j.doc] \in Stored
  BY <1>2 DEF DataOK, Index, Base
<1> QED BY <1>1, <1>2, <1>3 DEF Job, Stored, Source, Fields, Loops

LEMMA RefuseFacts ==
  ASSUME DataOK, IndexProven(mem), NEW j, Base(j), Refuse(j), wrote' = wrote
  PROVE  /\ mem' \in Index /\ Indexed(mem') = Indexed(mem) /\ IndexProven(mem)'
         /\ phase' = j.back /\ j.back \in Loops /\ job' = NoJob /\ expect' = expect
<1>1. mem' = [mem EXCEPT ![j.doc] = State(mem[j.doc].src, j.err)] /\ mem[j.doc] # None
  BY DEF Refuse, Base
<1> QED BY <1>1, JobTypes, PutFacts DEF Refuse, Goto, Base

\* Steps that change the handle for one document and return to the loop.
LEMMA BackStep ==
  ASSUME WritebackInv, UNCHANGED <<file, saved, snap, wrote>>,
         phase' \in Loops, job' = NoJob,
         mem' \in Index, Indexed(mem') = Indexed(mem), IndexProven(mem)',
         journal' \in [Docs -> Intent \cup {None}], inodes' \in Nat, inodes <= inodes',
         todo' \subseteq todo, owners' = owners,
         phase \notin {"none", "recover", "attempt", "load"},
         \A d \in Docs : journal'[d] # journal[d] /\ journal'[d] # None =>
            journal'[d].ino \in Nat /\ inodes < journal'[d].ino /\ journal'[d].ino <= inodes'
  PROVE  DataOK' /\ JobOK' /\ DomInv' /\ JobInv' /\ ProofsInv'
<1>1. DataOK'
  BY DEF WritebackInv, DataOK
<1>2. JobOK' /\ JobInv'
  BY DEF JobOK, JobInv, Writing, Loops
<1>3. DomInv'
  BY DEF WritebackInv, DomInv, Loops, Indexed
<1>4. ASSUME NEW d \in Docs
      PROVE  /\ file[d] # None => file[d].ino <= inodes'
             /\ journal'[d] # None =>
                  /\ 0 < journal'[d].ino /\ journal'[d].ino <= inodes'
                  /\ file[d] # None /\ file[d].ino = journal'[d].ino
                     => Proven(journal'[d].entry, wrote[d])
  <2>1. file[d] # None => file[d].ino \in Nat /\ file[d].ino <= inodes
    BY DEF WritebackInv, DataOK, ProofsInv, Files
  <2>2. inodes \in Nat
    BY DEF WritebackInv, DataOK
  <2>3. CASE journal'[d] = journal[d]
    <3>1. journal[d] # None => journal[d].ino \in Nat
      BY DEF WritebackInv, DataOK, Intent
    <3> QED BY <2>1, <2>2, <2>3, <3>1 DEF WritebackInv, ProofsInv
  <2>4. CASE journal'[d] # journal[d]
    BY <2>1, <2>2, <2>4
  <2> QED BY <2>3, <2>4
<1>5. ProofsInv'
  BY <1>4 DEF WritebackInv, ProofsInv, IndexProven
<1> QED BY <1>1, <1>2, <1>3, <1>5

LEMMA RecordFacts ==
  ASSUME WritebackInv, NEW j, Base(j)
  PROVE  /\ Record(j) \in Intent /\ Record(j) # None
         /\ Record(j).entry = j.ok /\ Record(j).ino = inodes + 1
<1>1. journal[j.doc] # None => journal[j.doc].before \in Source
  BY JobTypes DEF WritebackInv, DataOK, Intent
<1>2. Record(j) \in Intent
  BY <1>1, JobTypes DEF WritebackInv, DataOK, Record, Intent
<1> QED BY <1>2, NoneApart DEF Record

\* Writing begins, or is refused, from a loop.
LEMMA StartWriteStep ==
  ASSUME WritebackInv, NEW j, Base(j), NEW allowed \in BOOLEAN, allowed => Fine(j),
         phase \in Loops, StartWrite(j, allowed),
         UNCHANGED <<file, saved, snap, wrote, late, schema, scope, module, attempt, before,
                     seen, owners, touched, cause, steady, edits, changes, faults, runs>>
  PROVE  WritebackInv'
<1>1. todo' \subseteq todo /\ todo' \subseteq Docs
  BY DEF StartWrite, WritebackInv, FlowOK
<1>2. CASE ~(allowed /\ On(j.doc) = j.old)
  <2>1. Refuse(j) /\ UNCHANGED <<journal, inodes, again>>
    BY <1>2 DEF StartWrite
  <2>2. /\ mem' \in Index /\ Indexed(mem') = Indexed(mem) /\ IndexProven(mem)'
        /\ phase' \in Loops /\ job' = NoJob /\ expect' = expect
    BY <2>1, RefuseFacts DEF WritebackInv, ProofsInv
  <2>3. DataOK' /\ JobOK' /\ DomInv' /\ JobInv' /\ ProofsInv'
    <3>1. journal' \in [Docs -> Intent \cup {None}] /\ inodes' \in Nat /\ inodes <= inodes'
      BY <2>1 DEF WritebackInv, DataOK
    <3>2. phase \notin {"none", "recover", "attempt", "load"}
      BY DEF Loops
    <3> QED BY <1>1, <2>1, <2>2, <3>1, <3>2, BackStep
  <2>4. FlowOK'
    BY <1>1, <2>1, <2>2 DEF WritebackInv, FlowOK, Phases, Loops
  <2> QED BY <2>3, <2>4 DEF WritebackInv
<1>3. CASE allowed /\ On(j.doc) = j.old
  <2>1. /\ job' = j /\ phase' = "guard" /\ mem' = mem /\ expect' = expect /\ Fine(j)
        /\ j.new = j.old => UNCHANGED <<journal, inodes, again>>
        /\ j.new # j.old =>
             /\ journal' = [journal EXCEPT ![j.doc] = Record(j)] /\ inodes' = inodes + 1
             /\ again' \in {again, again \cup {j.doc}}
    BY <1>3 DEF StartWrite, Goto
  <2>2. j.doc \in Docs /\ j # NoJob /\ j \in Job
    BY JobTypes DEF WritebackInv, Base
  <2>3. inodes \in Nat /\ inodes' \in Nat /\ inodes <= inodes'
    BY <2>1 DEF WritebackInv, DataOK
  <2>4. journal' \in [Docs -> Intent \cup {None}]
    BY <2>1, <2>2, RecordFacts DEF WritebackInv, DataOK
  <2>5. DataOK'
    BY <2>1, <2>3, <2>4 DEF WritebackInv, DataOK
  <2>6. FlowOK'
    BY <1>1, <2>1, <2>2 DEF WritebackInv, FlowOK, Phases
  <2>7. JobOK'
    BY <2>1, <2>2 DEF JobOK, Writing
  <2>8. DomInv'
    BY <1>1, <2>1 DEF WritebackInv, DomInv, Indexed, Loops
  <2>9. JobInv'
    <3>1. Base(j)' /\ Fine(j)'
      BY <2>1 DEF Base, Fine, Proven
    <3>2. j.new # j.old => /\ journal'[j.doc] # None /\ journal'[j.doc].entry = j.ok
                           /\ journal'[j.doc].ino = inodes'
      BY <2>1, <2>2, RecordFacts DEF WritebackInv, DataOK
    <3>3. Base(job)' /\ Fine(job)'
      BY <2>1, <3>1 DEF Base, Fine
    <3> QED BY <2>1, <3>2, <3>3 DEF JobInv
  <2>10. ProofsInv'
    <3>1. ASSUME NEW d \in Docs
          PROVE  /\ file[d] # None => file[d].ino <= inodes'
                 /\ journal'[d] # None =>
                      /\ 0 < journal'[d].ino /\ journal'[d].ino <= inodes'
                      /\ file[d] # None /\ file[d].ino = journal'[d].ino
                         => Proven(journal'[d].entry, wrote[d])
      <4>1. file[d] # None => file[d].ino \in Nat /\ file[d].ino <= inodes
        BY DEF WritebackInv, DataOK, ProofsInv, Files
      <4>2. CASE journal'[d] = journal[d]
        <5>1. journal[d] # None => journal[d].ino \in Nat
          BY DEF WritebackInv, DataOK, Intent
        <5> QED BY <2>3, <4>1, <4>2, <5>1 DEF WritebackInv, ProofsInv
      <4>3. CASE journal'[d] # journal[d]
        <5>1. inodes' = inodes + 1 /\ journal'[d].ino = inodes + 1
          BY <2>1, <2>2, <4>3, RecordFacts DEF WritebackInv, DataOK
        <5> QED BY <2>3, <4>1, <5>1
      <4> QED BY <4>2, <4>3
    <3> QED BY <2>1, <3>1 DEF WritebackInv, ProofsInv, IndexProven
  <2> QED BY <2>5, <2>6, <2>7, <2>8, <2>9, <2>10 DEF WritebackInv
<1> QED BY <1>2, <1>3

\* A write that ends, accepted or refused, without another change of the stores.
LEMMA EndOfWrite ==
  ASSUME WritebackInv, phase \in Writing,
         \/ Refuse(job)
         \/ Accept /\ Proven(job.ok, wrote[job.doc]),
         UNCHANGED <<file, saved, snap, wrote, journal, inodes, todo, owners, schema, scope,
                     module, attempt, before, seen, touched, again, cause, steady,
                     edits, changes, faults, runs>>,
         late' \in BOOLEAN
  PROVE  WritebackInv'
<1>1. Base(job)
  BY DEF WritebackInv, JobInv
<1>2. /\ mem' \in Index /\ Indexed(mem') = Indexed(mem) /\ IndexProven(mem)'
      /\ phase' \in Loops /\ job' = NoJob /\ expect' \in [Docs -> Source \cup {None, Free}]
  <2>1. CASE Refuse(job)
    BY <1>1, <2>1, RefuseFacts DEF WritebackInv, ProofsInv, FlowOK
  <2>2. CASE Accept /\ mem[job.doc].src = job.old /\ Proven(job.ok, wrote[job.doc])
    <3>1. /\ mem' = [mem EXCEPT ![job.doc] = State(job.new, job.ok)]
          /\ expect' = IF job.guarded THEN [expect EXCEPT ![job.doc] = job.new] ELSE expect
          /\ phase' = job.back /\ job' = NoJob
      BY <2>2 DEF Accept, Goto
    <3>2. /\ job.doc \in Docs /\ job.new \in Source /\ job.ok \in Entries /\ job.back \in Loops
          /\ mem[job.doc] # None
      BY <1>1, JobTypes DEF WritebackInv, Base
    <3>3. mem' \in Index /\ Indexed(mem') = Indexed(mem) /\ IndexProven(mem)'
      BY <2>2, <3>1, <3>2, PutFacts DEF WritebackInv, ProofsInv
    <3>4. expect' \in [Docs -> Source \cup {None, Free}]
      BY <3>1, <3>2 DEF WritebackInv, FlowOK
    <3> QED BY <3>1, <3>2, <3>3, <3>4
  <2>3. CASE Accept /\ mem[job.doc].src # job.old
    <3>1. Refuse(job)
      BY <2>3 DEF Accept
    <3> QED BY <1>1, <3>1, RefuseFacts DEF WritebackInv, ProofsInv, FlowOK
  <2> QED BY <2>1, <2>2, <2>3
<1>3. DataOK' /\ JobOK' /\ DomInv' /\ JobInv' /\ ProofsInv'
  <2>1. journal' \in [Docs -> Intent \cup {None}] /\ inodes' \in Nat /\ inodes <= inodes'
    BY DEF WritebackInv, DataOK
  <2>2. phase \notin {"none", "recover", "attempt", "load"}
    BY DEF Writing
  <2> QED BY <1>2, <2>1, <2>2, BackStep
<1>4. FlowOK'
  BY <1>2 DEF WritebackInv, FlowOK, Phases, Loops
<1> QED BY <1>3, <1>4 DEF WritebackInv

\* A write that goes on to its next step.
LEMMA NextOfWrite ==
  ASSUME WritebackInv, phase \in Writing, phase' \in {"compare", "rename"},
         UNCHANGED <<file, mem, job, expect, saved, snap, wrote, journal, inodes, todo, owners,
                     schema, scope, module, attempt, before, seen, touched, again, cause, steady,
                     edits, changes, faults, runs>>,
         late' \in BOOLEAN, phase \in {"guard", "compare"},
         phase' = "rename" =>
           job.new # job.old /\ file[job.doc] # None /\ file[job.doc].src = job.old
  PROVE  WritebackInv'
<1>1. DataOK' /\ JobOK' /\ DomInv' /\ ProofsInv'
  BY DEF WritebackInv, DataOK, JobOK, DomInv, ProofsInv, IndexProven, Writing, Indexed
<1>2. FlowOK'
  BY DEF WritebackInv, FlowOK, Phases
<1>3. Base(job)' /\ Fine(job)'
  BY DEF WritebackInv, JobInv, Base, Fine, Proven
<1>4. JobInv'
  BY <1>3 DEF WritebackInv, JobInv
<1> QED BY <1>1, <1>2, <1>4 DEF WritebackInv

LEMMA GuardStep == ASSUME WritebackInv, Guard PROVE WritebackInv'
<1>1. late' \in BOOLEAN
  BY DEF WritebackInv, FlowOK, Guard, history
<1>2. CASE job.guarded /\ ~DepsOk
  BY <1>1, <1>2, EndOfWrite DEF Guard, Writing, world, stores, history, counters
<1>3. CASE ~(job.guarded /\ ~DepsOk)
  BY <1>1, <1>3, NextOfWrite DEF Guard, Goto, Writing, world, stores, history, counters
<1> QED BY <1>2, <1>3

LEMMA CompareStep == ASSUME WritebackInv, Compare PROVE WritebackInv'
<1>1. phase = "compare" /\ late' \in BOOLEAN /\ phase \in Writing
  BY DEF Compare, Writing
<1>2. Base(job) /\ Fine(job)
  BY <1>1 DEF WritebackInv, JobInv
<1>3. CASE On(job.doc) # job.old
  BY <1>1, <1>3, EndOfWrite DEF Compare, world, stores, counters
<1>4. CASE On(job.doc) = job.old /\ job.new = job.old
  <2>1. Proven(job.ok, wrote[job.doc])
    BY <1>2, <1>4 DEF Proven, Fine
  <2> QED BY <1>1, <1>4, <2>1, EndOfWrite DEF Compare, world, stores, counters
<1>5. CASE On(job.doc) = job.old /\ job.new # job.old
  <2>1. file[job.doc] # None /\ file[job.doc].src = job.old
    BY <1>2, <1>5, JobTypes, OnType DEF WritebackInv, DataOK
  <2> QED BY <1>1, <1>5, <2>1, NextOfWrite DEF Compare, Goto, world, stores, counters
<1> QED BY <1>3, <1>4, <1>5

LEMMA RereadStep == ASSUME WritebackInv, Reread PROVE WritebackInv'
<1>1. phase = "reread" /\ phase \in Writing
  BY DEF Reread, Writing
<1>2. Proven(job.ok, wrote[job.doc]) /\ late' \in BOOLEAN
  BY <1>1 DEF WritebackInv, JobInv, FlowOK, Reread, history
<1>3. Accept \/ Refuse(job)
  BY DEF Reread
<1> QED BY <1>1, <1>2, <1>3, EndOfWrite DEF Reread, world, stores, history, counters

\* What a module has written it has written.
LEMMA Grows ==
  ASSUME NEW en, NEW v, NEW w, \A m \in Mods : v[m] \subseteq w[m], Proven(en, v)
  PROVE  Proven(en, w)
  BY DEF Proven

LEMMA ReplaceFacts ==
  ASSUME WritebackInv, Replace, UNCHANGED <<journal, inodes>>
  PROVE  /\ file' \in [Docs -> Files \cup {None}] /\ wrote' \in [Docs -> Values]
         /\ touched' \in [Docs -> SUBSET Mods]
         /\ \A d \in Docs, m \in Mods : wrote[d][m] \subseteq wrote'[d][m]
         /\ Proven(job.ok, wrote'[job.doc])
         /\ \A d \in Docs :
              /\ file'[d] # None => file'[d].ino <= inodes
              /\ journal[d] # None => 0 < journal[d].ino /\ journal[d].ino <= inodes
              /\ journal[d] # None /\ file'[d] # None /\ file'[d].ino = journal[d].ino
                   => Proven(journal[d].entry, wrote'[d])
<1> DEFINE new == {m \in Mods : job.new.fields[m] # job.old.fields[m]}
           more == [m \in Mods |-> wrote[job.doc][m] \cup
                       IF m \in new THEN {job.new.fields[m]} \ {None} ELSE {}]
<1>1. /\ phase = "rename" /\ Base(job) /\ Fine(job) /\ job.new # job.old
      /\ journal[job.doc] # None /\ journal[job.doc].entry = job.ok
  BY DEF Replace, WritebackInv, JobInv, Writing
<1>2. /\ job.doc \in Docs /\ job.new \in Source /\ job.ok \in Entries
      /\ job.new.fields \in [Mods -> Vals \cup {None}] /\ inodes \in Nat
  BY <1>1, JobTypes DEF WritebackInv, DataOK
<1>3. /\ file' = [file EXCEPT ![job.doc] = [src |-> job.new, ino |-> inodes]]
      /\ wrote' = [wrote EXCEPT ![job.doc] = more]
      /\ touched' = [touched EXCEPT ![job.doc] = @ \ new]
  <2>1. wrote[job.doc] \in [Mods -> SUBSET Vals]
    BY <1>2 DEF WritebackInv, DataOK, Values
  <2> QED BY <2>1 DEF Replace
<1>4. file' \in [Docs -> Files \cup {None}]
  BY <1>2, <1>3 DEF WritebackInv, DataOK, Files
<1>5. more \in Values /\ \A m \in Mods : wrote[job.doc][m] \subseteq more[m]
  BY <1>2 DEF WritebackInv, DataOK, Values
<1>6. wrote' \in [Docs -> Values]
  BY <1>2, <1>3, <1>5 DEF WritebackInv, DataOK
<1>7. touched' \in [Docs -> SUBSET Mods]
  BY <1>2, <1>3 DEF WritebackInv, FlowOK
<1>8. \A d \in Docs, m \in Mods : wrote[d][m] \subseteq wrote'[d][m]
  BY <1>2, <1>3, <1>5 DEF WritebackInv, DataOK
<1>9. Proven(job.ok, wrote'[job.doc])
  <2>1. SUFFICES ASSUME NEW m \in Mods, job.ok[m] # None, job.ok[m].proof # None
                 PROVE  job.ok[m].proof \in more[m]
    BY <1>2, <1>3 DEF Proven, WritebackInv, DataOK
  <2>2. CASE job.ok[m].proof \in wrote[job.doc][m]
    BY <1>5, <2>2
  <2>3. CASE job.ok[m].proof = job.new.fields[m] /\ job.new.fields[m] # job.old.fields[m]
    BY <2>1, <2>3
  <2> QED BY <1>1, <2>1, <2>2, <2>3 DEF Fine
<1>10. ASSUME NEW d \in Docs
       PROVE  /\ file'[d] # None => file'[d].ino <= inodes
              /\ journal[d] # None => 0 < journal[d].ino /\ journal[d].ino <= inodes
              /\ journal[d] # None /\ file'[d] # None /\ file'[d].ino = journal[d].ino
                   => Proven(journal[d].entry, wrote'[d])
  <2>1. CASE d = job.doc
    BY <1>1, <1>2, <1>3, <1>9, <2>1 DEF WritebackInv, ProofsInv, DataOK
  <2>2. CASE d # job.doc
    <3>1. file'[d] = file[d]
      BY <1>2, <1>3, <2>2 DEF WritebackInv, DataOK
    <3> QED BY <3>1, <1>8, Grows DEF WritebackInv, ProofsInv
  <2> QED BY <2>1, <2>2
<1> QED BY <1>4, <1>6, <1>7, <1>8, <1>9, <1>10

\* Replacing a document keeps what the index knows of ownership.
LEMMA ReplaceKeeps ==
  ASSUME WritebackInv, Replace, UNCHANGED <<journal, inodes>>, NEW ix, IndexProven(ix),
         ix \in Index
  PROVE  \A d \in Docs : ix[d] # None => Proven(ix[d].entry, wrote'[d])
  BY ReplaceFacts, Grows DEF IndexProven

LEMMA RenameStep == ASSUME WritebackInv, Rename PROVE WritebackInv'
<1>1. /\ Replace /\ phase = "rename" /\ phase' = "reread"
      /\ UNCHANGED <<journal, inodes, mem, job, saved, snap, faults, schema, scope, module,
                     attempt, before, seen, owners, expect, todo, again, cause, late, steady,
                     edits, changes, runs>>
  BY DEF Rename, Replace, Goto, stores
<1>2. DataOK'
  BY <1>1, ReplaceFacts DEF WritebackInv, DataOK
<1>3. FlowOK'
  BY <1>1, ReplaceFacts DEF WritebackInv, FlowOK, Phases
<1>4. JobOK' /\ DomInv'
  BY <1>1 DEF WritebackInv, JobOK, DomInv, Writing, Indexed
<1>5. JobInv'
  <2>1. Base(job) /\ Fine(job) /\ job.doc \in Docs
    BY <1>1, JobTypes DEF WritebackInv, JobInv, Writing
  <2>2. \A m \in Mods : wrote[job.doc][m] \subseteq wrote'[job.doc][m]
    BY <1>1, <2>1, ReplaceFacts
  <2>3. Proven(job.err, wrote'[job.doc])
    BY <2>1, <2>2, Grows DEF Base
  <2>4. Base(job)' /\ Fine(job)'
    BY <1>1, <2>1, <2>2, <2>3 DEF Base, Fine
  <2> QED BY <1>1, <2>4, ReplaceFacts DEF JobInv
<1>6. ProofsInv'
  BY <1>1, ReplaceFacts, ReplaceKeeps DEF WritebackInv, DataOK, ProofsInv, IndexProven
<1> QED BY <1>2, <1>3, <1>4, <1>5, <1>6 DEF WritebackInv

LEMMA RenameUnsyncedStep == ASSUME WritebackInv, RenameUnsynced PROVE WritebackInv'
<1>1. /\ Replace /\ phase = "rename" /\ phase' = job.back /\ job' = NoJob
      /\ mem' = [mem EXCEPT ![job.doc] = State(mem[job.doc].src, job.err)] /\ faults' = faults + 1
      /\ UNCHANGED <<journal, inodes, saved, snap, schema, scope, module,
                     attempt, before, seen, owners, expect, todo, again, cause, late, steady,
                     edits, changes, runs>>
  BY DEF RenameUnsynced, Replace, Goto, Faulted, stores
<1>2. Base(job)
  BY <1>1 DEF WritebackInv, JobInv, Writing
<1>3. /\ job.doc \in Docs /\ job.back \in Loops /\ mem[job.doc] # None
      /\ State(mem[job.doc].src, job.err) \in Stored /\ State(mem[job.doc].src, job.err) # None
  BY <1>2, JobTypes, StateFacts DEF WritebackInv, Base, DataOK
<1>4. /\ mem' \in Index /\ Indexed(mem') = Indexed(mem)
      /\ \A x \in Docs : mem'[x] = IF x = job.doc THEN State(mem[job.doc].src, job.err) ELSE mem[x]
  BY <1>1, <1>3 DEF WritebackInv, DataOK, Index, Indexed
<1>5. DataOK'
  BY <1>1, <1>4, ReplaceFacts DEF WritebackInv, DataOK
<1>6. FlowOK'
  BY <1>1, <1>3, ReplaceFacts DEF WritebackInv, FlowOK, Phases, Loops
<1>7. JobOK' /\ JobInv'
  BY <1>1, <1>3 DEF JobOK, JobInv, Writing, Loops
<1>8. DomInv'
  BY <1>1, <1>3, <1>4 DEF WritebackInv, DomInv, Loops, Indexed
<1>9. ProofsInv'
  <2>1. IndexProven(saved)' /\ IndexProven(snap)'
    BY <1>1, ReplaceKeeps DEF WritebackInv, DataOK, ProofsInv, IndexProven
  <2>2. Proven(State(mem[job.doc].src, job.err).entry, wrote'[job.doc])
    <3>1. wrote'[job.doc] \in Values /\ Proven(job.err, wrote'[job.doc])
      BY <1>1, <1>2, <1>3, ReplaceFacts, Grows DEF Base
    <3> QED BY <1>2, <3>1, JobTypes, StateFacts DEF WritebackInv
  <2>3. IndexProven(mem)'
    BY <1>1, <1>4, <2>2, ReplaceKeeps DEF WritebackInv, DataOK, ProofsInv, IndexProven
  <2> QED BY <1>1, <2>1, <2>3, ReplaceFacts DEF ProofsInv
<1> QED BY <1>5, <1>6, <1>7, <1>8, <1>9 DEF WritebackInv

-----------------------------------------------------------------------------
(* What the modules compute *)

\* A field that is owned has a value its module wrote.
LEMMA OwnedFacts ==
  ASSUME NEW st \in Stored, NEW m \in Mods, Owns(st, m), NEW w \in Values, Proven(st.entry, w)
  PROVE  /\ st.entry[m] # None /\ st.entry[m] \in Computed
         /\ st.entry[m].proof \in Vals /\ st.entry[m].proof \in w[m]
         /\ st.src.fields[m] = st.entry[m].proof
  BY DEF Stored, Entries, Computed, Owns, Proven

LEMMA OutcomeTypes ==
  ASSUME WritebackInv, NEW d \in Docs, mem[d] # None
  PROVE  /\ Defined => seen[module] \in Defs /\ Value(d) \in Vals \cup {None}
         /\ NewField(d) \in Vals \cup {None} /\ Proof(d) \in Vals \cup {None}
         /\ Sets(d) => Value(d) \in Vals
<1>1. module \in Mods /\ seen \in Schemas \cup {Broken}
  BY DEF WritebackInv, FlowOK
<1>2. \A t \in Docs : mem[t] # None => mem[t].src.text \in Texts
  BY DEF WritebackInv, DataOK, Index, Stored, Source
<1>3. Target[d] \in Docs
  BY OverlayTypes
<1>4. ASSUME Defined PROVE seen[module] \in Defs /\ Value(d) \in Vals \cup {None}
  <2>1. seen[module] \in Defs
    BY <1>1, <1>4, OverlayTypes DEF Defined
  <2> DEFINE t == IF module = "formula" THEN d ELSE Target[d]
  <2>2. t \in Docs
    BY <1>3
  <2>3. CASE mem[t] = None
    BY <2>1, <2>3 DEF Value
  <2>4. CASE mem[t] # None
    <3>1. <<seen[module], mem[t].src.text>> \in Defs \X Texts
      BY <1>2, <2>1, <2>2, <2>4
    <3>2. Eval[<<seen[module], mem[t].src.text>>] \in Vals \cup {None}
      BY <3>1, OverlayTypes
    <3>3. Value(d) = Eval[<<seen[module], mem[t].src.text>>]
      BY <2>4 DEF Value
    <3> QED BY <2>1, <3>2, <3>3
  <2> QED BY <2>1, <2>3, <2>4
<1>5. mem[d].src.fields[module] \in Vals \cup {None}
  BY <1>1 DEF WritebackInv, DataOK, Index, Stored, Source, Fields
<1>6. Sets(d) => Value(d) \in Vals
  BY <1>4 DEF Sets
<1> QED BY <1>4, <1>5, <1>6 DEF NewField, Proof

\* The write of a patch: what it stores as owned is owned already or is written by
\* it, and what it removes is owned.
LEMMA PatchJob ==
  ASSUME WritebackInv, NEW d \in todo, phase = "apply", NEW j,
         j = [doc |-> d, old |-> mem[d].src, new |-> With(mem[d].src, module, NewField(d)),
              ok |-> [mem[d].entry EXCEPT ![module] = NewEntry(d, Proof(d))],
              err |-> [mem[d].entry EXCEPT ![module] = Refusal(d)],
              guarded |-> TRUE, back |-> "apply"]
  PROVE  Base(j) /\ (MayPatch(d) => Fine(j))
<1>1. /\ d \in Docs /\ mem[d] # None /\ mem[d] \in Stored /\ mem[d].src \in Source
      /\ mem[d].entry \in Entries /\ module \in Mods /\ wrote[d] \in Values
      /\ Proven(mem[d].entry, wrote[d])
  BY DEF WritebackInv, DomInv, Indexed, DataOK, Index, Stored, FlowOK, ProofsInv, IndexProven
<1>2. /\ Mine(d) => /\ Old(d) # None /\ Old(d) \in Computed /\ Old(d).proof \in Vals
                    /\ Old(d).proof \in wrote[d][module]
                    /\ mem[d].src.fields[module] = Old(d).proof
  BY <1>1, OwnedFacts DEF Mine, Old
<1>3. /\ j.new \in Source /\ j.new.text = j.old.text
      /\ \A m \in Mods : j.new.fields[m] = IF m = module THEN NewField(d) ELSE j.old.fields[m]
  BY <1>1, OutcomeTypes DEF With, Source, Fields
<1>4. /\ NewEntry(d, Proof(d)) \in Computed \cup {None}
      /\ NewEntry(d, Proof(d)) # None => NewEntry(d, Proof(d)).proof \in {Proof(d), None}
      /\ NewEntry(d, None) \in Computed \cup {None}
      /\ NewEntry(d, None) # None => NewEntry(d, None).proof = None
  BY <1>1, OutcomeTypes DEF NewEntry, Computed, Sets
<1>5. /\ Refusal(d) \in Computed \cup {None}
      /\ Refusal(d) # None => Refusal(d).proof \in {None} \cup wrote[d][module]
  <2>1. CASE Defined \/ Mine(d)
    BY <1>1, <1>2, <2>1, OutcomeTypes DEF Refusal, Computed
  <2>2. CASE ~(Defined \/ Mine(d))
    BY <1>4, <2>2 DEF Refusal
  <2> QED BY <2>1, <2>2
<1>6. /\ j.ok \in Entries /\ j.err \in Entries
      /\ \A m \in Mods : j.ok[m] = IF m = module THEN NewEntry(d, Proof(d)) ELSE mem[d].entry[m]
      /\ \A m \in Mods : j.err[m] = IF m = module THEN Refusal(d) ELSE mem[d].entry[m]
  BY <1>1, <1>4, <1>5 DEF Entries
<1>7. Base(j)
  <2>1. j \in Job
    BY <1>1, <1>3, <1>6 DEF Job
  <2>2. Proven(j.err, wrote[d])
    BY <1>1, <1>5, <1>6 DEF Proven
  <2> QED BY <1>1, <1>3, <2>1, <2>2 DEF Base
<1>8. ASSUME MayPatch(d) PROVE Fine(j)
  <2>1. SUFFICES ASSUME NEW m \in Mods
        PROVE  /\ j.ok[m] # None /\ j.ok[m].proof # None =>
                    \/ j.ok[m].proof \in wrote[d][m]
                    \/ j.ok[m].proof = j.new.fields[m] /\ j.new.fields[m] # j.old.fields[m]
               /\ j.new.fields[m] = None => j.old.fields[m] \in wrote[d][m] \cup {None}
    BY DEF Fine
  <2>2. CASE m # module
    <3>1. j.old.fields[m] = j.new.fields[m]
      BY <1>3, <2>2
    <3> QED BY <1>1, <1>6, <2>2, <3>1 DEF Proven
  <2>3. CASE m = module /\ Sets(d)
    <3>1. j.new.fields[m] = Value(d) /\ Value(d) \in Vals /\ Value(d) # None
      BY <1>1, <1>3, <2>3, OutcomeTypes, NoneApart DEF NewField
    <3>2. j.ok[m] # None /\ j.ok[m].proof # None =>
            j.ok[m].proof = Value(d) /\ (Mine(d) \/ mem[d].src.fields[module] # Value(d))
      BY <1>4, <1>6, <2>3 DEF Proof
    <3> QED BY <1>2, <2>3, <3>1, <3>2
  <2>4. CASE m = module /\ ~Sets(d)
    <3>1. j.ok[m] # None => j.ok[m].proof = None
      BY <1>4, <1>6, <2>4 DEF Proof
    <3>2. j.new.fields[m] = None => Mine(d) \/ j.old.fields[m] = None
      BY <1>3, <1>8, <2>4 DEF MayPatch, NewField, Unsets
    <3> QED BY <1>2, <2>4, <3>1, <3>2
  <2> QED BY <2>2, <2>3, <2>4
<1> QED BY <1>7, <1>8

LEMMA PatchStep == ASSUME WritebackInv, NEW d \in Docs, Patch(d) PROVE WritebackInv'
<1> DEFINE j == [doc |-> d, old |-> mem[d].src, new |-> With(mem[d].src, module, NewField(d)),
                 ok |-> [mem[d].entry EXCEPT ![module] = NewEntry(d, Proof(d))],
                 err |-> [mem[d].entry EXCEPT ![module] = Refusal(d)],
                 guarded |-> TRUE, back |-> "apply"]
<1>1. /\ phase = "apply" /\ d \in todo /\ StartWrite(j, MayPatch(d))
      /\ UNCHANGED <<file, saved, snap, wrote, late, schema, scope, module, attempt, before,
                     seen, owners, touched, cause, steady, edits, changes, faults, runs>>
  BY DEF Patch, world, counters
<1>2. Base(j) /\ (MayPatch(d) => Fine(j))
  BY <1>1, PatchJob
<1>3. MayPatch(d) \in BOOLEAN
  BY DEF MayPatch, Sets, Defined, Mine, Owns
<1>4. phase \in Loops
  BY <1>1 DEF Loops
<1> HIDE DEF j
<1> QED BY <1>1, <1>2, <1>3, <1>4, StartWriteStep

\* What taking fields ms of a document back stores, what it stores if the document
\* cannot be written, and the write.
TakenOwn(src, entry, ms) == {m \in ms : Owns([src |-> src, entry |-> entry], m)}
TakenEntry(entry, ms, fp) ==
  [m \in Mods |-> IF m \in ms THEN [fp |-> fp[m], val |-> None, proof |-> None] ELSE entry[m]]
TakenError(src, entry, ms, fp) ==
  [m \in Mods |-> IF m \in TakenOwn(src, entry, ms)
                  THEN [TakenEntry(entry, ms, fp)[m] EXCEPT !.proof = entry[m].proof]
                  ELSE TakenEntry(entry, ms, fp)[m]]
TakenJob(d, src, entry, ms, fp, back) ==
  [doc |-> d, old |-> src,
   new |-> [src EXCEPT !.fields = [m \in Mods |-> IF m \in TakenOwn(src, entry, ms) THEN None ELSE @[m]]],
   ok |-> TakenEntry(entry, ms, fp), err |-> TakenError(src, entry, ms, fp),
   guarded |-> FALSE, back |-> back]

LEMMA TakeBackForm ==
  ASSUME NEW d, NEW src, NEW entry, NEW ms, NEW fp, NEW back, TakeBack(d, src, entry, ms, fp, back)
  PROVE  /\ d \in todo
         /\ \/ StartWrite(TakenJob(d, src, entry, ms, fp, back), TRUE)
            \/ /\ mem' = [mem EXCEPT ![d] = State(mem[d].src, TakenEntry(entry, ms, fp))]
               /\ todo' = todo \ {d} /\ UNCHANGED <<journal, job, phase, expect, inodes, again>>
         /\ UNCHANGED <<world, saved, scope, module, attempt, before, seen, snap, owners,
                        wrote, touched, cause, late, steady, counters>>
<1>1. /\ d \in todo
      /\ UNCHANGED <<world, saved, scope, module, attempt, before, seen, snap, owners,
                     wrote, touched, cause, late, steady, counters>>
  BY DEF TakeBack
<1>2. CASE TakenOwn(src, entry, ms) # {}
  BY <1>1, <1>2 DEF TakeBack, TakenJob, TakenOwn, TakenEntry, TakenError
<1>3. CASE TakenOwn(src, entry, ms) = {}
  BY <1>1, <1>3 DEF TakeBack, TakenOwn, TakenEntry
<1> QED BY <1>2, <1>3, <1>1

LEMMA TakeBackJob ==
  ASSUME WritebackInv, NEW d \in Docs, NEW src \in Source, NEW entry \in Entries,
         NEW ms \in SUBSET Mods, NEW fp \in [Mods -> Defs \cup {None}], NEW back \in Loops,
         Proven(entry, wrote[d]), mem[d] # None
  PROVE  /\ TakenEntry(entry, ms, fp) \in Entries /\ Proven(TakenEntry(entry, ms, fp), wrote[d])
         /\ Base(TakenJob(d, src, entry, ms, fp, back)) /\ Fine(TakenJob(d, src, entry, ms, fp, back))
<1> DEFINE own == TakenOwn(src, entry, ms)
           en == TakenEntry(entry, ms, fp)
           err == TakenError(src, entry, ms, fp)
           j == TakenJob(d, src, entry, ms, fp, back)
<1>1. mem[d].src \in Source /\ wrote[d] \in Values
  BY DEF WritebackInv, DataOK, Index, Stored
<1>2. \A m \in own : /\ entry[m] # None /\ entry[m] \in Computed /\ entry[m].proof \in Vals
                     /\ entry[m].proof \in wrote[d][m] /\ src.fields[m] = entry[m].proof
  <2>1. [src |-> src, entry |-> entry] \in Stored
    BY DEF Stored
  <2> QED BY <1>1, <2>1, OwnedFacts DEF TakenOwn
<1>3. \A m \in Mods : /\ en[m] \in Computed \cup {None}
                      /\ m \in ms => en[m] # None /\ en[m].proof = None
                      /\ m \notin ms => en[m] = entry[m]
  BY NoneApart DEF Entries, Computed, TakenEntry
<1>4. en \in Entries /\ Proven(en, wrote[d])
  BY <1>3 DEF Proven, Entries, TakenEntry
<1>5. /\ j.new \in Source /\ j.new.text = src.text
      /\ \A m \in Mods : j.new.fields[m] = IF m \in own THEN None ELSE src.fields[m]
  BY DEF Source, Fields, TakenJob
<1>6. \A m \in Mods : /\ err[m] \in Computed \cup {None}
                      /\ m \in own => err[m].proof = entry[m].proof
                      /\ m \notin own => err[m] = en[m]
  <2>1. own \subseteq ms
    BY DEF TakenOwn
  <2>2. \A m \in Mods : err[m] = IF m \in own THEN [en[m] EXCEPT !.proof = entry[m].proof] ELSE en[m]
    BY DEF TakenError
  <2> HIDE DEF own, en, err
  <2> SUFFICES ASSUME NEW m \in Mods
      PROVE  /\ err[m] \in Computed \cup {None}
             /\ m \in own => err[m].proof = entry[m].proof
             /\ m \notin own => err[m] = en[m]
    OBVIOUS
  <2>3. CASE m \notin own
    BY <1>3, <2>2, <2>3
  <2>4. CASE m \in own
    <3>1. en[m] \in Computed /\ entry[m].proof \in Vals
      BY <1>2, <1>3, <2>1, <2>4
    <3>2. err[m] = [en[m] EXCEPT !.proof = entry[m].proof]
      BY <2>2, <2>4
    <3> QED BY <2>4, <3>1, <3>2 DEF Computed
  <2> QED BY <2>3, <2>4
<1>7. err \in Entries /\ Proven(err, wrote[d])
  <2>1. \A m \in Mods : err[m] # None /\ err[m].proof # None => err[m].proof \in wrote[d][m]
    BY <1>2, <1>4, <1>6 DEF Proven
  <2>2. err \in Entries
    BY <1>6 DEF Entries, TakenError
  <2> QED BY <2>1, <2>2 DEF Proven
<1>8. j.doc = d /\ j.old = src /\ j.ok = en /\ j.err = err
  BY DEF TakenJob
<1>9. Base(j)
  <2>1. j \in Job
    BY <1>4, <1>5, <1>7 DEF Job, Loops, TakenJob
  <2> QED BY <1>5, <1>7, <1>8, <2>1 DEF Base
<1>10. Fine(j)
  <2>1. SUFFICES ASSUME NEW m \in Mods
        PROVE  /\ j.ok[m] # None /\ j.ok[m].proof # None => j.ok[m].proof \in wrote[d][m]
               /\ j.new.fields[m] = None => j.old.fields[m] \in wrote[d][m] \cup {None}
    BY <1>8 DEF Fine
  <2> HIDE DEF j, own, en
  <2> QED BY <1>2, <1>4, <1>5, <1>8 DEF Proven
<1> QED BY <1>4, <1>9, <1>10

\* The three loops that take values back preserve the invariant.
LEMMA TakeBackStep ==
  ASSUME WritebackInv, NEW d \in Docs, NEW src \in Source, NEW entry \in Entries,
         NEW ms \in SUBSET Mods, NEW fp \in [Mods -> Defs \cup {None}],
         Proven(entry, wrote[d]), phase \in Loops, TakeBack(d, src, entry, ms, fp, phase)
  PROVE  WritebackInv'
<1> DEFINE en == TakenEntry(entry, ms, fp)
           j == TakenJob(d, src, entry, ms, fp, phase)
<1>1. /\ d \in todo /\ mem[d] # None /\ mem[d].src \in Source
      /\ UNCHANGED <<file, saved, snap, wrote, late, schema, scope, module, attempt, before,
                     seen, owners, touched, cause, steady, edits, changes, faults, runs>>
  BY TakeBackForm DEF WritebackInv, DomInv, Indexed, DataOK, Index, Stored, world, counters
<1>2. en \in Entries /\ Proven(en, wrote[d]) /\ Base(j) /\ Fine(j)
  BY <1>1, TakeBackJob
<1> HIDE DEF en, j
<1>3. CASE /\ mem' = [mem EXCEPT ![d] = State(mem[d].src, en)] /\ todo' = todo \ {d}
           /\ UNCHANGED <<journal, job, phase, expect, inodes, again>>
  <2>1. mem' \in Index /\ Indexed(mem') = Indexed(mem) /\ IndexProven(mem)'
    BY <1>1, <1>2, <1>3, PutFacts DEF WritebackInv, ProofsInv
  <2>2. DataOK' /\ JobOK' /\ DomInv' /\ JobInv' /\ ProofsInv'
    <3>1. journal' \in [Docs -> Intent \cup {None}] /\ inodes' \in Nat /\ inodes <= inodes'
      BY <1>3 DEF WritebackInv, DataOK
    <3>2. phase \notin {"none", "recover", "attempt", "load"}
      BY DEF Loops
    <3>3. job' = NoJob /\ phase' \in Loops /\ todo' \subseteq todo
      BY <1>3 DEF WritebackInv, JobOK, Loops, Writing
    <3> QED BY <1>1, <1>3, <2>1, <3>1, <3>2, <3>3, BackStep
  <2>3. FlowOK'
    BY <1>1, <1>3 DEF WritebackInv, FlowOK
  <2> QED BY <2>2, <2>3 DEF WritebackInv
<1>4. CASE StartWrite(j, TRUE)
  BY <1>1, <1>2, <1>4, StartWriteStep
<1> QED BY <1>3, <1>4, TakeBackForm DEF en, j

LEMMA FpType == ASSUME NEW st \in Stored PROVE Fp(st) \in [Mods -> Defs \cup {None}]
  BY DEF Fp, Stored, Entries, Computed

\* What a document of the handle, or of the snapshot, holds.
LEMMA DocFacts ==
  ASSUME WritebackInv, NEW ix \in {mem, snap}, NEW d \in Docs, ix[d] # None
  PROVE  /\ ix[d] \in Stored /\ ix[d].src \in Source /\ ix[d].entry \in Entries
         /\ Proven(ix[d].entry, wrote[d])
  BY DEF WritebackInv, DataOK, Index, Stored, ProofsInv, IndexProven

LEMMA SuppressStep == ASSUME WritebackInv, NEW d \in Docs, Suppress(d) PROVE WritebackInv'
<1> DEFINE fp == [Fp(mem[d]) EXCEPT ![module] = IF Defined THEN seen[module] ELSE @]
<1>1. phase = "suppress" /\ TakeBack(d, mem[d].src, mem[d].entry, {module}, fp, phase)
  BY DEF Suppress
<1>2. mem[d] # None /\ module \in Mods
  BY <1>1 DEF TakeBack, WritebackInv, DomInv, Indexed, FlowOK
<1>3. fp \in [Mods -> Defs \cup {None}]
  <2>1. Fp(mem[d]) \in [Mods -> Defs \cup {None}]
    BY <1>2, DocFacts, FpType
  <2>2. Defined => seen[module] \in Defs
    BY <1>2, OutcomeTypes
  <2> QED BY <1>2, <2>1, <2>2
<1>4. phase \in Loops
  BY <1>1 DEF Loops
<1> HIDE DEF fp
<1> QED BY <1>1, <1>2, <1>3, <1>4, DocFacts, TakeBackStep

LEMMA RestoreStep == ASSUME WritebackInv, NEW d \in Docs, Restore(d) PROVE WritebackInv'
<1> DEFINE ms == IF Owns(snap[d], module) \/ d \in owners THEN {module} ELSE {}
<1>1. phase = "restore" /\ TakeBack(d, snap[d].src, snap[d].entry, ms, Fp(snap[d]), phase)
  BY DEF Restore
<1>2. snap[d] # None /\ ms \in SUBSET Mods
  BY <1>1 DEF TakeBack, WritebackInv, DomInv, Indexed, FlowOK
<1>3. phase \in Loops
  BY <1>1 DEF Loops
<1> HIDE DEF ms
<1> QED BY <1>1, <1>2, <1>3, DocFacts, FpType, TakeBackStep

LEMMA DestabilizeStep == ASSUME WritebackInv, NEW d \in Docs, Destabilize(d) PROVE WritebackInv'
<1>1. phase = "unstable" /\ TakeBack(d, mem[d].src, mem[d].entry, Owned(d), Fp(mem[d]), phase)
  BY DEF Destabilize
<1>2. mem[d] # None /\ Owned(d) \in SUBSET Mods
  BY <1>1 DEF TakeBack, WritebackInv, DomInv, Indexed, Owned
<1>3. phase \in Loops
  BY <1>1 DEF Loops
<1> QED BY <1>1, <1>2, <1>3, DocFacts, FpType, TakeBackStep

-----------------------------------------------------------------------------
(* The ends of a run, and the user *)

\* Nothing is being written before and after.
LEMMA Idle ==
  ASSUME WritebackInv, UNCHANGED <<file, inodes, wrote>>, phase \notin Writing,
         phase' \notin Writing, job' = NoJob,
         saved' \in Index, mem' \in Index, snap' \in Index,
         IndexProven(mem)', IndexProven(saved)', IndexProven(snap)',
         journal' \in [Docs -> Intent \cup {None}],
         \A d \in Docs : journal'[d] \in {None, journal[d]}
  PROVE  DataOK' /\ JobOK' /\ JobInv' /\ ProofsInv'
<1>1. DataOK'
  BY DEF WritebackInv, DataOK
<1>2. JobOK' /\ JobInv'
  BY DEF JobOK, JobInv, Writing
<1>3. ASSUME NEW d \in Docs
      PROVE  /\ file[d] # None => file[d].ino <= inodes
             /\ journal'[d] # None =>
                  /\ 0 < journal'[d].ino /\ journal'[d].ino <= inodes
                  /\ file[d] # None /\ file[d].ino = journal'[d].ino
                     => Proven(journal'[d].entry, wrote[d])
  BY DEF WritebackInv, ProofsInv
<1>4. ProofsInv'
  BY <1>3 DEF ProofsInv
<1> QED BY <1>1, <1>2, <1>4

LEMMA BeginStep == ASSUME WritebackInv, NEW ds \in Events, Begin(ds) PROVE WritebackInv'
<1>1. ds \subseteq Docs
  BY WritebackAssumption
<1>2. job = NoJob /\ phase = "none" /\ phase' \in {"attempt", "recover"}
  BY DEF Begin, Goto, WritebackInv, JobOK, Writing
<1>3. ASSUME NEW d \in Docs
      PROVE  mem'[d] \in Stored \cup {None}
             /\ (mem'[d] # None => Proven(mem'[d].entry, wrote[d]))
  <2>1. /\ saved[d] \in Stored \cup {None} /\ wrote[d] \in Values /\ On(d) \in Source \cup {None}
        /\ saved[d] # None => Proven(saved[d].entry, wrote[d])
    BY OnType DEF WritebackInv, DataOK, Index, ProofsInv, IndexProven
  <2>2. mem'[d] \in {saved[d], Refreshed(saved[d], On(d))}
    BY DEF Begin
  <2> QED BY <2>1, <2>2, RefreshedFacts
<1>4. mem' \in Index
  BY <1>3 DEF Begin, Index
<1>5. DataOK' /\ JobOK' /\ JobInv' /\ ProofsInv'
  <2>1. UNCHANGED <<file, inodes, wrote, saved, snap, journal, job>>
    BY DEF Begin, world, stores, history
  <2>2. IndexProven(mem)' /\ IndexProven(saved)' /\ IndexProven(snap)'
    BY <1>3, <2>1 DEF IndexProven, WritebackInv, ProofsInv
  <2>3. saved' \in Index /\ snap' \in Index /\ journal' \in [Docs -> Intent \cup {None}]
    BY <2>1 DEF WritebackInv, DataOK
  <2>4. phase \notin Writing /\ phase' \notin Writing
    BY <1>2 DEF Writing
  <2> QED BY <1>2, <1>4, <2>1, <2>2, <2>3, <2>4, Idle
<1>6. FlowOK'
  BY <1>1, <1>2, OverlayTypes DEF WritebackInv, FlowOK, Begin, Phases, world, history
<1>7. DomInv'
  BY <1>2 DEF WritebackInv, DomInv, Begin, Indexed
<1> QED BY <1>5, <1>6, <1>7 DEF WritebackInv

\* Recovery takes over an intent's proofs only from the intent's own file.
LEMMA RecoverStep == ASSUME WritebackInv, Recover PROVE WritebackInv'
<1>1. job = NoJob /\ phase = "recover" /\ phase' = "attempt" /\ mem' = [d \in Docs |-> Recovered(d)]
  BY DEF Recover, Goto, WritebackInv, JobOK, Writing
<1>2. ASSUME NEW d \in Docs
      PROVE  /\ Recovered(d) \in Stored \cup {None}
             /\ Recovered(d) # None <=> mem[d] # None
             /\ Recovered(d) # None => Proven(Recovered(d).entry, wrote[d])
  <2>1. /\ mem[d] \in Stored \cup {None} /\ wrote[d] \in Values
        /\ mem[d] # None => Proven(mem[d].entry, wrote[d])
    BY DEF WritebackInv, DataOK, Index, ProofsInv, IndexProven
  <2>2. file[d] # None => On(d) \in Source /\ On(d) = file[d].src
    BY OnType DEF WritebackInv, DataOK
  <2>3. CASE journal[d] = None \/ mem[d] = None \/ file[d] = None
    BY <2>1, <2>3 DEF Recovered
  <2>4. CASE /\ ~(journal[d] = None \/ mem[d] = None \/ file[d] = None)
             /\ file[d] = [src |-> journal[d].after, ino |-> journal[d].ino]
             /\ mem[d].src \in {journal[d].before, journal[d].after}
    <3>1. Recovered(d) = State(On(d), journal[d].entry)
      BY <2>4 DEF Recovered
    <3>2. journal[d].entry \in Entries
      BY <2>4 DEF WritebackInv, DataOK, Intent
    <3>3. file[d].ino = journal[d].ino
      BY <2>4
    <3>4. Proven(journal[d].entry, wrote[d])
      BY <2>4, <3>3 DEF WritebackInv, ProofsInv
    <3> QED BY <2>1, <2>2, <2>4, <3>1, <3>2, <3>4, StateFacts
  <2>5. CASE /\ ~(journal[d] = None \/ mem[d] = None \/ file[d] = None)
             /\ ~(/\ file[d] = [src |-> journal[d].after, ino |-> journal[d].ino]
                  /\ mem[d].src \in {journal[d].before, journal[d].after})
    <3>1. Recovered(d) = Refreshed(mem[d], On(d)) /\ On(d) # None
      BY <2>2, <2>5, NoneApart DEF Recovered
    <3> QED BY <2>1, <2>2, <2>5, <3>1, RefreshedFacts
  <2> QED BY <2>3, <2>4, <2>5
<1>3. mem' \in Index /\ Indexed(mem') = Indexed(mem)
  BY <1>1, <1>2 DEF Index, Indexed
<1>4. DataOK' /\ JobOK' /\ JobInv' /\ ProofsInv'
  <2>1. UNCHANGED <<file, inodes, wrote, saved, snap, journal, job>>
    BY DEF Recover, world, stores
  <2>2. IndexProven(mem)' /\ IndexProven(saved)' /\ IndexProven(snap)'
    BY <1>1, <1>2, <2>1 DEF IndexProven, WritebackInv, ProofsInv
  <2>3. saved' \in Index /\ snap' \in Index /\ journal' \in [Docs -> Intent \cup {None}]
    BY <2>1 DEF WritebackInv, DataOK
  <2>4. phase \notin Writing /\ phase' \notin Writing
    BY <1>1 DEF Writing
  <2> QED BY <1>1, <1>3, <2>1, <2>2, <2>3, <2>4, Idle
<1>5. FlowOK'
  <2>1. cause' \in [Docs -> {"none", "edited", "twice", "superseded", "restored"}]
    BY DEF Recover, WritebackInv, FlowOK
  <2> QED BY <1>1, <2>1 DEF WritebackInv, FlowOK, Recover, Phases, world, counters
<1>6. DomInv'
  BY <1>1, <1>3 DEF WritebackInv, DomInv, Recover
<1> QED BY <1>4, <1>5, <1>6 DEF WritebackInv

\* What a run leaves behind when it is over.
LEMMA OverFacts ==
  ASSUME WritebackInv, Over
  PROVE  /\ phase' = "none" /\ job' = NoJob /\ snap' \in Index /\ IndexProven(snap)'
         /\ DomInv' /\ scope' = {} /\ module' \in Mods /\ attempt' \in 0..Attempts
         /\ before' = Broken /\ seen' = Broken /\ owners' = {} /\ todo' = {} /\ again' = {}
         /\ expect' \in [Docs -> Source \cup {None, Free}]
<1>1. attempt' \in 0..Attempts
  BY OverlayTypes DEF Over
<1>2. snap' \in Index /\ IndexProven(snap)'
  BY DEF Over, Index, IndexProven
<1>3. DomInv'
  BY DEF Over, Goto, DomInv, Indexed
<1>4. expect' \in [Docs -> Source \cup {None, Free}]
  BY DEF Over
<1> QED BY <1>1, <1>2, <1>3, <1>4 DEF Over, Goto, Mods

LEMMA FinishStep == ASSUME WritebackInv, Finish PROVE WritebackInv'
<1>1. /\ phase = "finish" /\ Over /\ UNCHANGED <<file, schema, saved, mem, inodes, wrote, touched,
                                              late, steady, edits, changes, faults, runs>>
  BY DEF Finish, world, counters
<1>2. /\ journal' \in [Docs -> Intent \cup {None}]
      /\ \A d \in Docs : journal'[d] \in {None, journal[d]}
  BY DEF Finish, WritebackInv, DataOK
<1>3. cause' \in [Docs -> {"none", "edited", "twice", "superseded", "restored"}]
  BY DEF Finish, WritebackInv, FlowOK
<1>4. DataOK' /\ JobOK' /\ JobInv' /\ ProofsInv'
  <2>1. saved' \in Index /\ mem' \in Index /\ IndexProven(mem)' /\ IndexProven(saved)'
    BY <1>1 DEF WritebackInv, DataOK, ProofsInv, IndexProven
  <2>2. phase \notin Writing /\ phase' \notin Writing
    BY <1>1, OverFacts DEF Writing
  <2> QED BY <1>1, <1>2, <2>1, <2>2, OverFacts, Idle
<1>5. FlowOK'
  BY <1>1, <1>3, OverFacts DEF WritebackInv, FlowOK, Phases
<1> QED BY <1>1, <1>4, <1>5, OverFacts DEF WritebackInv

LEMMA CrashStep == ASSUME WritebackInv, Crash PROVE WritebackInv'
<1>1. /\ Over /\ mem' = saved /\ faults' = faults + 1
      /\ UNCHANGED <<file, schema, saved, journal, inodes, wrote, touched, late, steady, edits,
                     changes, runs>>
  BY DEF Crash, Faulted, world, stores
<1>2. cause' \in [Docs -> {"none", "edited", "twice", "superseded", "restored"}]
  BY DEF Crash, WritebackInv, FlowOK
<1>3. DataOK' /\ JobOK' /\ JobInv'
  BY <1>1, OverFacts DEF WritebackInv, DataOK, JobOK, JobInv, Writing
<1>4. ProofsInv'
  BY <1>1, OverFacts DEF WritebackInv, ProofsInv, IndexProven
<1>5. FlowOK'
  BY <1>1, <1>2, OverFacts DEF WritebackInv, FlowOK, Phases
<1> QED BY <1>1, <1>3, <1>4, <1>5, OverFacts DEF WritebackInv

\* A document of the user is a new file or keeps the identity of the old one.
LEMMA ChangedStep ==
  ASSUME WritebackInv, NEW d \in Docs, NEW f \in Files \cup {None}, Changed(d, f),
         f # None => f.ino = 0 \/ (file[d] # None /\ f.ino = file[d].ino)
  PROVE  WritebackInv'
<1>1. /\ file' = [file EXCEPT ![d] = f] /\ edits' = edits + 1
      /\ late' = (late \/ (phase = "rename" /\ d = job.doc))
      /\ UNCHANGED <<schema, saved, journal, mem, phase, scope, module, attempt, before, seen,
                     snap, owners, expect, todo, job, inodes, wrote, again, steady, changes,
                     faults, runs>>
  BY DEF Changed, stores, plan
<1>2. \A x \in Docs : file'[x] = IF x = d THEN f ELSE file[x]
  BY <1>1 DEF WritebackInv, DataOK
<1>3. DataOK'
  BY <1>1 DEF WritebackInv, DataOK
<1>4. FlowOK'
  <2>1. touched' \in [Docs -> SUBSET Mods]
    BY DEF Changed, WritebackInv, FlowOK
  <2>2. cause' \in [Docs -> {"none", "edited", "twice", "superseded", "restored"}]
    BY DEF Changed, WritebackInv, FlowOK
  <2>3. late' \in BOOLEAN
    BY <1>1 DEF WritebackInv, FlowOK
  <2> QED BY <1>1, <2>1, <2>2, <2>3 DEF WritebackInv, FlowOK
<1>5. JobOK' /\ DomInv'
  BY <1>1 DEF WritebackInv, JobOK, DomInv, Indexed
<1>6. JobInv'
  <2>1. phase \in Writing => Base(job)' /\ Fine(job)' /\ job.doc \in Docs
    BY <1>1, JobTypes DEF WritebackInv, JobInv, Base, Fine, Proven
  <2>2. phase = "reread" => Proven(job.ok, wrote[job.doc])'
    BY <1>1 DEF WritebackInv, JobInv, Proven
  <2>3. phase = "rename" /\ ~late' => file'[job.doc] # None /\ file'[job.doc].src = job.old
    <3>1. CASE d = job.doc
      BY <1>1, <3>1
    <3>2. CASE d # job.doc
      BY <1>1, <1>2, <2>1, <3>2 DEF WritebackInv, JobInv, Writing
    <3> QED BY <3>1, <3>2
  <2> QED BY <1>1, <2>1, <2>2, <2>3 DEF WritebackInv, JobInv
<1>7. ASSUME NEW x \in Docs
      PROVE  /\ file'[x] # None => file'[x].ino <= inodes
             /\ journal[x] # None =>
                  /\ 0 < journal[x].ino /\ journal[x].ino <= inodes
                  /\ file'[x] # None /\ file'[x].ino = journal[x].ino
                     => Proven(journal[x].entry, wrote[x])
  <2>1. CASE x # d
    BY <1>2, <2>1 DEF WritebackInv, ProofsInv
  <2>2. CASE x = d /\ f # None /\ f.ino = 0
    <3>1. file'[x].ino = 0 /\ inodes \in Nat /\ (journal[x] # None => journal[x].ino \in Nat)
      BY <1>2, <2>2 DEF WritebackInv, DataOK, Intent
    <3> QED BY <3>1 DEF WritebackInv, ProofsInv
  <2>3. CASE x = d /\ f # None /\ file[d] # None /\ f.ino = file[d].ino
    BY <1>2, <2>3 DEF WritebackInv, ProofsInv
  <2>4. CASE x = d /\ f = None
    BY <1>2, <2>4 DEF WritebackInv, ProofsInv
  <2> QED BY <2>1, <2>2, <2>3, <2>4
<1>8. ProofsInv'
  BY <1>1, <1>7 DEF WritebackInv, ProofsInv, IndexProven
<1> QED BY <1>3, <1>4, <1>5, <1>6, <1>8 DEF WritebackInv

LEMMA DeleteStep == ASSUME WritebackInv, NEW d \in Docs, Delete(d) PROVE WritebackInv'
  BY ChangedStep DEF Delete

LEMMA EditStep ==
  ASSUME WritebackInv, NEW d \in Docs, NEW src \in Source, Edit(d, src) PROVE WritebackInv'
<1>1. PICK ino \in {0, IF file[d] = None THEN 0 ELSE file[d].ino} : Changed(d, [src |-> src, ino |-> ino])
  BY DEF Edit
<1>2. file[d] # None => file[d].ino \in Nat
  BY DEF WritebackInv, DataOK, Files
<1>3. [src |-> src, ino |-> ino] \in Files
  BY <1>2 DEF Files
<1>4. ino = 0 \/ (file[d] # None /\ ino = file[d].ino)
  OBVIOUS
<1> QED BY <1>1, <1>3, <1>4, ChangedStep

LEMMA ChangeSchemaStep ==
  ASSUME WritebackInv, NEW s \in Schemas, ChangeSchema(s) PROVE WritebackInv'
<1>1. DataOK' /\ JobOK'
  BY DEF ChangeSchema, stores, plan, WritebackInv, DataOK, JobOK
<1>2. DomInv' /\ ProofsInv'
  BY DEF ChangeSchema, stores, plan, WritebackInv, DomInv, Indexed, ProofsInv, IndexProven
<1>4. FlowOK'
  <2>1. /\ schema' \in Schemas /\ steady' \in BOOLEAN /\ changes' = changes + 1
        /\ UNCHANGED <<phase, scope, module, attempt, before, seen, owners, todo, expect, touched,
                       again, late, cause, edits, faults, runs>>
    BY DEF ChangeSchema, plan
  <2> QED BY <2>1 DEF WritebackInv, FlowOK
<1>3. JobInv'
  <2>1. phase \in Writing => Base(job)' /\ Fine(job)'
    BY DEF ChangeSchema, plan, WritebackInv, JobInv, Base, Fine, Proven
  <2> QED BY <2>1 DEF ChangeSchema, stores, plan, WritebackInv, JobInv, Proven
<1> QED BY <1>1, <1>2, <1>3, <1>4 DEF WritebackInv

LEMMA StutterStep == ASSUME WritebackInv, UNCHANGED vars PROVE WritebackInv'
<1>1. UNCHANGED <<file, schema, saved, journal, mem, phase, scope, module, attempt, before, seen,
                  snap, owners, expect, todo, job, inodes, wrote, touched, again, cause, late,
                  steady, edits, changes, faults, runs>>
  BY DEF vars, world, stores, plan, history, counters
<1>2. DataOK' /\ FlowOK' /\ JobOK' /\ DomInv' /\ ProofsInv'
  BY <1>1 DEF WritebackInv, DataOK, FlowOK, JobOK, DomInv, Indexed, ProofsInv, IndexProven
<1>3. JobInv'
  BY <1>1 DEF WritebackInv, JobInv, Base, Fine, Proven
<1> QED BY <1>2, <1>3 DEF WritebackInv

-----------------------------------------------------------------------------
(* Theorems *)

LEMMA InvStep == WritebackInv /\ [Next]_vars => WritebackInv'
<1> SUFFICES ASSUME WritebackInv, [Next]_vars PROVE WritebackInv'
  OBVIOUS
<1>1. CASE Modules
  BY <1>1, RecoverStep, AttemptStep, LoadStep, EvaluateStep, AppliedStep, DependencyChangedStep,
     LeaveStep, CheckStep, GuardStep, CompareStep, RenameStep, RereadStep, SaveStep, FinishStep,
     PatchStep, SuppressStep, RestoreStep, DestabilizeStep DEF Modules
<1>2. CASE Failures
  BY <1>2, CrashStep, RenameUnsyncedStep, ExecutionFailsStep DEF Failures
<1>3. CASE Users
  <2>1. Edited \subseteq Docs
    BY WritebackAssumption
  <2> QED BY <1>3, <2>1, DeleteStep, EditStep, ChangeSchemaStep, BeginStep DEF Users
<1> QED BY <1>1, <1>2, <1>3, StutterStep DEF Next

\* The inductive invariant: types, what the runner's loops visit, what the write in
\* progress was computed from, and that every ownership proof, wherever it is kept
\* (handle, saved file, snapshot, intent), is of a value a module did write.
THEOREM Invariance == Spec => []WritebackInv
  BY InvInit, InvStep, PTL DEF Spec

\* Every variable keeps the shape of its counterpart, for any documents, overlays
\* and definitions.
THEOREM WritebackTyped == Spec => []TypeOK
  BY Invariance, TypeHalves, PTL DEF WritebackInv

\* Apart from the user only the rename replaces a document.
LEMMA OnlyReplace ==
  ASSUME WritebackInv, [Next]_vars, edits' = edits, file' # file
  PROVE  Replace
<1>1. edits \in Nat
  BY DEF WritebackInv, FlowOK
<1>2. CASE Modules
  <2>1. CASE \E d \in Docs : Patch(d) \/ Suppress(d) \/ Restore(d) \/ Destabilize(d)
    BY <2>1 DEF Patch, Suppress, Restore, Destabilize, TakeBack, world
  <2>2. CASE Rename
    BY <2>2 DEF Rename
  <2>3. CASE \/ Recover \/ Attempt \/ Load \/ Evaluate \/ Applied \/ DependencyChanged \/ Leave
             \/ Check \/ Guard \/ Compare \/ Reread \/ Save \/ Finish
    BY <2>3 DEF Recover, Attempt, Load, Evaluate, Applied, DependencyChanged, Leave, Check, Guard,
                Compare, Reread, Save, Finish, world
  <2> QED BY <1>2, <2>1, <2>2, <2>3 DEF Modules
<1>3. CASE Failures
  BY <1>3 DEF Failures, Crash, RenameUnsynced, ExecutionFails, world
<1>4. CASE Users
  BY <1>1, <1>4 DEF Users, Delete, Edit, Changed, ChangeSchema, Begin, world
<1>5. CASE UNCHANGED vars
  BY <1>5 DEF vars, world
<1> QED BY <1>2, <1>3, <1>4, <1>5 DEF Next

\* What a replacement does to a document.
LEMMA ReplacedFacts ==
  ASSUME WritebackInv, Replace, NEW d \in Docs, file'[d] # file[d]
  PROVE  /\ d = job.doc /\ file'[d].src = job.new /\ Base(job) /\ Fine(job)
         /\ ~late => file[d] # None /\ file[d].src = job.old
<1>1. phase = "rename" /\ Base(job) /\ Fine(job)
  BY DEF Replace, WritebackInv, JobInv, Writing
<1>2. job.doc \in Docs
  BY <1>1, JobTypes DEF WritebackInv
<1>3. file' = [file EXCEPT ![job.doc] = [src |-> job.new, ino |-> inodes]]
  BY DEF Replace
<1>4. \A x \in Docs : file'[x] = IF x = job.doc THEN [src |-> job.new, ino |-> inodes] ELSE file[x]
  BY <1>3 DEF WritebackInv, DataOK
<1>5. d = job.doc
  BY <1>4
<1> QED BY <1>1, <1>4, <1>5 DEF WritebackInv, JobInv

LEMMA EditsSurviveStep ==
  ASSUME WritebackInv, [Next]_vars, NEW d \in Docs, ByModule, file'[d] # file[d]
  PROVE  late \/ (file[d] # None /\ file'[d].src.text = file[d].src.text /\ job.old = file[d].src)
<1>1. Replace
  BY OnlyReplace DEF ByModule
<1> QED BY <1>1, ReplacedFacts DEF Base

LEMMA OnlyOwnStep ==
  ASSUME WritebackInv, [Next]_vars, NEW d \in Docs, NEW m \in Mods, ByModule, ~late,
         file'[d] # file[d], file'[d].src.fields[m] = None
  PROVE  file[d].src.fields[m] \in wrote[d][m] \cup {None}
<1>1. Replace
  BY OnlyReplace DEF ByModule
<1> QED BY <1>1, ReplacedFacts DEF Fine

\* No module write loses an edit, whatever fails, dies or changes: it replaces the
\* very source it was computed for, unless the edit falls between the last
\* comparison and the rename (apply_frontmatter_patch_inner).
THEOREM EditsAreNeverLost == Spec => EditsSurvive
<1>1. WritebackInv /\ [Next]_vars => [\A d \in Docs : ByModule /\ file'[d] # file[d] =>
        late \/ (file[d] # None /\ file'[d].src.text = file[d].src.text /\ job.old = file[d].src)]_vars
  BY EditsSurviveStep
<1> QED BY <1>1, Invariance, PTL DEF Spec, EditsSurvive

\* No value disappears from a document that no module put there: ownership proofs
\* stay true through refusals, restored snapshots, crashes and recovery
\* (normalize_committed_ownership, recover_computed_intents).
THEOREM UserValuesStay == Spec => OnlyOwnValuesRemoved
<1>1. WritebackInv /\ [Next]_vars => [\A d \in Docs, m \in Mods :
        ByModule /\ ~late /\ file'[d] # file[d] /\ file'[d].src.fields[m] = None
        => file[d].src.fields[m] \in wrote[d][m] \cup {None}]_vars
  BY OnlyOwnStep
<1> QED BY <1>1, Invariance, PTL DEF Spec, OnlyOwnValuesRemoved

-----------------------------------------------------------------------------
(* Ownership of computed fields is kept *)

\* The value of the field is one the module wrote, and nothing but writes of the
\* modules has come near the document since that would excuse losing track of it.
Untouched(d, m) ==
  /\ cause[d] = "none" /\ file[d] # None
  /\ m \notin touched[d] /\ file[d].src.fields[m] \in wrote[d][m]

\* The index knows the value that is in the document.
Has(st, d, m) == st # None /\ st.src.fields[m] = file[d].src.fields[m]

\* The document is not the file an intent promises.
Unwritten(d) == journal[d] = None \/ file[d].ino # journal[d].ino

\* A proof that says the field's value is the module's.
Proves(en, m, v) == en[m] # None /\ en[m].proof = v

\* Where the proof of an untouched value is kept: in the saved index and, in a
\* run, in the handle, or in the intent for the file the document now is.
FieldOwned(d, m) ==
  Untouched(d, m) =>
    /\ Unwritten(d) /\ d \notin again =>
         /\ Has(saved[d], d, m) /\ Owns(saved[d], m)
         /\ phase # "none" => Has(mem[d], d, m)
         /\ phase = "recover" => Owns(mem[d], m)
    /\ phase \notin {"none", "recover"} /\ Has(mem[d], d, m) => Owns(mem[d], m)
    /\ ~Unwritten(d) => /\ file[d].src = journal[d].after
                        /\ Proves(journal[d].entry, m, file[d].src.fields[m])
OwnersInv == \A d \in Docs, m \in Mods : FieldOwned(d, m)

\* A write takes the handle's source for the old one and keeps the proofs there
\* are, refused or not; a value it puts into the document it also proves.
Claims(j) ==
  /\ mem[j.doc].src = j.old
  /\ \A m \in Mods :
       /\ Owns(mem[j.doc], m) => Proves(j.err, m, j.old.fields[m])
       /\ j.new.fields[m] # None
          /\ (j.new.fields[m] # j.old.fields[m] \/ Owns(mem[j.doc], m))
          => Proves(j.ok, m, j.new.fields[m])

Spoiled == \A d \in Docs : cause[d] # "none"
LogInv ==
  /\ again \subseteq Pending /\ (phase \in {"none", "recover"} => again = {})
  /\ phase = "finish" => saved = mem
  /\ phase = "rename" /\ late => cause[job.doc] # "none"
  /\ phase = "restore" => Spoiled
  /\ phase = "reread" => job.new # job.old
  /\ phase \in Writing =>
       /\ job.back = "restore" => Spoiled
       /\ cause[job.doc] = "none" => Claims(job)
       /\ job.new # job.old =>
            /\ journal[job.doc] # None /\ journal[job.doc].ino = inodes
            /\ journal[job.doc].after = job.new /\ journal[job.doc].entry = job.ok

OwnershipInv == WritebackInv /\ LogInv /\ OwnersInv

LEMMA OwnershipInit == Init => LogInv /\ OwnersInv
  BY DEF Init, LogInv, Writing, OwnersInv, FieldOwned, Untouched

-----------------------------------------------------------------------------
(* Lemmas *)

\* Storing entries with a source keeps the proofs of the values the source has.
LEMMA StateOwns ==
  ASSUME NEW src \in Source, NEW en \in Entries, NEW m \in Mods, src.fields[m] # None,
         Proves(en, m, src.fields[m])
  PROVE  Owns(State(src, en), m)
<1>1. Reconcile(en, src)[m] = en[m]
  BY DEF Reconcile, Proves
<1> QED BY <1>1 DEF Owns, State, Proves

\* An owned value is proved by its entry.
LEMMA OwnsProves ==
  ASSUME NEW st, NEW m \in Mods, Owns(st, m)
  PROVE  Proves(st.entry, m, st.src.fields[m]) /\ st.src.fields[m] # None
  BY DEF Owns, Proves

\* A value a module wrote is a value.
LEMMA WroteVals ==
  ASSUME WritebackInv, NEW d \in Docs, NEW m \in Mods, Untouched(d, m)
  PROVE  /\ file[d] \in Files /\ file[d] # None /\ file[d].src \in Source /\ On(d) = file[d].src
         /\ file[d].src.fields[m] \in Vals /\ file[d].src.fields[m] # None
<1>1. file[d] \in Files /\ file[d] # None
  BY DEF WritebackInv, DataOK, Untouched
<1>2. wrote[d][m] \subseteq Vals
  BY DEF WritebackInv, DataOK, Values
<1> QED BY <1>1, <1>2, NoneApart DEF Untouched, Files, On

\* Inside a run: a document whose stores do not change, and whose entry at most
\* changes into one with the same source and no proof less.
LEMMA FieldKept ==
  ASSUME NEW d \in Docs, NEW m \in Mods, FieldOwned(d, m),
         file'[d] = file[d], saved'[d] = saved[d], journal'[d] = journal[d],
         wrote'[d] = wrote[d], touched'[d] = touched[d],
         cause'[d] = "none" => cause[d] = "none",
         d \in again <=> d \in again',
         phase \notin {"none", "recover"}, phase' \notin {"none", "recover"},
         \/ mem'[d] = mem[d]
         \/ /\ mem'[d] # None /\ mem'[d].src = mem[d].src
            /\ Untouched(d, m) /\ Has(mem[d], d, m) => Owns(mem'[d], m)
            /\ mem[d] # None
  PROVE  FieldOwned(d, m)'
  BY DEF FieldOwned, Untouched, Has, Unwritten

\* The same for steps that leave the stores and the handle alone.
LEMMA RestKept ==
  ASSUME LogInv, OwnersInv,
         UNCHANGED <<file, saved, journal, mem, job, inodes, wrote, touched, again, late>>,
         phase \notin Writing \cup {"none", "recover"},
         phase' \notin Writing \cup {"none", "recover", "finish"},
         \A d \in Docs : cause'[d] = "none" => cause[d] = "none",
         phase' = "restore" => Spoiled'
  PROVE  LogInv' /\ OwnersInv'
<1>1. LogInv'
  BY DEF LogInv, Writing, Pending
<1>2. OwnersInv'
  BY FieldKept DEF OwnersInv
<1> QED BY <1>1, <1>2

-----------------------------------------------------------------------------
(* Steps that only move the run *)

LEMMA AttemptOwned == ASSUME OwnershipInv, Attempt PROVE LogInv' /\ OwnersInv'
  BY RestKept DEF OwnershipInv, Attempt, Goto, Writing, world, stores
LEMMA LoadOwned == ASSUME OwnershipInv, Load PROVE LogInv' /\ OwnersInv'
  BY RestKept DEF OwnershipInv, Load, Goto, Writing, world, stores, history
LEMMA EvaluateOwned == ASSUME OwnershipInv, Evaluate PROVE LogInv' /\ OwnersInv'
  BY RestKept DEF OwnershipInv, Evaluate, Goto, Writing, world, stores, history
LEMMA AppliedOwned == ASSUME OwnershipInv, Applied PROVE LogInv' /\ OwnersInv'
  BY RestKept DEF OwnershipInv, Applied, Goto, Writing, world, stores, history
LEMMA DependencyChangedOwned == ASSUME OwnershipInv, DependencyChanged PROVE LogInv' /\ OwnersInv'
  BY RestKept DEF OwnershipInv, DependencyChanged, Goto, Writing, world, stores, history
LEMMA LeaveOwned == ASSUME OwnershipInv, Leave PROVE LogInv' /\ OwnersInv'
  BY RestKept DEF OwnershipInv, Leave, Goto, Writing, world, stores, history
LEMMA CheckOwned == ASSUME OwnershipInv, Check PROVE LogInv' /\ OwnersInv'
  BY RestKept DEF OwnershipInv, Check, Goto, Writing, world, stores, history

\* A module that fails spoils what is claimed of all documents.
LEMMA ExecutionFailsOwned == ASSUME OwnershipInv, ExecutionFails PROVE LogInv' /\ OwnersInv'
<1>1. Spoiled'
  BY DEF ExecutionFails, Spoiled
<1>2. \A d \in Docs : cause'[d] = "none" => cause[d] = "none"
  BY DEF ExecutionFails
<1> QED BY <1>1, <1>2, RestKept DEF OwnershipInv, ExecutionFails, Goto, Writing, world, stores

\* A saved index has what the handle has.
LEMMA SaveOwned == ASSUME OwnershipInv, Save PROVE LogInv' /\ OwnersInv'
<1>1. /\ phase = "save" /\ phase' = "finish" /\ saved' = mem
      /\ UNCHANGED <<file, journal, mem, job, inodes, wrote, touched, again, cause, late>>
  BY DEF Save, Goto, world, history
<1>2. LogInv'
  BY <1>1 DEF OwnershipInv, LogInv, Writing, Pending
<1>3. ASSUME NEW d \in Docs, NEW m \in Mods PROVE FieldOwned(d, m)'
  <2>1. FieldOwned(d, m)
    BY DEF OwnershipInv, OwnersInv
  <2> QED BY <1>1, <2>1 DEF FieldOwned, Untouched, Has, Unwritten
<1> QED BY <1>2, <1>3 DEF OwnersInv

-----------------------------------------------------------------------------
(* The steps of a write *)

\* A refused write keeps every proof of the entry it leaves.
LEMMA RefuseOwned ==
  ASSUME OwnershipInv, NEW j, Base(j), Refuse(j), cause[j.doc] = "none" => Claims(j),
         UNCHANGED <<file, saved, journal, wrote, touched, again, inodes, cause>>,
         phase \in Loops \cup Writing, j.back = "restore" => Spoiled
  PROVE  LogInv' /\ OwnersInv'
<1>1. /\ mem' = [mem EXCEPT ![j.doc] = State(mem[j.doc].src, j.err)] /\ mem[j.doc] # None
      /\ phase' = j.back /\ phase' \in Loops /\ j.doc \in Docs /\ mem \in Index
      /\ mem[j.doc].src \in Source /\ j.err \in Entries
  BY JobTypes DEF OwnershipInv, WritebackInv, DataOK, Refuse, Base, Goto
<1>2. LogInv'
  BY <1>1 DEF OwnershipInv, LogInv, Writing, Loops, Pending, Spoiled
<1>3. ASSUME NEW d \in Docs, NEW m \in Mods PROVE FieldOwned(d, m)'
  <2>1. FieldOwned(d, m)
    BY DEF OwnershipInv, OwnersInv
  <2>2. phase \notin {"none", "recover"} /\ phase' \notin {"none", "recover"}
    BY <1>1 DEF Loops, Writing
  <2>3. CASE d # j.doc
    <3>1. mem'[d] = mem[d]
      BY <1>1, <2>3 DEF Index
    <3> QED BY <2>1, <2>2, <3>1, FieldKept
  <2>4. CASE d = j.doc
    <3>1. mem'[d] = State(mem[d].src, j.err) /\ mem'[d] # None /\ mem'[d].src = mem[d].src
      <4>1. wrote[d] \in Values
        BY DEF OwnershipInv, WritebackInv, DataOK
      <4> QED BY <1>1, <2>4, <4>1, StateFacts DEF Index
    <3>2. ASSUME Untouched(d, m), Has(mem[d], d, m) PROVE Owns(mem'[d], m)
      <4>1. Owns(mem[d], m) /\ cause[d] = "none"
        BY <2>1, <2>2, <3>2 DEF FieldOwned, Untouched
      <4>2. Proves(j.err, m, mem[d].src.fields[m])
        BY <2>4, <4>1 DEF Claims
      <4>3. mem[d].src.fields[m] # None
        BY <4>1, OwnsProves
      <4> QED BY <1>1, <2>4, <3>1, <4>2, <4>3, StateOwns
    <3> QED BY <1>1, <2>1, <2>2, <2>4, <3>1, <3>2, FieldKept
  <2> QED BY <2>3, <2>4
<1> QED BY <1>2, <1>3 DEF OwnersInv

\* A write that is accepted: what it stores is proved.
LEMMA AcceptOwned ==
  ASSUME OwnershipInv, phase \in {"compare", "reread"}, Accept,
         phase = "compare" => job.new = job.old,
         phase = "reread" => file[job.doc] = [src |-> job.new, ino |-> inodes],
         UNCHANGED <<file, saved, journal, wrote, touched, again, inodes, cause>>
  PROVE  LogInv' /\ OwnersInv'
<1>0. Base(job)
  BY DEF OwnershipInv, WritebackInv, JobInv, Writing
<1> PICK x \in Docs : x = job.doc
  BY <1>0, JobTypes DEF OwnershipInv, WritebackInv
<1>1. /\ Base(job) /\ phase \in Writing /\ (cause[x] = "none" => Claims(job))
      /\ job.back = "restore" => Spoiled
  BY DEF OwnershipInv, WritebackInv, JobInv, LogInv, Writing
<1>2. CASE mem[x].src # job.old
  <2>1. Refuse(job)
    BY <1>2 DEF Accept
  <2> QED BY <1>1, <2>1, RefuseOwned
<1>3. CASE mem[x].src = job.old
  <2>1. mem' = [mem EXCEPT ![x] = State(job.new, job.ok)] /\ phase' = job.back
    BY <1>3 DEF Accept, Goto
  <2>2. /\ x \in Docs /\ mem[x] # None /\ mem \in Index /\ job.new \in Source /\ job.ok \in Entries
        /\ job.back \in Loops
    BY <1>1, JobTypes DEF OwnershipInv, WritebackInv, DataOK, Base
  <2>3. LogInv'
    BY <1>1, <2>1, <2>2 DEF OwnershipInv, LogInv, Writing, Loops, Pending, Spoiled
  <2>4. /\ mem'[x] = State(job.new, job.ok) /\ mem'[x] # None /\ mem'[x].src = job.new
        /\ \A d \in Docs : d # x => mem'[d] = mem[d]
    <3>1. wrote[x] \in Values
      BY <2>2 DEF OwnershipInv, WritebackInv, DataOK
    <3> QED BY <2>1, <2>2, <3>1, StateFacts DEF Index
  <2>5. phase \notin {"none", "recover"} /\ phase' \notin {"none", "recover"}
    BY <2>1, <2>2 DEF Loops
  <2>6. ASSUME NEW m \in Mods PROVE FieldOwned(x, m)'
    <3>1. FieldOwned(x, m)
      BY <2>2 DEF OwnershipInv, OwnersInv
    <3>2. Untouched(x, m)' <=> Untouched(x, m)
      BY DEF Untouched
    <3>3. SUFFICES ASSUME Untouched(x, m) PROVE FieldOwned(x, m)'
      BY <3>2 DEF FieldOwned
    <3>4. cause[x] = "none" /\ Claims(job) /\ file[x].src.fields[m] # None
      BY <1>1, <2>2, <3>3, WroteVals DEF Untouched, OwnershipInv
    <3>5. CASE phase = "compare"
      <4>1. job.new = mem[x].src
        BY <1>3, <3>5
      <4>2. ASSUME Has(mem[x], x, m) PROVE Owns(mem'[x], m)
        <5>1. Owns(mem[x], m)
          BY <2>5, <3>1, <3>3, <4>2 DEF FieldOwned
        <5>2. Proves(job.ok, m, job.new.fields[m]) /\ job.new.fields[m] # None
          BY <3>4, <4>1, <5>1, OwnsProves DEF Claims
        <5> QED BY <2>2, <2>4, <5>2, StateOwns
      <4> QED BY <2>2, <2>4, <2>5, <3>1, <4>1, <4>2, FieldKept
    <3>6. CASE phase = "reread"
      <4>1. /\ file[x].src = job.new /\ ~Unwritten(x) /\ journal[x].entry = job.ok
        BY <3>6, <1>1 DEF OwnershipInv, LogInv, Unwritten
      <4>2. Proves(job.ok, m, job.new.fields[m])
        BY <3>1, <3>3, <4>1 DEF FieldOwned
      <4>3. Owns(mem'[x], m)
        BY <2>2, <2>4, <3>4, <4>1, <4>2, StateOwns
      <4> QED BY <2>5, <3>1, <4>1, <4>3 DEF FieldOwned, Untouched, Unwritten
    <3> QED BY <3>5, <3>6
  <2>7. ASSUME NEW d \in Docs, NEW m \in Mods, d # x PROVE FieldOwned(d, m)'
    <3>1. FieldOwned(d, m) /\ mem'[d] = mem[d]
      BY <2>4, <2>7 DEF OwnershipInv, OwnersInv
    <3> QED BY <2>5, <3>1, FieldKept
  <2> QED BY <2>3, <2>6, <2>7 DEF OwnersInv
<1> QED BY <1>2, <1>3

\* A write begins: a document with an intent that was not retired is one of
\* `again`, the others have no intent yet and so nothing but the index.
LEMMA StartWriteOwned ==
  ASSUME OwnershipInv, NEW j, Base(j), NEW allowed \in BOOLEAN, StartWrite(j, allowed),
         phase \in Loops, cause[j.doc] = "none" => Claims(j), j.back = phase,
         UNCHANGED <<file, saved, wrote, touched, late, cause>>
  PROVE  LogInv' /\ OwnersInv'
<1>1. j.back = "restore" => Spoiled
  BY DEF OwnershipInv, LogInv
<1>2. CASE ~(allowed /\ On(j.doc) = j.old)
  <2>1. Refuse(j) /\ UNCHANGED <<journal, inodes, again>>
    BY <1>2 DEF StartWrite
  <2> QED BY <1>1, <2>1, RefuseOwned
<1>3. CASE allowed /\ On(j.doc) = j.old
  <2>1. /\ job' = j /\ phase' = "guard" /\ mem' = mem
        /\ j.new = j.old => UNCHANGED <<journal, inodes, again>>
        /\ j.new # j.old =>
             /\ journal' = [journal EXCEPT ![j.doc] = Record(j)] /\ inodes' = inodes + 1
             /\ again' = IF journal[j.doc] = None THEN again ELSE again \cup {j.doc}
    BY <1>3 DEF StartWrite, Goto
  <2>2. /\ j.doc \in Docs /\ inodes \in Nat /\ again \subseteq Pending
        /\ phase \notin {"none", "recover"} /\ phase' \notin {"none", "recover"}
    BY <2>1, JobTypes DEF OwnershipInv, WritebackInv, DataOK, LogInv, Loops
  <2>3. j.new # j.old =>
          /\ journal'[j.doc] = Record(j) /\ Record(j) # None /\ Record(j).entry = j.ok
          /\ Record(j).ino = inodes' /\ Record(j).after = j.new
          /\ \A d \in Docs : d # j.doc => journal'[d] = journal[d]
    <3>1. Record(j).after = j.new
      BY DEF Record
    <3> QED BY <2>1, <2>2, <3>1, RecordFacts DEF OwnershipInv, WritebackInv, DataOK
  <2>4. LogInv'
    <3>1. again' \subseteq Pending'
      BY <2>1, <2>2, <2>3 DEF Pending
    <3>2. (cause[j.doc] = "none" => Claims(j))' /\ (j.back = "restore" => Spoiled)'
      BY <1>1, <2>1 DEF Claims, Spoiled
    <3>3. /\ job'.back = "restore" => Spoiled'
          /\ cause'[job'.doc] = "none" => Claims(job)'
      BY <2>1, <3>2 DEF Claims, Spoiled
    <3> QED BY <2>1, <2>3, <3>1, <3>3 DEF LogInv, Writing
  <2>5. ASSUME NEW d \in Docs, NEW m \in Mods PROVE FieldOwned(d, m)'
    <3>1. FieldOwned(d, m)
      BY DEF OwnershipInv, OwnersInv
    <3>2. CASE j.new = j.old \/ d # j.doc
      <4>1. journal'[d] = journal[d] /\ (d \in again <=> d \in again')
        BY <2>1, <2>3, <3>2
      <4> QED BY <2>1, <2>2, <3>1, <4>1, FieldKept
    <3>3. CASE j.new # j.old /\ d = j.doc
      <4>1. file[d] # None => file[d].ino # inodes + 1
        BY <2>2 DEF OwnershipInv, WritebackInv, DataOK, ProofsInv, Files
      <4>2. Untouched(d, m) => Unwritten(d)'
        BY <2>1, <2>3, <3>3, <4>1 DEF Unwritten, Untouched
      <4>3. d \notin again' => Unwritten(d) /\ d \notin again
        BY <2>1, <2>2, <3>3 DEF Unwritten
      <4>4. Untouched(d, m)' <=> Untouched(d, m)
        BY DEF Untouched
      <4> QED BY <2>1, <2>2, <3>1, <4>2, <4>3, <4>4 DEF FieldOwned, Has
    <3> QED BY <3>2, <3>3
  <2> QED BY <2>4, <2>5 DEF OwnersInv
<1> QED BY <1>2, <1>3

\* A write that goes on to its next step.
LEMMA GoOnOwned ==
  ASSUME OwnershipInv, phase \in {"guard", "compare"}, phase' \in {"compare", "rename"},
         UNCHANGED <<file, mem, job, saved, wrote, journal, inodes, touched, again, cause>>,
         phase' = "rename" => ~late'
  PROVE  LogInv' /\ OwnersInv'
<1>1. (cause[job.doc] = "none" => Claims(job))' /\ (job.back = "restore" => Spoiled)'
  BY DEF OwnershipInv, LogInv, Writing, Claims, Spoiled
<1>2. LogInv'
  BY <1>1 DEF OwnershipInv, LogInv, Writing, Pending
<1>3. OwnersInv'
  BY FieldKept DEF OwnershipInv, OwnersInv
<1> QED BY <1>2, <1>3

LEMMA WritingFacts ==
  ASSUME OwnershipInv, phase \in Writing
  PROVE  /\ Base(job) /\ (cause[job.doc] = "none" => Claims(job))
         /\ job.back = "restore" => Spoiled
  BY DEF OwnershipInv, WritebackInv, JobInv, LogInv

LEMMA GuardOwned == ASSUME OwnershipInv, Guard PROVE LogInv' /\ OwnersInv'
<1>1. phase = "guard" /\ phase \in Writing
      /\ UNCHANGED <<file, saved, journal, wrote, touched, again, inodes, cause, late>>
  BY DEF Guard, Writing, world, stores, history
<1>2. CASE job.guarded /\ ~DepsOk
  BY <1>1, <1>2, WritingFacts, RefuseOwned DEF Guard
<1>3. CASE ~(job.guarded /\ ~DepsOk)
  BY <1>1, <1>3, GoOnOwned DEF Guard, Goto
<1> QED BY <1>2, <1>3

LEMMA CompareOwned == ASSUME OwnershipInv, Compare PROVE LogInv' /\ OwnersInv'
<1>1. phase = "compare" /\ phase \in Writing /\ late' = FALSE
      /\ UNCHANGED <<file, saved, journal, wrote, touched, again, inodes, cause>>
  BY DEF Compare, Writing, world, stores
<1>2. CASE On(job.doc) # job.old
  BY <1>1, <1>2, WritingFacts, RefuseOwned DEF Compare
<1>3. CASE On(job.doc) = job.old /\ job.new = job.old
  BY <1>1, <1>3, AcceptOwned DEF Compare
<1>4. CASE On(job.doc) = job.old /\ job.new # job.old
  BY <1>1, <1>4, GoOnOwned DEF Compare, Goto
<1> QED BY <1>2, <1>3, <1>4

LEMMA RereadOwned == ASSUME OwnershipInv, Reread PROVE LogInv' /\ OwnersInv'
<1>1. phase = "reread" /\ phase \in Writing
      /\ UNCHANGED <<file, saved, journal, wrote, touched, again, inodes, cause>>
  BY DEF Reread, Writing, world, stores, history
<1>2. CASE file[job.doc] = [src |-> job.new, ino |-> inodes]
  BY <1>1, <1>2, AcceptOwned DEF Reread
<1>3. CASE file[job.doc] # [src |-> job.new, ino |-> inodes]
  BY <1>1, <1>3, WritingFacts, RefuseOwned DEF Reread
<1> QED BY <1>2, <1>3

\* The rename makes the document the intent's file, whose entry proves what it has;
\* the handle still knows it by its old source, with the proofs of that.
LEMMA ReplaceOwned ==
  ASSUME OwnershipInv, Replace, UNCHANGED <<journal, saved, inodes, again, cause>>,
         phase' \notin {"none", "recover"},
         \/ mem' = mem
         \/ mem' = [mem EXCEPT ![job.doc] = State(mem[job.doc].src, job.err)]
  PROVE  OwnersInv'
<1>0. phase = "rename" /\ phase \in Writing /\ job.new # job.old
  BY DEF Replace, OwnershipInv, WritebackInv, JobInv, Writing
<1> DEFINE new == {m \in Mods : job.new.fields[m] # job.old.fields[m]}
<1> PICK x \in Docs : x = job.doc
  BY <1>0, WritingFacts, JobTypes DEF OwnershipInv, WritebackInv
<1>1. /\ Base(job) /\ (cause[x] = "none" => Claims(job)) /\ mem[x] # None
      /\ journal[x] # None /\ journal[x].ino = inodes /\ journal[x].after = job.new
      /\ journal[x].entry = job.ok
      /\ late => cause[x] # "none"
      /\ ~late => file[x] # None /\ file[x].src = job.old
  BY <1>0, WritingFacts DEF OwnershipInv, LogInv, WritebackInv, JobInv, Base
<1>2. /\ mem[x].src \in Source /\ job.err \in Entries /\ job.new \in Source /\ mem \in Index
      /\ wrote[x] \in [Mods -> SUBSET Vals] /\ job.new.fields \in [Mods -> Vals \cup {None}]
  BY <1>1, JobTypes DEF OwnershipInv, WritebackInv, DataOK, Values
<1>3. /\ file'[x] = [src |-> job.new, ino |-> inodes] /\ touched'[x] = touched[x] \ new
      /\ \A m \in Mods : wrote'[x][m] = wrote[x][m] \cup
                           IF m \in new THEN {job.new.fields[m]} \ {None} ELSE {}
      /\ \A d \in Docs : d # x => file'[d] = file[d] /\ touched'[d] = touched[d]
                                  /\ wrote'[d] = wrote[d]
  BY <1>2 DEF Replace, OwnershipInv, WritebackInv, DataOK, FlowOK
<1>4. \A d \in Docs : d # x => mem'[d] = mem[d]
  BY <1>2 DEF Index
<1>5. mem'[x] = mem[x] \/ mem'[x] = State(mem[x].src, job.err)
  BY <1>2 DEF Index
<1>6. ASSUME NEW d \in Docs, NEW m \in Mods, d # x PROVE FieldOwned(d, m)'
  <2>1. FieldOwned(d, m)
    BY DEF OwnershipInv, OwnersInv
  <2> QED BY <1>0, <1>3, <1>4, <1>6, <2>1, FieldKept
<1>7. ASSUME NEW m \in Mods, Untouched(x, m)' PROVE FieldOwned(x, m)'
  <2>1. cause[x] = "none" /\ Claims(job) /\ file[x] # None /\ file[x].src = job.old
        /\ mem[x].src = job.old
    BY <1>1, <1>7 DEF Untouched, Claims
  <2>2. job.new.fields[m] \in Vals /\ job.new.fields[m] # None
    BY <1>2, <1>3, <1>7, NoneApart DEF Untouched
  <2>3. ASSUME m \notin new PROVE Owns(mem[x], m)
    <3>1. Untouched(x, m)
      BY <1>3, <1>7, <2>1, <2>3 DEF Untouched
    <3>2. FieldOwned(x, m)
      BY DEF OwnershipInv, OwnersInv
    <3> QED BY <1>0, <1>1, <2>1, <3>1, <3>2 DEF FieldOwned, Has
  <2>4. Proves(job.ok, m, job.new.fields[m])
    BY <2>1, <2>2, <2>3 DEF Claims
  <2>5. mem'[x] # None /\ mem'[x].src = job.old
    <3>1. wrote[x] \in Values
      BY <1>2 DEF Values
    <3> QED BY <1>1, <1>2, <1>5, <2>1, <3>1, StateFacts
  <2>6. ASSUME Has(mem[x], x, m)' PROVE Owns(mem'[x], m)
    <3>1. m \notin new
      BY <1>3, <2>5, <2>6 DEF Has
    <3>2. Owns(mem[x], m)
      BY <2>3, <3>1
    <3>3. Proves(job.err, m, mem[x].src.fields[m]) /\ mem[x].src.fields[m] # None
      BY <2>1, <3>2, OwnsProves DEF Claims
    <3> QED BY <1>2, <1>5, <3>2, <3>3, StateOwns
  <2>7. ~Unwritten(x)'
    BY <1>1, <1>3 DEF Unwritten
  <2> QED BY <1>1, <1>3, <2>4, <2>6, <2>7 DEF FieldOwned
<1> QED BY <1>6, <1>7 DEF OwnersInv, FieldOwned

LEMMA RenameOwned == ASSUME OwnershipInv, Rename PROVE LogInv' /\ OwnersInv'
<1>1. /\ Replace /\ phase = "rename" /\ phase' = "reread"
      /\ UNCHANGED <<journal, saved, inodes, again, cause, mem, job, late>>
  BY DEF Rename, Replace, Goto, stores
<1>2. phase \in Writing /\ job.new # job.old
  BY <1>1 DEF Writing, OwnershipInv, WritebackInv, JobInv
<1>3. (cause[job.doc] = "none" => Claims(job))' /\ (job.back = "restore" => Spoiled)'
  BY <1>1, <1>2 DEF OwnershipInv, LogInv, Claims, Spoiled
<1>4. LogInv'
  BY <1>1, <1>2, <1>3 DEF OwnershipInv, LogInv, Pending
<1> QED BY <1>1, <1>4, ReplaceOwned

LEMMA RenameUnsyncedOwned == ASSUME OwnershipInv, RenameUnsynced PROVE LogInv' /\ OwnersInv'
<1>1. /\ Replace /\ phase = "rename" /\ phase' = job.back
      /\ mem' = [mem EXCEPT ![job.doc] = State(mem[job.doc].src, job.err)]
      /\ UNCHANGED <<journal, saved, inodes, again, cause>>
  BY DEF RenameUnsynced, Replace, Goto, stores
<1>2. phase \in Writing
  BY <1>1 DEF Writing
<1>3. phase' \in Loops
  BY <1>1, <1>2, WritingFacts, JobTypes DEF OwnershipInv, WritebackInv
<1>4. LogInv'
  BY <1>1, <1>2, <1>3, WritingFacts DEF OwnershipInv, LogInv, Pending, Loops, Writing, Spoiled
<1> QED BY <1>1, <1>3, <1>4, ReplaceOwned DEF Loops

-----------------------------------------------------------------------------
(* What the modules compute *)

\* A patch proves a value that it writes, or that was proved before.
LEMMA PatchClaims ==
  ASSUME WritebackInv, NEW d \in todo, phase = "apply", NEW j,
         j = [doc |-> d, old |-> mem[d].src, new |-> With(mem[d].src, module, NewField(d)),
              ok |-> [mem[d].entry EXCEPT ![module] = NewEntry(d, Proof(d))],
              err |-> [mem[d].entry EXCEPT ![module] = Refusal(d)],
              guarded |-> TRUE, back |-> "apply"]
  PROVE  Claims(j)
<1>1. /\ d \in Docs /\ mem[d] # None /\ mem[d] \in Stored /\ mem[d].src \in Source
      /\ mem[d].entry \in Entries /\ module \in Mods
  BY DEF WritebackInv, DomInv, Indexed, DataOK, Index, Stored, FlowOK
<1>2. \A m \in Mods : j.new.fields[m] = IF m = module THEN NewField(d) ELSE j.old.fields[m]
  BY <1>1, OutcomeTypes DEF With, Source, Fields
<1>3. /\ \A m \in Mods : j.ok[m] = IF m = module THEN NewEntry(d, Proof(d)) ELSE mem[d].entry[m]
      /\ \A m \in Mods : j.err[m] = IF m = module THEN Refusal(d) ELSE mem[d].entry[m]
  BY <1>1 DEF Entries
<1>4. ASSUME NEW m \in Mods, Owns(mem[d], m) PROVE Proves(j.err, m, j.old.fields[m])
  <2>1. Proves(mem[d].entry, m, mem[d].src.fields[m])
    BY <1>4, OwnsProves
  <2>2. CASE m = module
    <3>1. Mine(d) /\ Refusal(d).proof = Old(d).proof
      BY <1>4, <2>2 DEF Mine, Refusal
    <3>2. Refusal(d) # None
      <4>1. Refusal(d) \in Computed
        <5>1. Old(d) \in Computed
          BY <1>1, <2>1, <2>2 DEF Old, Entries, Proves
        <5> QED BY <1>1, <3>1, <5>1, OutcomeTypes DEF Refusal, Computed
      <4> QED BY <4>1, NoneApart
    <3> QED BY <1>3, <2>1, <2>2, <3>1, <3>2 DEF Proves, Old
  <2>3. CASE m # module
    BY <1>3, <2>1, <2>3 DEF Proves
  <2> QED BY <2>2, <2>3
<1>5. ASSUME NEW m \in Mods, j.new.fields[m] # None,
             j.new.fields[m] # j.old.fields[m] \/ Owns(mem[d], m)
      PROVE  Proves(j.ok, m, j.new.fields[m])
  <2>1. CASE m # module
    BY <1>2, <1>3, <1>5, <2>1, OwnsProves DEF Proves
  <2>2. CASE m = module
    <3>1. Sets(d)
      BY <1>2, <1>5, <2>2 DEF NewField, Unsets, Mine
    <3>2. j.new.fields[m] = Value(d) /\ Proof(d) = Value(d)
      BY <1>2, <1>5, <2>2, <3>1 DEF NewField, Proof, Mine
    <3>3. NewEntry(d, Proof(d)) # None /\ NewEntry(d, Proof(d)).proof = Proof(d)
      <4>1. NewEntry(d, Proof(d)) \in Computed
        BY <1>1, <3>1, OutcomeTypes DEF NewEntry, Sets, Computed
      <4> QED BY <3>1, <4>1, NoneApart DEF NewEntry, Sets
    <3> QED BY <1>3, <2>2, <3>2, <3>3 DEF Proves
  <2> QED BY <2>1, <2>2
<1> QED BY <1>4, <1>5 DEF Claims

LEMMA PatchOwned == ASSUME OwnershipInv, NEW d \in Docs, Patch(d) PROVE LogInv' /\ OwnersInv'
<1> DEFINE j == [doc |-> d, old |-> mem[d].src, new |-> With(mem[d].src, module, NewField(d)),
                 ok |-> [mem[d].entry EXCEPT ![module] = NewEntry(d, Proof(d))],
                 err |-> [mem[d].entry EXCEPT ![module] = Refusal(d)],
                 guarded |-> TRUE, back |-> "apply"]
<1>1. /\ phase = "apply" /\ d \in todo /\ StartWrite(j, MayPatch(d))
      /\ UNCHANGED <<file, saved, wrote, late, touched, cause>>
  BY DEF Patch, world
<1>2. Base(j) /\ Claims(j) /\ j.back = phase
  BY <1>1, PatchJob, PatchClaims DEF OwnershipInv
<1>3. MayPatch(d) \in BOOLEAN
  BY DEF MayPatch, Sets, Defined, Mine, Owns
<1>4. phase \in Loops
  BY <1>1 DEF Loops
<1> HIDE DEF j
<1> QED BY <1>1, <1>2, <1>3, <1>4, StartWriteOwned

\* Taking fields back gives up the proof of a value only with the value.
LEMMA TakeBackOwned ==
  ASSUME OwnershipInv, NEW d \in Docs, NEW src \in Source, NEW entry \in Entries,
         NEW ms \in SUBSET Mods, NEW fp \in [Mods -> Defs \cup {None}],
         Proven(entry, wrote[d]), phase \in Loops, TakeBack(d, src, entry, ms, fp, phase),
         Spoiled \/ (src = mem[d].src /\ entry = mem[d].entry)
  PROVE  LogInv' /\ OwnersInv'
<1> DEFINE own == {m \in ms : Owns([src |-> src, entry |-> entry], m)}
           en == [m \in Mods |-> IF m \in ms THEN [fp |-> fp[m], val |-> None, proof |-> None]
                                 ELSE entry[m]]
           err == [m \in Mods |-> IF m \in own THEN [en[m] EXCEPT !.proof = entry[m].proof]
                                  ELSE en[m]]
           j == [doc |-> d, old |-> src,
                 new |-> [src EXCEPT !.fields = [m \in Mods |-> IF m \in own THEN None ELSE @[m]]],
                 ok |-> en, err |-> err, guarded |-> FALSE, back |-> phase]
<1>1. /\ d \in todo /\ mem[d] # None /\ mem[d].src \in Source /\ wrote[d] \in Values
      /\ mem[d].entry \in Entries /\ mem \in Index
      /\ UNCHANGED <<file, saved, wrote, late, touched, cause>>
  BY DEF TakeBack, OwnershipInv, WritebackInv, DomInv, Indexed, DataOK, Index, Stored, world
<1>2. \A m \in own : /\ entry[m] # None /\ entry[m] \in Computed /\ entry[m].proof \in Vals
                     /\ entry[m].proof \in wrote[d][m] /\ src.fields[m] = entry[m].proof
  <2>1. [src |-> src, entry |-> entry] \in Stored
    BY DEF Stored
  <2> QED BY <1>1, <2>1, OwnedFacts
<1>3. \A m \in Mods : /\ en[m] \in Computed \cup {None}
                      /\ m \in ms => en[m] # None /\ en[m].proof = None
                      /\ m \notin ms => en[m] = entry[m]
  BY NoneApart DEF Entries, Computed
<1>4. en \in Entries /\ Proven(en, wrote[d])
  BY <1>3 DEF Proven, Entries
<1>5. \A m \in Mods : Owns([src |-> src, entry |-> entry], m) =>
        /\ Proves(entry, m, src.fields[m]) /\ src.fields[m] # None
  BY OwnsProves
<1>6. CASE own = {}
  <2>1. /\ mem' = [mem EXCEPT ![d] = State(mem[d].src, en)]
        /\ UNCHANGED <<journal, job, phase, inodes, again>>
    BY <1>6 DEF TakeBack
  <2>2. LogInv'
    <3>1. phase \notin {"none", "recover", "finish", "rename", "reread"} \cup Writing
      BY DEF Loops, Writing
    <3> QED BY <1>1, <2>1, <3>1 DEF OwnershipInv, LogInv, Pending, Spoiled
  <2>3. /\ mem'[d] = State(mem[d].src, en) /\ mem'[d] # None /\ mem'[d].src = mem[d].src
        /\ \A x \in Docs : x # d => mem'[x] = mem[x]
    <3> HIDE DEF en
    <3> QED BY <1>1, <1>4, <2>1, StateFacts DEF Index
  <2>4. ASSUME NEW x \in Docs, NEW m \in Mods PROVE FieldOwned(x, m)'
    <3>1. FieldOwned(x, m) /\ phase \notin {"none", "recover"}
      BY DEF OwnershipInv, OwnersInv, Loops
    <3>2. ASSUME x = d, Untouched(x, m), Has(mem[x], x, m) PROVE Owns(mem'[x], m)
      <4>1. Owns(mem[d], m) /\ src = mem[d].src /\ entry = mem[d].entry
        BY <3>1, <3>2 DEF FieldOwned, Untouched, Spoiled
      <4>2. Owns([src |-> src, entry |-> entry], m)
        BY <4>1 DEF Owns
      <4>3. m \notin ms /\ Proves(entry, m, src.fields[m]) /\ src.fields[m] # None
        BY <1>5, <1>6, <4>2
      <4>4. Proves(en, m, mem[d].src.fields[m])
        BY <1>3, <4>1, <4>3 DEF Proves
      <4> HIDE DEF en
      <4> QED BY <1>1, <1>4, <2>3, <3>2, <4>1, <4>3, <4>4, StateOwns
    <3> HIDE DEF en
    <3> QED BY <1>1, <2>1, <2>3, <3>1, <3>2, FieldKept
  <2> QED BY <2>2, <2>4 DEF OwnersInv
<1>7. CASE own # {}
  <2>1. StartWrite(j, TRUE)
    BY <1>7 DEF TakeBack
  <2>2. /\ j.new \in Source /\ j.new.text = j.old.text
        /\ \A m \in Mods : j.new.fields[m] = IF m \in own THEN None ELSE src.fields[m]
    BY DEF Source, Fields
  <2>3. \A m \in Mods : /\ err[m] \in Computed \cup {None}
                        /\ m \in own => err[m].proof = entry[m].proof /\ err[m] # None
                        /\ m \notin own => err[m] = en[m]
    BY <1>2, <1>3, NoneApart DEF Computed
  <2>4. err \in Entries /\ Proven(err, wrote[d])
    <3>1. \A m \in Mods : err[m] # None /\ err[m].proof # None => err[m].proof \in wrote[d][m]
      BY <1>2, <1>4, <2>3 DEF Proven
    <3> QED BY <2>3, <3>1 DEF Proven, Entries
  <2>5. Base(j)
    <3>1. j \in Job
      BY <1>4, <2>2, <2>4 DEF Job, Loops
    <3> QED BY <1>1, <2>2, <2>4, <3>1 DEF Base
  <2>6. ASSUME cause[d] = "none" PROVE Claims(j)
    <3>1. src = mem[d].src /\ entry = mem[d].entry
      BY <2>6 DEF Spoiled
    <3>2. \A m \in Mods : Owns(mem[d], m) <=> Owns([src |-> src, entry |-> entry], m)
      BY <3>1 DEF Owns
    <3>3. ASSUME NEW m \in Mods, Owns(mem[d], m) PROVE Proves(j.err, m, j.old.fields[m])
      <4>1. Proves(entry, m, src.fields[m])
        BY <1>5, <3>2, <3>3
      <4> QED BY <1>3, <2>3, <3>2, <3>3, <4>1 DEF Proves
    <3>4. ASSUME NEW m \in Mods, j.new.fields[m] # None,
                 j.new.fields[m] # j.old.fields[m] \/ Owns(mem[d], m)
          PROVE  Proves(j.ok, m, j.new.fields[m])
      <4>1. m \notin own /\ Owns(mem[d], m)
        BY <2>2, <3>4
      <4>2. m \notin ms /\ Proves(entry, m, src.fields[m])
        BY <1>5, <3>2, <4>1
      <4> QED BY <1>3, <2>2, <4>1, <4>2 DEF Proves
    <3> HIDE DEF en, err
    <3> QED BY <3>1, <3>3, <3>4 DEF Claims
  <2> HIDE DEF j
  <2> QED BY <1>1, <2>1, <2>5, <2>6, StartWriteOwned DEF j
<1> QED BY <1>6, <1>7

LEMMA SuppressOwned == ASSUME OwnershipInv, NEW d \in Docs, Suppress(d) PROVE LogInv' /\ OwnersInv'
<1> DEFINE fp == [Fp(mem[d]) EXCEPT ![module] = IF Defined THEN seen[module] ELSE @]
<1>1. phase = "suppress" /\ TakeBack(d, mem[d].src, mem[d].entry, {module}, fp, phase)
  BY DEF Suppress
<1>2. mem[d] # None /\ module \in Mods
  BY <1>1 DEF TakeBack, OwnershipInv, WritebackInv, DomInv, Indexed, FlowOK
<1>3. fp \in [Mods -> Defs \cup {None}]
  <2>1. Fp(mem[d]) \in [Mods -> Defs \cup {None}]
    BY <1>2, DocFacts, FpType DEF OwnershipInv
  <2>2. Defined => seen[module] \in Defs
    BY <1>2, OutcomeTypes DEF OwnershipInv
  <2> QED BY <1>2, <2>1, <2>2
<1>4. phase \in Loops
  BY <1>1 DEF Loops
<1> HIDE DEF fp
<1> QED BY <1>1, <1>2, <1>3, <1>4, DocFacts, TakeBackOwned DEF OwnershipInv

LEMMA RestoreOwned == ASSUME OwnershipInv, NEW d \in Docs, Restore(d) PROVE LogInv' /\ OwnersInv'
<1> DEFINE ms == IF Owns(snap[d], module) \/ d \in owners THEN {module} ELSE {}
<1>1. phase = "restore" /\ TakeBack(d, snap[d].src, snap[d].entry, ms, Fp(snap[d]), phase)
  BY DEF Restore
<1>2. snap[d] # None /\ ms \in SUBSET Mods /\ Spoiled
  BY <1>1 DEF TakeBack, OwnershipInv, WritebackInv, DomInv, Indexed, FlowOK, LogInv
<1>3. phase \in Loops
  BY <1>1 DEF Loops
<1> HIDE DEF ms
<1> QED BY <1>1, <1>2, <1>3, DocFacts, FpType, TakeBackOwned DEF OwnershipInv

LEMMA DestabilizeOwned ==
  ASSUME OwnershipInv, NEW d \in Docs, Destabilize(d) PROVE LogInv' /\ OwnersInv'
<1>1. phase = "unstable" /\ TakeBack(d, mem[d].src, mem[d].entry, Owned(d), Fp(mem[d]), phase)
  BY DEF Destabilize
<1>2. mem[d] # None /\ Owned(d) \in SUBSET Mods
  BY <1>1 DEF TakeBack, OwnershipInv, WritebackInv, DomInv, Indexed, Owned
<1>3. phase \in Loops
  BY <1>1 DEF Loops
<1> QED BY <1>1, <1>2, <1>3, DocFacts, FpType, TakeBackOwned DEF OwnershipInv

-----------------------------------------------------------------------------
(* The ends of a run, and the user *)

\* A new run starts from the saved index, whose proofs outlast the source being
\* read again.
LEMMA BeginOwned == ASSUME OwnershipInv, NEW ds \in Events, Begin(ds) PROVE LogInv' /\ OwnersInv'
<1>1. /\ phase = "none" /\ again = {} /\ phase' = IF Pending = {} THEN "attempt" ELSE "recover"
      /\ mem' = [d \in Docs |-> IF d \in ds THEN Refreshed(saved[d], On(d)) ELSE saved[d]]
      /\ UNCHANGED <<file, saved, journal, job, inodes, wrote, touched, again, cause, late>>
  BY DEF Begin, Goto, OwnershipInv, LogInv, world, stores, history
<1>2. LogInv'
  BY <1>1 DEF OwnershipInv, LogInv, Writing, Pending
<1>3. ASSUME NEW d \in Docs, NEW m \in Mods, Untouched(d, m), Unwritten(d)
      PROVE  /\ Has(saved[d], d, m) /\ Owns(saved[d], m)
             /\ Has(mem'[d], d, m) /\ Owns(mem'[d], m)
  <2>1. Has(saved[d], d, m) /\ Owns(saved[d], m)
    BY <1>1, <1>3 DEF OwnershipInv, OwnersInv, FieldOwned
  <2>2. CASE mem'[d] = saved[d]
    BY <2>1, <2>2
  <2>3. CASE mem'[d] = Refreshed(saved[d], On(d))
    <3>1. /\ file[d].src \in Source /\ On(d) = file[d].src /\ On(d) # None
          /\ file[d].src.fields[m] # None
      BY <1>3, WroteVals, NoneApart DEF OwnershipInv
    <3>2. saved[d].entry \in Entries /\ saved[d] # None /\ wrote[d] \in Values
      BY <2>1 DEF OwnershipInv, WritebackInv, DataOK, Index, Stored, Has
    <3>3. mem'[d] = State(file[d].src, saved[d].entry)
      BY <2>3, <3>1, <3>2 DEF Refreshed
    <3>4. Proves(saved[d].entry, m, file[d].src.fields[m])
      BY <2>1, OwnsProves DEF Has
    <3> QED BY <2>1, <3>1, <3>2, <3>3, <3>4, StateOwns, StateFacts DEF Has
  <2> QED BY <1>1, <2>2, <2>3
<1>4. ASSUME NEW d \in Docs, NEW m \in Mods PROVE FieldOwned(d, m)'
  <2>1. FieldOwned(d, m) /\ (phase' # "recover" => Unwritten(d))
    BY <1>1 DEF OwnershipInv, OwnersInv, Pending, Unwritten
  <2>2. Untouched(d, m)' <=> Untouched(d, m)
    BY <1>1 DEF Untouched
  <2>3. Unwritten(d)' <=> Unwritten(d)
    BY <1>1 DEF Unwritten
  <2> QED BY <1>1, <1>3, <2>1, <2>2, <2>3 DEF FieldOwned, Has
<1> QED BY <1>2, <1>4 DEF OwnersInv

\* Recovery takes the proof from the intent for the intent's file, and for every
\* other document keeps the one there is.
LEMMA RecoverOwned == ASSUME OwnershipInv, Recover PROVE LogInv' /\ OwnersInv'
<1>1. /\ phase = "recover" /\ phase' = "attempt" /\ again = {}
      /\ mem' = [d \in Docs |-> Recovered(d)]
      /\ cause' = [d \in Docs |-> IF cause[d] = "none" /\ Superseded(d) THEN "superseded" ELSE cause[d]]
      /\ UNCHANGED <<file, saved, journal, job, inodes, wrote, touched, again, late>>
  BY DEF Recover, Goto, OwnershipInv, LogInv, world, stores
<1>2. LogInv'
  BY <1>1 DEF OwnershipInv, LogInv, Writing, Pending
<1>3. ASSUME NEW d \in Docs, NEW m \in Mods, Untouched(d, m)' PROVE FieldOwned(d, m)'
  <2>1. FieldOwned(d, m) /\ Untouched(d, m) /\ ~Superseded(d)
    BY <1>1, <1>3 DEF OwnershipInv, OwnersInv, Untouched
  <2>2. Unwritten(d)' <=> Unwritten(d)
    BY <1>1 DEF Unwritten
  <2>3. /\ file[d] \in Files /\ file[d] # None /\ file[d].src \in Source /\ On(d) = file[d].src
        /\ On(d) # None /\ file[d].src.fields[m] # None /\ wrote[d] \in Values
    BY <2>1, WroteVals, NoneApart DEF OwnershipInv, WritebackInv, DataOK
  <2>4. CASE journal[d] = None \/ mem[d] = None
    <3>1. mem'[d] = mem[d]
      BY <1>1, <2>4 DEF Recovered
    <3>2. mem[d] # None => Unwritten(d)
      BY <2>4 DEF Unwritten
    <3> QED BY <1>1, <2>1, <2>2, <3>1, <3>2 DEF FieldOwned, Has
  <2>5. CASE /\ journal[d] # None /\ mem[d] # None
             /\ file[d] = [src |-> journal[d].after, ino |-> journal[d].ino]
    <3>1. ~Unwritten(d) /\ mem[d].src \in {journal[d].before, journal[d].after}
      BY <2>1, <2>3, <2>5 DEF Superseded, Unwritten
    <3>2. mem'[d] = State(file[d].src, journal[d].entry)
      BY <1>1, <2>3, <2>5, <3>1 DEF Recovered
    <3>3. /\ Proves(journal[d].entry, m, file[d].src.fields[m]) /\ journal[d].entry \in Entries
          /\ file[d].src = journal[d].after
      BY <2>1, <2>5, <3>1 DEF FieldOwned, OwnershipInv, WritebackInv, DataOK, Intent
    <3>4. Owns(mem'[d], m)
      BY <2>3, <3>2, <3>3, StateOwns
    <3> QED BY <1>1, <2>2, <3>1, <3>3, <3>4 DEF FieldOwned
  <2>6. CASE /\ journal[d] # None /\ mem[d] # None
             /\ file[d] # [src |-> journal[d].after, ino |-> journal[d].ino]
    <3>1. file[d] = [src |-> file[d].src, ino |-> file[d].ino]
      BY <2>3 DEF Files
    <3>2. Unwritten(d)
      BY <2>1, <2>6, <3>1 DEF FieldOwned, Unwritten
    <3>3. Has(mem[d], d, m) /\ Owns(mem[d], m) /\ Has(saved[d], d, m) /\ Owns(saved[d], m)
      BY <1>1, <2>1, <3>2 DEF FieldOwned
    <3>4. mem'[d] = State(file[d].src, mem[d].entry)
      BY <1>1, <2>3, <2>6 DEF Recovered, Refreshed
    <3>5. mem[d].entry \in Entries
      BY <2>6 DEF OwnershipInv, WritebackInv, DataOK, Index, Stored
    <3>6. mem'[d] # None /\ mem'[d].src = file[d].src
      BY <2>3, <3>4, <3>5, StateFacts
    <3>7. Owns(mem'[d], m)
      BY <2>3, <3>3, <3>4, <3>5, OwnsProves, StateOwns DEF Has
    <3> QED BY <1>1, <2>2, <3>2, <3>3, <3>6, <3>7 DEF FieldOwned, Has
  <2> QED BY <2>4, <2>5, <2>6
<1> QED BY <1>2, <1>3 DEF OwnersInv, FieldOwned

\* The log goes once the saved index has the sources it is about, or stays as it is.
LEMMA FinishOwned == ASSUME OwnershipInv, Finish PROVE LogInv' /\ OwnersInv'
<1>1. /\ phase = "finish" /\ phase' = "none" /\ again' = {} /\ saved = mem
      /\ UNCHANGED <<file, saved, mem, inodes, wrote, touched, late>>
  BY DEF Finish, Over, Goto, OwnershipInv, LogInv, world
<1>2. LogInv'
  BY <1>1 DEF LogInv, Writing
<1>3. ASSUME NEW d \in Docs, NEW m \in Mods, Untouched(d, m)' PROVE FieldOwned(d, m)'
  <2>1. cause[d] = "none"
    BY <1>3 DEF Finish, Untouched
  <2>2. FieldOwned(d, m) /\ Untouched(d, m)
    BY <1>1, <1>3, <2>1 DEF OwnershipInv, OwnersInv, Untouched
  <2>3. CASE UNCHANGED journal
    <3>1. d \notin again \/ journal[d] = None
      BY <1>3, <2>3 DEF Finish, Untouched, Pending
    <3>2. d \notin again
      BY <3>1 DEF OwnershipInv, LogInv, Pending
    <3> QED BY <1>1, <2>2, <2>3, <3>2 DEF FieldOwned, Unwritten, Has
  <2>4. CASE /\ \A x \in Pending : On(x) = IF mem[x] = None THEN None ELSE mem[x].src
             /\ journal' = [x \in Docs |-> None]
    <3>1. Unwritten(d)'
      BY <2>4 DEF Unwritten
    <3>2. Has(saved[d], d, m) /\ Owns(saved[d], m)
      <4>1. CASE d \in Pending
        <5>1. On(d) = file[d].src /\ On(d) # None
          BY <2>2, WroteVals, NoneApart DEF OwnershipInv
        <5>2. Has(mem[d], d, m)
          BY <2>4, <4>1, <5>1 DEF Has
        <5> QED BY <1>1, <2>2, <5>2 DEF FieldOwned
      <4>2. CASE d \notin Pending
        <5>1. Unwritten(d) /\ d \notin again
          BY <4>2 DEF Unwritten, Pending, OwnershipInv, LogInv
        <5> QED BY <2>2, <5>1 DEF FieldOwned
      <4> QED BY <4>1, <4>2
    <3> QED BY <1>1, <3>1, <3>2 DEF FieldOwned, Has
  <2> QED BY <2>3, <2>4 DEF Finish
<1> QED BY <1>2, <1>3 DEF OwnersInv, FieldOwned

\* A run that ends early leaves the saved index and the log.
LEMMA CrashOwned == ASSUME OwnershipInv, Crash PROVE LogInv' /\ OwnersInv'
<1>1. /\ phase' = "none" /\ again' = {}
      /\ cause' = [d \in Docs |-> IF d \in again THEN "twice" ELSE cause[d]]
      /\ UNCHANGED <<file, saved, journal, inodes, wrote, touched, late>>
  BY DEF Crash, Over, Goto, world, stores
<1>2. LogInv'
  BY <1>1 DEF LogInv, Writing
<1>3. ASSUME NEW d \in Docs, NEW m \in Mods PROVE FieldOwned(d, m)'
  <2>1. FieldOwned(d, m)
    BY DEF OwnershipInv, OwnersInv
  <2> QED BY <1>1, <2>1 DEF FieldOwned, Untouched, Unwritten, Has
<1> QED BY <1>2, <1>3 DEF OwnersInv

\* An edit that leaves a field alone, of a document without an intent, leaves its
\* proof where it is.
LEMMA ChangedOwned ==
  ASSUME OwnershipInv, NEW d \in Docs, NEW f \in Files \cup {None}, Changed(d, f)
  PROVE  LogInv' /\ OwnersInv'
<1>1. /\ file' = [file EXCEPT ![d] = f]
      /\ touched' = [touched EXCEPT ![d] = @ \cup
           {m \in Mods : file[d] = None \/ f = None \/ file[d].src.fields[m] # f.src.fields[m]}]
      /\ cause' = IF journal[d] = None THEN cause ELSE [cause EXCEPT ![d] = "edited"]
      /\ late' = (late \/ (phase = "rename" /\ d = job.doc))
      /\ UNCHANGED <<saved, journal, mem, phase, job, inodes, wrote, again>>
  BY DEF Changed, stores
<1>2. \A x \in Docs : x # d => file'[x] = file[x] /\ touched'[x] = touched[x]
  BY <1>1 DEF OwnershipInv, WritebackInv, DataOK, FlowOK
<1>3. \A x \in Docs : cause'[x] = "none" => cause[x] = "none" /\ (x = d => journal[d] = None)
  BY <1>1 DEF OwnershipInv, WritebackInv, FlowOK
<1>4. LogInv'
  <2>1. phase \in Writing => (cause[job.doc] = "none" => Claims(job))' /\ job.doc \in Docs
    <3>1. phase \in Writing => job.doc \in Docs
      BY WritingFacts, JobTypes DEF OwnershipInv, WritebackInv
    <3> QED BY <1>1, <1>3, <3>1 DEF OwnershipInv, LogInv, Claims
  <2>2. phase = "rename" => journal[job.doc] # None
    BY DEF OwnershipInv, WritebackInv, JobInv, LogInv, Writing
  <2>3. phase = "rename" /\ late' => cause'[job.doc] # "none"
    BY <1>1, <1>3, <2>1, <2>2 DEF OwnershipInv, LogInv, Writing
  <2>4. Spoiled => Spoiled'
    BY <1>3 DEF Spoiled
  <2> QED BY <1>1, <2>1, <2>3, <2>4 DEF OwnershipInv, LogInv, Pending
<1>5. ASSUME NEW x \in Docs, NEW m \in Mods, Untouched(x, m)' PROVE FieldOwned(x, m)'
  <2>1. FieldOwned(x, m) /\ cause[x] = "none"
    BY <1>3, <1>5 DEF OwnershipInv, OwnersInv, Untouched
  <2>2. CASE x # d
    BY <1>1, <1>2, <2>1, <2>2 DEF FieldOwned, Untouched, Has, Unwritten
  <2>3. CASE x = d
    <3>1. journal[d] = None /\ file'[d] = f
      BY <1>1, <1>3, <1>5, <2>3 DEF Untouched, OwnershipInv, WritebackInv, DataOK
    <3>2. /\ m \notin touched[d] /\ file[d] # None /\ f # None
          /\ file[d].src.fields[m] = f.src.fields[m]
      BY <1>1, <1>5, <2>3 DEF Untouched, OwnershipInv, WritebackInv, FlowOK
    <3>3. Untouched(d, m)
      BY <1>1, <1>5, <2>1, <2>3, <3>1, <3>2 DEF Untouched
    <3>4. Unwritten(d) /\ Unwritten(d)'
      BY <1>1, <3>1 DEF Unwritten
    <3> QED BY <1>1, <2>1, <2>3, <3>1, <3>2, <3>3, <3>4 DEF FieldOwned, Has
  <2> QED BY <2>2, <2>3
<1> QED BY <1>4, <1>5 DEF OwnersInv, FieldOwned

LEMMA DeleteOwned == ASSUME OwnershipInv, NEW d \in Docs, Delete(d) PROVE LogInv' /\ OwnersInv'
  BY ChangedOwned DEF Delete

LEMMA EditOwned ==
  ASSUME OwnershipInv, NEW d \in Docs, NEW src \in Source, Edit(d, src) PROVE LogInv' /\ OwnersInv'
<1>1. PICK ino \in {0, IF file[d] = None THEN 0 ELSE file[d].ino} : Changed(d, [src |-> src, ino |-> ino])
  BY DEF Edit
<1>2. file[d] # None => file[d].ino \in Nat
  BY DEF OwnershipInv, WritebackInv, DataOK, Files
<1>3. [src |-> src, ino |-> ino] \in Files
  BY <1>2 DEF Files
<1> QED BY <1>1, <1>3, ChangedOwned

\* Steps that touch none of the state the ownership is about.
LEMMA SameOwned ==
  ASSUME OwnershipInv, UNCHANGED <<file, saved, journal, mem, phase, job, inodes, wrote, touched,
                                   again, cause, late>>
  PROVE  LogInv' /\ OwnersInv'
<1>1. (phase \in Writing /\ cause[job.doc] = "none" => Claims(job))'
  BY DEF OwnershipInv, LogInv, Claims
<1>2. LogInv'
  BY <1>1 DEF OwnershipInv, LogInv, Pending, Spoiled
<1>3. OwnersInv'
  BY DEF OwnershipInv, OwnersInv, FieldOwned, Untouched, Has, Unwritten
<1> QED BY <1>2, <1>3

-----------------------------------------------------------------------------
(* Theorem *)

LEMMA OwnershipStep == OwnershipInv /\ [Next]_vars => OwnershipInv'
<1> SUFFICES ASSUME OwnershipInv, [Next]_vars PROVE OwnershipInv'
  OBVIOUS
<1>1. WritebackInv'
  BY InvStep DEF OwnershipInv
<1>2. CASE Modules
  <2>1. LogInv' /\ OwnersInv'
    BY <1>2, RecoverOwned, AttemptOwned, LoadOwned, EvaluateOwned, AppliedOwned,
       DependencyChangedOwned, LeaveOwned, CheckOwned, GuardOwned, CompareOwned, RenameOwned,
       RereadOwned, SaveOwned, FinishOwned, PatchOwned, SuppressOwned, RestoreOwned,
       DestabilizeOwned DEF Modules
  <2> QED BY <1>1, <2>1 DEF OwnershipInv
<1>3. CASE Failures
  BY <1>1, <1>3, CrashOwned, RenameUnsyncedOwned, ExecutionFailsOwned DEF Failures, OwnershipInv
<1>4. CASE Users
  <2>1. Edited \subseteq Docs
    BY WritebackAssumption
  <2>2. ASSUME NEW s \in Schemas, ChangeSchema(s) PROVE LogInv' /\ OwnersInv'
    BY <2>2, SameOwned DEF ChangeSchema, stores
  <2>3. LogInv' /\ OwnersInv'
    BY <1>4, <2>1, <2>2, DeleteOwned, EditOwned, BeginOwned DEF Users
  <2> QED BY <1>1, <2>3 DEF OwnershipInv
<1>5. CASE UNCHANGED vars
  BY <1>1, <1>5, SameOwned DEF vars, world, stores, history, OwnershipInv
<1> QED BY <1>2, <1>3, <1>4, <1>5 DEF Next

\* No interruption makes a module forget a value it put into a document
\* (recover_computed_intents, finish_computed_intents): between runs, with no intent
\* left, the saved index proves it, whatever runs, failures, crashes and changes of
\* the overlay came before, with the exceptions OwnershipKept names.
THEOREM OwnershipStays == Spec => []OwnershipKept
<1>1. OwnershipInv => OwnershipKept
  <2> SUFFICES ASSUME OwnershipInv, phase = "none", Pending = {}, NEW d \in Docs, NEW m \in Mods,
                      file[d] # None, m \notin touched[d],
                      file[d].src.fields[m] \in wrote[d][m], cause[d] = "none"
               PROVE  Owns(saved[d], m)
    BY DEF OwnershipKept, Kept
  <2>1. Unwritten(d) /\ d \notin again /\ Untouched(d, m)
    BY DEF Unwritten, Untouched, Pending, OwnershipInv, LogInv
  <2> QED BY <2>1 DEF OwnershipInv, OwnersInv, FieldOwned
<1>2. Init => OwnershipInv
  BY InvInit, OwnershipInit DEF OwnershipInv
<1> QED BY <1>1, <1>2, OwnershipStep, PTL DEF Spec

-----------------------------------------------------------------------------
(* A run saves values of one overlay *)

\* An entry without a value, or with one of the overlay the attempt began with.
Fits(c, m) == c = None \/ c.val = None \/ (before # Broken /\ c.fp = before[m])
Settled(d, m) == mem[d] = None \/ Fits(mem[d].entry[m], m)

\* The module the attempt is through with, and the documents whose turn is to come.
Done == IF module = "formula" THEN {} ELSE {"formula"}
Left == todo \cup IF phase \in Writing THEN {job.doc} ELSE {}

Visiting == {"apply", "suppress"} \cup Writing
Underway == {"load", "evaluate", "check", "save"} \cup Visiting

\* While the overlay is the one the attempt began with, every document is settled
\* for the modules that are through, and for the present one unless its turn is to
\* come; a write leaves it settled whether it is accepted or refused.
SettledInv ==
  /\ phase \notin {"restore", "unstable"}
  /\ phase \in Underway =>
       /\ before = schema
       /\ \A d \in Docs, m \in Done : Settled(d, m)
  /\ phase \in {"evaluate", "check"} \cup Visiting => seen = before
  /\ phase \in Visiting => \A d \in Docs \ Left : Settled(d, module)
  /\ phase \in {"check", "save"} => \A d \in Docs : Settled(d, module)
  /\ phase = "save" => module = "lookup"
  /\ phase \in Writing =>
       /\ job.back \in {"apply", "suppress"}
       /\ \A m \in Done \cup {module} : Fits(job.ok[m], m) /\ Fits(job.err[m], m)

OverlayInv == WritebackInv /\ (steady => SettledInv)

LEMMA SettledInit == Init => SettledInv
  BY DEF Init, SettledInv, Underway, Visiting, Writing

\* A stored entry fits if the one it was made of does.
LEMMA FitsKept ==
  ASSUME NEW en \in Entries, NEW src \in Source, NEW m \in Mods, Fits(en[m], m)
  PROVE  Fits(State(src, en).entry[m], m)
<1>1. Reconcile(en, src)[m] \in {en[m], [en[m] EXCEPT !.proof = None]} /\ en[m] \in Computed \cup {None}
  BY DEF Reconcile, Entries
<1>2. /\ en[m] = None => Reconcile(en, src)[m] = None
      /\ en[m] # None => Reconcile(en, src)[m].val = en[m].val /\ Reconcile(en, src)[m].fp = en[m].fp
  BY <1>1 DEF Reconcile, Computed
<1>3. State(src, en).entry[m] = Reconcile(en, src)[m]
  BY DEF State
<1> QED BY <1>2, <1>3 DEF Fits

\* Nothing of what settles a document changes outside the loops.
LEMMA SettledQuiet ==
  ASSUME WritebackInv, UNCHANGED <<mem, before>>
  PROVE  \A d \in Docs, m \in Mods : Settled(d, m)' <=> Settled(d, m)
  BY DEF Settled, Fits

\* A document has had its turn, accepted or refused: what is stored for it fits.
LEMMA VisitedStep ==
  ASSUME WritebackInv, SettledInv, phase \in Visiting, phase' \in {"apply", "suppress"},
         NEW d \in Docs, NEW src \in Source, NEW en \in Entries,
         \A m \in Done \cup {module} : Fits(en[m], m),
         mem' = [mem EXCEPT ![d] = State(src, en)],
         UNCHANGED <<schema, module, before, seen>>, Left \ {d} \subseteq todo'
  PROVE  SettledInv'
<1>1. module \in Mods /\ Done \subseteq Mods /\ Done' = Done
  BY DEF WritebackInv, FlowOK, Done, Mods
<1>2. \A x \in Docs : mem'[x] = IF x = d THEN State(src, en) ELSE mem[x]
  BY DEF WritebackInv, DataOK, Index
<1>3. ASSUME NEW m \in Done \cup {module} PROVE Settled(d, m)'
  <2>1. Fits(State(src, en).entry[m], m)
    BY <1>1, FitsKept
  <2> QED BY <1>2, <2>1 DEF Settled, Fits
<1>4. ASSUME NEW x \in Docs \ {d}, NEW m \in Mods, Settled(x, m) PROVE Settled(x, m)'
  BY <1>2, <1>4 DEF Settled, Fits
<1>5. phase \notin {"load", "check", "save"} /\ phase' \in Visiting /\ phase' \notin Writing
  BY DEF Visiting, Writing
<1>6. before = schema /\ seen = before /\ \A x \in Docs, m \in Done : Settled(x, m)
  BY DEF SettledInv, Underway
<1>7. \A x \in Docs, m \in Done : Settled(x, m)'
  BY <1>1, <1>3, <1>4, <1>6
<1>8. ASSUME NEW x \in Docs \ Left' PROVE Settled(x, module)'
  <2>1. CASE x = d
    BY <1>3, <2>1
  <2>2. CASE x # d
    <3>1. x \notin Left
      BY <1>5, <2>2 DEF Left
    <3> QED BY <1>1, <1>4, <2>2, <3>1 DEF SettledInv
  <2> QED BY <2>1, <2>2
<1> QED BY <1>1, <1>5, <1>6, <1>7, <1>8 DEF SettledInv, Writing

\* A write begins or goes on.
LEMMA WritingStep ==
  ASSUME WritebackInv, SettledInv, phase \in Visiting, phase' \in Writing,
         UNCHANGED <<schema, mem, module, before, seen>>, Left \subseteq Left',
         job'.back \in {"apply", "suppress"},
         \A m \in Done \cup {module} : Fits(job'.ok[m], m) /\ Fits(job'.err[m], m)
  PROVE  SettledInv'
<1>1. module \in Mods /\ Done \subseteq Mods /\ Done' = Done
  BY DEF WritebackInv, FlowOK, Done, Mods
<1>2. \A x \in Docs, m \in Mods : Settled(x, m)' <=> Settled(x, m)
  BY SettledQuiet
<1>3. phase' \in Visiting /\ phase' \notin {"restore", "unstable", "check", "save"}
  BY DEF Visiting, Writing
<1>4. before = schema /\ seen = before /\ \A x \in Docs, m \in Done : Settled(x, m)
  BY DEF SettledInv, Underway
<1>5. \A m \in Done' \cup {module'} : Fits(job.ok[m], m)' /\ Fits(job.err[m], m)'
  BY <1>1 DEF Fits
<1>6. \A x \in Docs \ Left' : Settled(x, module)'
  BY <1>1, <1>2 DEF SettledInv
<1>7. \A x \in Docs, m \in Done' : Settled(x, m)'
  BY <1>1, <1>2, <1>4
<1> HIDE DEF Left, Settled, Fits
<1> QED BY <1>3, <1>4, <1>5, <1>6, <1>7 DEF SettledInv

\* A write that is refused or accepted.
LEMMA EndedStep ==
  ASSUME WritebackInv, SettledInv, phase \in Writing, Refuse(job) \/ Accept,
         UNCHANGED <<schema, module, before, seen, todo>>
  PROVE  SettledInv'
<1>1. Base(job) /\ job.back \in {"apply", "suppress"}
      /\ \A m \in Done \cup {module} : Fits(job.ok[m], m) /\ Fits(job.err[m], m)
  BY DEF WritebackInv, JobInv, SettledInv
<1>2. /\ job.doc \in Docs /\ mem[job.doc].src \in Source /\ job.new \in Source
      /\ job.ok \in Entries /\ job.err \in Entries
  BY <1>1, JobTypes DEF WritebackInv
<1>3. phase \in Visiting /\ Left \ {job.doc} \subseteq todo'
  BY DEF Visiting, Left
<1>4. CASE Refuse(job)
  BY <1>1, <1>2, <1>3, <1>4, VisitedStep DEF Refuse, Goto
<1>5. CASE Accept /\ mem[job.doc].src = job.old
  BY <1>1, <1>2, <1>3, <1>5, VisitedStep DEF Accept, Goto
<1>6. CASE Accept /\ mem[job.doc].src # job.old
  BY <1>4, <1>6 DEF Accept
<1> QED BY <1>4, <1>5, <1>6

\* A write is taken up or refused at once.
LEMMA StartedStep ==
  ASSUME WritebackInv, SettledInv, phase \in {"apply", "suppress"}, NEW j, Base(j),
         NEW allowed \in BOOLEAN, StartWrite(j, allowed), j.back = phase,
         UNCHANGED <<schema, module, before, seen>>,
         \A m \in Done \cup {module} : Fits(j.ok[m], m) /\ Fits(j.err[m], m)
  PROVE  SettledInv'
<1>1. phase \in Visiting /\ phase \notin Writing /\ Left = todo /\ todo' = todo \ {j.doc}
  BY DEF Visiting, Writing, Left, StartWrite
<1>2. CASE allowed /\ On(j.doc) = j.old
  <2>1. job' = j /\ phase' = "guard" /\ mem' = mem
    BY <1>2 DEF StartWrite, Goto
  <2>2. phase' \in Writing /\ Left \subseteq Left'
    BY <1>1, <2>1 DEF Writing, Left
  <2> QED BY <1>1, <2>1, <2>2, WritingStep
<1>3. CASE ~(allowed /\ On(j.doc) = j.old)
  <2>1. mem' = [mem EXCEPT ![j.doc] = State(mem[j.doc].src, j.err)] /\ phase' = j.back
    BY <1>3 DEF StartWrite, Refuse, Goto
  <2>2. j.doc \in Docs /\ mem[j.doc].src \in Source /\ j.err \in Entries
    BY JobTypes DEF WritebackInv
  <2>3. Left \ {j.doc} \subseteq todo'
    BY <1>1
  <2> QED BY <1>1, <2>1, <2>2, <2>3, VisitedStep
<1> QED BY <1>2, <1>3

-----------------------------------------------------------------------------
(* The steps *)

\* What a module computes under the overlay of the attempt fits, and so does what
\* it leaves as it is.
LEMMA OutcomeFits ==
  ASSUME WritebackInv, seen = before, NEW d \in Docs, mem[d] # None, NEW p
  PROVE  /\ Fits(NewEntry(d, p), module) /\ Fits(Refusal(d), module)
         /\ d \notin Patched => Fits(mem[d].entry[module], module)
<1>1. Fits(NewEntry(d, p), module)
  BY DEF NewEntry, Fits, Defined
<1>2. Fits(Refusal(d), module)
  BY DEF Refusal, NewEntry, Fits, Defined
<1>3. ASSUME d \notin Patched PROVE Fits(Old(d), module)
  <2>1. d \in Indexed(mem)
    BY DEF Indexed
  <2>2. CASE ~(Defined \/ Old(d) # None)
    BY <2>2 DEF Fits
  <2>3. CASE (Defined \/ Old(d) # None) /\ module = "formula"
    <3>1. Defined /\ Old(d) # None /\ Old(d).fp = seen[module]
      BY <1>3, <2>1, <2>3 DEF Patched
    <3> QED BY <3>1 DEF Fits, Defined
  <2>4. CASE (Defined \/ Old(d) # None) /\ module # "formula"
    <3>1. Old(d) = NewEntry(d, IF Sets(d) THEN Value(d) ELSE None)
      BY <1>3, <2>1, <2>4 DEF Patched
    <3> QED BY <3>1 DEF NewEntry, Fits, Defined
  <2> QED BY <2>2, <2>3, <2>4
<1> QED BY <1>1, <1>2, <1>3 DEF Old

LEMMA EvaluateSettles == ASSUME WritebackInv, SettledInv, Evaluate PROVE SettledInv'
<1>1. /\ phase = "evaluate" /\ phase' = "apply" /\ todo' = Patched
      /\ UNCHANGED <<schema, mem, module, before, seen, job>>
  BY DEF Evaluate, Goto, world, stores
<1>2. module \in Mods /\ Done \subseteq Mods /\ Done' = Done
  BY <1>1 DEF WritebackInv, FlowOK, Done, Mods
<1>3. \A x \in Docs, m \in Mods : Settled(x, m)' <=> Settled(x, m)
  BY <1>1, SettledQuiet
<1>4. before = schema /\ seen = before /\ \A x \in Docs, m \in Done : Settled(x, m)
  BY <1>1 DEF SettledInv, Underway, Visiting
<1>5. Left' = Patched
  BY <1>1 DEF Left, Writing
<1>6. \A x \in Docs \ Left' : Settled(x, module)'
  <2>1. \A x \in Docs \ Patched : Settled(x, module)
    BY <1>4, OutcomeFits DEF Settled
  <2> QED BY <1>1, <1>2, <1>3, <1>5, <2>1
<1>7. \A x \in Docs, m \in Done' : Settled(x, m)'
  BY <1>2, <1>3, <1>4
<1> HIDE DEF Left, Settled
<1> QED BY <1>1, <1>4, <1>6, <1>7 DEF SettledInv, Visiting, Writing

LEMMA PatchSettles == ASSUME WritebackInv, SettledInv, NEW d \in Docs, Patch(d) PROVE SettledInv'
<1> DEFINE j == [doc |-> d, old |-> mem[d].src, new |-> With(mem[d].src, module, NewField(d)),
                 ok |-> [mem[d].entry EXCEPT ![module] = NewEntry(d, Proof(d))],
                 err |-> [mem[d].entry EXCEPT ![module] = Refusal(d)],
                 guarded |-> TRUE, back |-> "apply"]
<1>1. /\ phase = "apply" /\ d \in todo /\ StartWrite(j, MayPatch(d))
      /\ UNCHANGED <<schema, module, before, seen>>
  BY DEF Patch, world
<1>2. Base(j)
  BY <1>1, PatchJob
<1>3. MayPatch(d) \in BOOLEAN
  BY DEF MayPatch, Sets, Defined, Mine, Owns
<1>4. mem[d] # None /\ mem[d].entry \in Entries /\ module \in Mods /\ Done \subseteq Mods
  BY <1>1, DocFacts DEF WritebackInv, DomInv, Indexed, FlowOK, Done, Mods
<1>5. seen = before /\ \A m \in Done : Settled(d, m)
  BY <1>1 DEF SettledInv, Underway, Visiting
<1>6. ASSUME NEW m \in Done \cup {module} PROVE Fits(j.ok[m], m) /\ Fits(j.err[m], m)
  <2>1. CASE m = module
    <3>1. j.ok[m] = NewEntry(d, Proof(d)) /\ j.err[m] = Refusal(d)
      BY <1>4, <2>1 DEF Entries
    <3> QED BY <1>4, <1>5, <2>1, <3>1, OutcomeFits
  <2>2. CASE m # module
    <3>1. j.ok[m] = mem[d].entry[m] /\ j.err[m] = mem[d].entry[m]
      BY <1>4, <2>2 DEF Entries
    <3> QED BY <1>4, <1>5, <2>2, <3>1 DEF Settled
  <2> QED BY <2>1, <2>2
<1>7. j.back = phase
  BY <1>1
<1> HIDE DEF j
<1> QED BY <1>1, <1>2, <1>3, <1>6, <1>7, StartedStep

LEMMA SuppressSettles == ASSUME WritebackInv, SettledInv, NEW d \in Docs, Suppress(d) PROVE SettledInv'
<1> DEFINE fp == [Fp(mem[d]) EXCEPT ![module] = IF Defined THEN seen[module] ELSE @]
           src == mem[d].src
           entry == mem[d].entry
           en == TakenEntry(entry, {module}, fp)
           j == TakenJob(d, src, entry, {module}, fp, "suppress")
<1>1. phase = "suppress" /\ TakeBack(d, src, entry, {module}, fp, "suppress")
  BY DEF Suppress
<1>2. d \in todo /\ UNCHANGED <<schema, module, before, seen>>
  BY <1>1 DEF TakeBack, world
<1>3. /\ mem[d] # None /\ entry \in Entries /\ src \in Source /\ module \in Mods /\ Done \subseteq Mods
      /\ Proven(entry, wrote[d])
  BY <1>2, DocFacts DEF WritebackInv, DomInv, Indexed, FlowOK, Done, Mods
<1>4. fp \in [Mods -> Defs \cup {None}]
  <2>1. Fp(mem[d]) \in [Mods -> Defs \cup {None}]
    BY <1>3, DocFacts, FpType
  <2>2. Defined => seen[module] \in Defs
    BY <1>3, OutcomeTypes
  <2> QED BY <1>3, <2>1, <2>2
<1> HIDE DEF fp, src, entry
<1>5. /\ en \in Entries /\ Base(j) /\ j.ok = en /\ j.back = phase
      /\ j.err = TakenError(src, entry, {module}, fp)
  BY <1>1, <1>3, <1>4, TakeBackJob DEF Loops, TakenJob
<1>6. ASSUME NEW m \in Done \cup {module} PROVE Fits(en[m], m) /\ Fits(j.err[m], m)
  <2>1. m \in Mods
    BY <1>3
  <2>2. CASE m = module
    <3>1. en[m] = [fp |-> fp[m], val |-> None, proof |-> None]
      BY <2>1, <2>2 DEF TakenEntry
    <3>2. j.err[m] \in {en[m], [en[m] EXCEPT !.proof = entry[m].proof]}
      BY <1>5, <2>1 DEF TakenError
    <3> QED BY <3>1, <3>2 DEF Fits
  <2>3. CASE m # module
    <3>1. en[m] = entry[m] /\ j.err[m] = entry[m]
      BY <1>5, <2>1, <2>3 DEF TakenEntry, TakenError, TakenOwn
    <3>2. Fits(entry[m], m)
      BY <1>1, <1>3, <2>3 DEF SettledInv, Underway, Visiting, Settled, entry
    <3> QED BY <3>1, <3>2
  <2> QED BY <2>2, <2>3
<1> HIDE DEF en, j
<1>7. CASE mem' = [mem EXCEPT ![d] = State(mem[d].src, en)] /\ todo' = todo \ {d} /\ phase' = phase
  <2>1. phase \in Visiting /\ Left \ {d} \subseteq todo'
    BY <1>1, <1>7 DEF Visiting, Left, Writing
  <2> QED BY <1>1, <1>2, <1>3, <1>5, <1>6, <1>7, <2>1, VisitedStep DEF src
<1>8. CASE StartWrite(j, TRUE)
  BY <1>1, <1>2, <1>5, <1>6, <1>8, StartedStep
<1> QED BY <1>1, <1>7, <1>8, TakeBackForm DEF en, j, src

LEMMA DependencySettles ==
  ASSUME WritebackInv, SettledInv, DependencyChanged, steady' PROVE SettledInv'
<1>1. /\ phase = "apply" /\ phase' = "suppress" /\ todo' = owners /\ todo \subseteq owners
      /\ UNCHANGED <<schema, mem, module, before, seen, job>>
  BY DEF DependencyChanged, Goto, world, stores, plan
<1>2. module \in Mods /\ Done \subseteq Mods /\ Done' = Done
  BY <1>1 DEF WritebackInv, FlowOK, Done, Mods
<1>3. \A x \in Docs, m \in Mods : Settled(x, m)' <=> Settled(x, m)
  BY <1>1, SettledQuiet
<1>4. Left' = owners /\ Left = todo
  BY <1>1 DEF Left, Writing
<1>5. before = schema /\ seen = before /\ \A x \in Docs, m \in Done : Settled(x, m)
  BY <1>1 DEF SettledInv, Underway, Visiting
<1>6. \A x \in Docs \ Left' : Settled(x, module)'
  BY <1>1, <1>2, <1>3, <1>4 DEF SettledInv, Visiting
<1>7. \A x \in Docs, m \in Done' : Settled(x, m)'
  BY <1>2, <1>3, <1>5
<1> HIDE DEF Left, Settled
<1> QED BY <1>1, <1>5, <1>6, <1>7 DEF SettledInv, Visiting, Writing

\* A loop that has visited every document leaves all settled.
LEMMA CheckedStep ==
  ASSUME WritebackInv, SettledInv, phase \in {"apply", "suppress"}, todo = {}, phase' = "check",
         UNCHANGED <<schema, mem, module, before, seen>>
  PROVE  SettledInv'
<1>1. module \in Mods /\ Done \subseteq Mods /\ Done' = Done
  BY DEF WritebackInv, FlowOK, Done, Mods
<1>2. \A x \in Docs, m \in Mods : Settled(x, m)' <=> Settled(x, m)
  BY SettledQuiet
<1>3. Left = {} /\ phase \in Visiting
  BY DEF Left, Writing, Visiting
<1>4. before = schema /\ seen = before /\ \A x \in Docs, m \in Done : Settled(x, m)
  BY <1>3 DEF SettledInv, Underway
<1>5. \A x \in Docs : Settled(x, module)'
  BY <1>1, <1>2, <1>3 DEF SettledInv
<1>6. \A x \in Docs, m \in Done' : Settled(x, m)'
  BY <1>1, <1>2, <1>4
<1> HIDE DEF Left, Settled
<1> QED BY <1>4, <1>5, <1>6 DEF SettledInv, Visiting, Writing

\* The next module begins where the last one has settled every document.
LEMMA CheckSettles == ASSUME WritebackInv, SettledInv, Check PROVE SettledInv'
<1>1. phase = "check" /\ schema = before /\ seen = before /\ (\A x \in Docs : Settled(x, module))
      /\ \A y \in Docs, m \in Done : Settled(y, m)
  BY DEF Check, SettledInv, Underway
<1>2. /\ module' = "lookup" /\ phase' = IF module = "formula" THEN "load" ELSE "save"
      /\ UNCHANGED <<schema, mem, before>>
  BY <1>1 DEF Check, Goto, world, stores
<1>3. \A x \in Docs, m \in Mods : Settled(x, m)' <=> Settled(x, m)
  BY <1>2, SettledQuiet
<1>4. Done' = {"formula"} /\ module \in Mods
  BY <1>2 DEF Done, WritebackInv, FlowOK
<1>5. \A x \in Docs : Settled(x, "formula")
  BY <1>1, <1>4 DEF Done, Mods
<1>6. \A x \in Docs, m \in Done' : Settled(x, m)'
  BY <1>3, <1>4, <1>5 DEF Mods
<1>7. phase' = "save" => \A x \in Docs : Settled(x, "lookup")'
  BY <1>1, <1>2, <1>3, <1>4 DEF Mods
<1> HIDE DEF Settled
<1> QED BY <1>1, <1>2, <1>6, <1>7 DEF SettledInv, Visiting, Writing

\* The steps that leave every document as settled as it is, and those after which
\* there is nothing to be settled.
LEMMA OutsideStep ==
  ASSUME WritebackInv, SettledInv,
         phase' \notin Underway \cup {"restore", "unstable"}
  PROVE  SettledInv'
  BY DEF SettledInv, Underway, Visiting

LEMMA SameStep ==
  ASSUME WritebackInv, SettledInv, UNCHANGED <<mem, phase, schema, before, seen, module, todo, job>>
  PROVE  SettledInv'
<1>1. \A d \in Docs, m \in Mods : Settled(d, m)' <=> Settled(d, m)
  BY SettledQuiet
<1>2. module \in Mods /\ Done \subseteq Mods /\ Done' = Done /\ Left' = Left
  BY DEF WritebackInv, FlowOK, Done, Mods, Left
<1>3. \A m \in Done \cup {module} :
        (Fits(job.ok[m], m)' <=> Fits(job.ok[m], m)) /\ (Fits(job.err[m], m)' <=> Fits(job.err[m], m))
  BY DEF Fits
<1> HIDE DEF Settled, Fits, Left
<1> QED BY <1>1, <1>2, <1>3 DEF SettledInv

LEMMA AttemptSettles == ASSUME WritebackInv, Attempt PROVE SettledInv'
<1>1. phase' = "load" /\ before' = schema /\ schema' = schema /\ module' = "formula"
  BY DEF Attempt, Goto, world
<1>2. Done' = {}
  BY <1>1 DEF Done
<1> QED BY <1>1, <1>2 DEF SettledInv, Visiting, Writing

LEMMA LoadSettles == ASSUME WritebackInv, SettledInv, Load PROVE SettledInv'
<1>1. /\ phase = "load" /\ phase' = "evaluate" /\ seen' = schema
      /\ UNCHANGED <<schema, mem, module, before>>
  BY DEF Load, Goto, world, stores
<1>2. \A d \in Docs, m \in Mods : Settled(d, m)' <=> Settled(d, m)
  BY <1>1, SettledQuiet
<1>3. module \in Mods /\ Done \subseteq Mods /\ Done' = Done
  BY <1>1 DEF WritebackInv, FlowOK, Done, Mods
<1>4. before = schema /\ \A d \in Docs, m \in Done : Settled(d, m)
  BY <1>1 DEF SettledInv, Underway
<1> HIDE DEF Settled
<1> QED BY <1>1, <1>2, <1>3, <1>4 DEF SettledInv, Visiting, Writing

\* A write that goes on to its next step.
LEMMA GoesOnSettled ==
  ASSUME WritebackInv, SettledInv, phase \in Writing, phase' \in Writing,
         UNCHANGED <<schema, mem, module, before, seen, todo, job>>
  PROVE  SettledInv'
<1>1. phase \in Visiting /\ Left' = Left
  BY DEF Visiting, Left
<1>2. job'.back \in {"apply", "suppress"}
      /\ \A m \in Done \cup {module} : Fits(job'.ok[m], m) /\ Fits(job'.err[m], m)
  BY DEF SettledInv
<1> QED BY <1>1, <1>2, WritingStep

LEMMA GuardSettles == ASSUME WritebackInv, SettledInv, Guard PROVE SettledInv'
<1>1. phase = "guard" /\ UNCHANGED <<schema, module, before, seen, todo>>
  BY DEF Guard, world
<1>2. CASE job.guarded /\ ~DepsOk
  BY <1>1, <1>2, EndedStep DEF Guard, Writing
<1>3. CASE ~(job.guarded /\ ~DepsOk)
  BY <1>1, <1>3, GoesOnSettled DEF Guard, Goto, Writing
<1> QED BY <1>2, <1>3

LEMMA CompareSettles == ASSUME WritebackInv, SettledInv, Compare PROVE SettledInv'
<1>1. phase = "compare" /\ UNCHANGED <<schema, module, before, seen, todo>>
  BY DEF Compare, world
<1>2. CASE On(job.doc) # job.old
  BY <1>1, <1>2, EndedStep DEF Compare, Writing
<1>3. CASE On(job.doc) = job.old /\ job.new = job.old
  BY <1>1, <1>3, EndedStep DEF Compare, Writing
<1>4. CASE On(job.doc) = job.old /\ job.new # job.old
  BY <1>1, <1>4, GoesOnSettled DEF Compare, Goto, Writing
<1> QED BY <1>2, <1>3, <1>4

LEMMA RereadSettles == ASSUME WritebackInv, SettledInv, Reread PROVE SettledInv'
<1>1. phase = "reread" /\ UNCHANGED <<schema, module, before, seen, todo>>
  BY DEF Reread, world
<1>2. Refuse(job) \/ Accept
  BY DEF Reread
<1> QED BY <1>1, <1>2, EndedStep DEF Writing

LEMMA RenameSettles == ASSUME WritebackInv, SettledInv, Rename PROVE SettledInv'
<1>1. phase = "rename" /\ phase' = "reread" /\ UNCHANGED <<schema, mem, module, before, seen, todo, job>>
  BY DEF Rename, Replace, Goto
<1> QED BY <1>1, GoesOnSettled DEF Writing

LEMMA RenameUnsyncedSettles == ASSUME WritebackInv, SettledInv, RenameUnsynced PROVE SettledInv'
<1>1. /\ phase \in Writing /\ UNCHANGED <<schema, module, before, seen, todo>>
      /\ mem' = [mem EXCEPT ![job.doc] = State(mem[job.doc].src, job.err)] /\ phase' = job.back
  BY DEF RenameUnsynced, Replace, Goto, Writing
<1>2. Base(job) /\ job.back \in {"apply", "suppress"}
      /\ \A m \in Done \cup {module} : Fits(job.err[m], m)
  BY <1>1 DEF WritebackInv, JobInv, SettledInv
<1>3. job.doc \in Docs /\ mem[job.doc].src \in Source /\ job.err \in Entries
  BY <1>2, JobTypes DEF WritebackInv
<1>4. phase \in Visiting /\ Left \ {job.doc} \subseteq todo'
  BY <1>1 DEF Visiting, Left
<1> QED BY <1>1, <1>2, <1>3, <1>4, VisitedStep

LEMMA LeaveSettles == ASSUME WritebackInv, SettledInv, Leave PROVE SettledInv'
<1>1. phase = "suppress" /\ todo = {} /\ phase' = "check"
      /\ UNCHANGED <<schema, mem, module, before, seen>>
  BY DEF Leave, Goto, SettledInv, world, plan
<1> QED BY <1>1, CheckedStep

LEMMA AppliedSettles == ASSUME WritebackInv, SettledInv, Applied PROVE SettledInv'
  BY CheckedStep DEF Applied, Goto, world, plan

-----------------------------------------------------------------------------
(* Theorem *)

LEMMA OverlayStep == OverlayInv /\ [Next]_vars => OverlayInv'
<1> SUFFICES ASSUME OverlayInv, [Next]_vars, steady' PROVE SettledInv'
  BY InvStep DEF OverlayInv
<1>1. WritebackInv /\ (steady => SettledInv)
  BY DEF OverlayInv
<1>2. CASE Attempt
  BY <1>1, <1>2, AttemptSettles
<1>3. CASE Modules /\ ~Attempt
  <2>1. steady
    BY <1>3 DEF Modules, Recover, Load, Evaluate, Applied, DependencyChanged, Leave, Check, Guard,
                Compare, Rename, Replace, Reread, Save, Finish, Patch, Suppress, Restore,
                Destabilize, TakeBack, history
  <2>2. SettledInv
    BY <1>1, <2>1
  <2>3. CASE \E d \in Docs : Patch(d) \/ Suppress(d)
    BY <1>1, <2>2, <2>3, PatchSettles, SuppressSettles
  <2>4. CASE \E d \in Docs : Restore(d) \/ Destabilize(d)
    BY <2>2, <2>4 DEF SettledInv, Restore, Destabilize
  <2>5. CASE Recover \/ Save \/ Finish
    BY <1>1, <2>2, <2>5, OutsideStep DEF Recover, Save, Finish, Over, Goto, Underway, Visiting, Writing
  <2>6. CASE Load \/ Evaluate \/ Applied \/ DependencyChanged \/ Leave \/ Check
    BY <1>1, <2>2, <2>6, LoadSettles, EvaluateSettles, AppliedSettles, DependencySettles,
       LeaveSettles, CheckSettles
  <2>7. CASE Guard \/ Compare \/ Rename \/ Reread
    BY <1>1, <2>2, <2>7, GuardSettles, CompareSettles, RenameSettles, RereadSettles
  <2> QED BY <1>3, <2>3, <2>4, <2>5, <2>6, <2>7 DEF Modules
<1>4. CASE Failures
  <2>1. SettledInv /\ ~ExecutionFails
    BY <1>1, <1>4 DEF Failures, Crash, RenameUnsynced, Replace, ExecutionFails
  <2>2. CASE Crash
    BY <1>1, <2>1, <2>2, OutsideStep DEF Crash, Over, Goto, Underway, Visiting, Writing
  <2> QED BY <1>1, <1>4, <2>1, <2>2, RenameUnsyncedSettles DEF Failures
<1>5. CASE Users
  <2>1. SettledInv /\ \A s \in Schemas : ~ChangeSchema(s)
    BY <1>1, <1>5 DEF Users, Delete, Edit, Changed, ChangeSchema, Begin, history
  <2>2. ASSUME NEW d \in Docs, NEW f, Changed(d, f) PROVE SettledInv'
    BY <1>1, <2>1, <2>2, SameStep DEF Changed, plan
  <2>3. ASSUME NEW ds \in Events, Begin(ds) PROVE SettledInv'
    BY <1>1, <2>1, <2>3, OutsideStep DEF Begin, Goto, Underway, Visiting, Writing
  <2>4. Edited \subseteq Docs
    BY WritebackAssumption
  <2> QED BY <1>5, <2>1, <2>2, <2>3, <2>4 DEF Users, Delete, Edit
<1>6. CASE UNCHANGED vars
  BY <1>1, <1>6, SameStep DEF vars, world, plan, history
<1> QED BY <1>2, <1>3, <1>4, <1>5, <1>6 DEF Next

\* A run saves no value of a definition the overlay does not have (run_pipeline,
\* schema_matches, apply_execution): whatever earlier and interrupted runs left,
\* whichever documents an event names, and whichever writes are refused, once its
\* last attempt saw no change of the overlay, with the exceptions OneOverlay names.
THEOREM OverlayIsOne == Spec => OneOverlay
<1>1. OverlayInv => (phase = "save" /\ steady => \A d \in Docs, m \in Mods :
        Valued(d, m) => before # Broken /\ mem[d].entry[m].fp = before[m])
  <2> SUFFICES ASSUME OverlayInv, phase = "save", steady, NEW d \in Docs, NEW m \in Mods, Valued(d, m)
               PROVE  before # Broken /\ mem[d].entry[m].fp = before[m]
    OBVIOUS
  <2>1. Settled(d, "lookup") /\ Settled(d, "formula")
    BY DEF OverlayInv, SettledInv, Underway, Done
  <2>2. Settled(d, m)
    BY <2>1 DEF Mods
  <2> QED BY <2>2 DEF Settled, Fits, Valued
<1>2. OverlayInv /\ [Next]_vars => [phase = "save" /\ steady => \A d \in Docs, m \in Mods :
        Valued(d, m) => before # Broken /\ mem[d].entry[m].fp = before[m]]_vars
  BY <1>1
<1>3. Init => OverlayInv
  BY InvInit, SettledInit DEF OverlayInv
<1> QED BY <1>2, <1>3, OverlayStep, PTL DEF Spec, OneOverlay
=============================================================================
