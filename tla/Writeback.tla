----------------------------- MODULE Writeback -----------------------------
(***************************************************************************)
(* The computed-field modules and the way they write into the user's       *)
(* documents.                                                              *)
(*                                                                         *)
(* A run takes the module run lock, brings the index up to date with some  *)
(* documents, recovers what an interrupted run left, lets Formula and then *)
(* Lookup & Rollup evaluate their fields, replaces the frontmatter of the  *)
(* documents one by one, saves the index and retires the intent log.  The  *)
(* documents and the schema overlay belong to the user, who may change     *)
(* them between any two steps; the process may die between any two steps.  *)
(* Each module has one field, called like the module.                      *)
(***************************************************************************)
EXTENDS Naturals, FiniteSets

CONSTANTS
  Docs,        \* paths of documents
  Texts,       \* what a document says apart from the computed fields
  Vals,        \* values of fields
  Defs,        \* definitions a schema overlay may give a field
  Schemas,     \* overlays: a definition or None for each module, or Broken
  Eval,        \* the value of a definition over a text, or None if it fails
  Target,      \* the document the Lookup of a document reads
  None,        \* absent
  Broken,      \* an overlay that is missing or does not parse
  Free,        \* a document the run does not depend on
  Attempts,    \* of a run whose overlay changes under it: 3
  First,       \* the overlays it may start with: a bound, all of them
  Edited,      \* the documents the user edits: a bound, all of them
  Events,      \* the sets of documents an event names: a bound, all of them
  MaxEdits, MaxSchemas, MaxFaults, MaxEvents,
  MaxRuns      \* bounds; a failure adds a run to MaxRuns

Mods == {"formula", "lookup"}

ASSUME WritebackAssumption ==
  /\ {MaxEdits, MaxSchemas, MaxFaults, MaxEvents, MaxRuns} \subseteq Nat /\ Attempts \in Nat \ {0}
  /\ First \subseteq Schemas /\ Edited \subseteq Docs /\ Events \subseteq SUBSET Docs
  /\ Schemas \subseteq [Mods -> Defs \cup {None}] \cup {Broken}
  /\ Broken \notin [Mods -> Defs \cup {None}]
  /\ Eval \in [Defs \X Texts -> Vals \cup {None}]
  /\ Target \in [Docs -> Docs]
  /\ None \notin Docs \cup Vals \cup Defs

VARIABLES
  file,      \* the documents: source and inode
  schema,    \* the overlay
  saved,     \* the index file: source and computed fields of each document
  journal,   \* computed-write-intent.json
  mem,       \* the index handle
  phase,     \* where the run is, "none" if there is none
  scope,     \* documents of the event
  module,    \* the module that executes
  attempt,   \* number of the attempt
  before,    \* the overlay when the attempt began
  seen,      \* the overlay the module compiled
  snap,      \* the handle when the module was started
  owners,    \* documents whose field a failed dependency check suppresses
  expect,    \* the sources the module depends on, as it expects them
  todo,      \* documents the current loop has still to visit
  job,       \* the write in progress
  inodes,    \* temporary files created so far
  wrote,     \* history: values a module ever put into a field of a document
  touched,   \* history: fields the user changed since a module wrote them
  again,     \* history: documents with a second intent over an unretired one
  cause,     \* history: why ownership of a document's fields may be lost
  late,      \* history: the document was changed between comparison and rename
  steady,    \* history: since the attempt began the overlay has not changed, no execution
             \* failed and no document whose turn was to come was left as it was
  edits, changes, faults, runs  \* counters of the bounds

world == <<file, schema>>
stores == <<saved, journal>>
plan == <<scope, module, attempt, before, seen, snap, owners, expect>>
history == <<wrote, touched, again, cause, late, steady>>
counters == <<edits, changes, faults, runs>>
vars == <<world, stores, mem, phase, plan, todo, job, inodes, history, counters>>

Fields == [Mods -> Vals \cup {None}]
Source == [text : Texts, fields : Fields]
\* A computed field without a value carries a diagnostic.
Computed == [fp : Defs \cup {None}, val : Vals \cup {None}, proof : Vals \cup {None}]
Entries == [Mods -> Computed \cup {None}]
Stored == [src : Source, entry : Entries]
Intent == [before : Source, after : Source, ino : Nat, entry : Entries]

ASSUME NoneIsNoRecord ==
  {None, Free} \cap (Source \cup Computed \cup Stored \cup Intent
                     \cup [src : Source, ino : Nat]) = {} /\ None # Free

NoEntries == [m \in Mods |-> None]
NoFields == [m \in Mods |-> None]
NoJob == [doc |-> None]
With(src, m, v) == [src EXCEPT !.fields[m] = v]

On(d) == IF file[d] = None THEN None ELSE file[d].src
Pending == {d \in Docs : journal[d] # None}
Indexed(ix) == {d \in Docs : ix[d] # None}

\* reconcile_materialized_proofs: a proof ends when its field has another value.
Reconcile(en, src) ==
  [m \in Mods |-> IF en[m] # None /\ en[m].proof # src.fields[m]
                  THEN [en[m] EXCEPT !.proof = None] ELSE en[m]]

\* materialized_field_matches
Owns(st, m) ==
  st.entry[m] # None /\ st.entry[m].proof # None /\ st.entry[m].proof = st.src.fields[m]

State(src, en) == [src |-> src, entry |-> Reconcile(en, src)]

\* What the index holds of a document once its source has been read again.
Refreshed(st, src) ==
  IF src = None THEN None ELSE State(src, IF st = None THEN NoEntries ELSE st.entry)

Init ==
  /\ \E t \in Texts : file = [d \in Docs |-> [src |-> [text |-> t, fields |-> NoFields], ino |-> 0]]
  /\ schema \in First
  /\ saved = [d \in Docs |-> None] /\ mem = saved
  /\ journal = [d \in Docs |-> None]
  /\ phase = "none" /\ scope = {} /\ module = "formula" /\ attempt = 0
  /\ before = Broken /\ seen = Broken /\ snap = mem /\ owners = {}
  /\ expect = [d \in Docs |-> Free] /\ todo = {} /\ job = NoJob /\ inodes = 0
  /\ wrote = [d \in Docs |-> [m \in Mods |-> {}]] /\ touched = [d \in Docs |-> {}]
  /\ again = {} /\ cause = [d \in Docs |-> "none"] /\ late = FALSE /\ steady = TRUE
  /\ edits = 0 /\ changes = 0 /\ faults = 0 /\ runs = 0

-----------------------------------------------------------------------------
(* The user *)

\* A bound on what disturbs the runs, of all kinds together.
Eventful == edits + changes + faults < MaxEvents

Changed(d, f) ==
  /\ edits < MaxEdits /\ Eventful /\ edits' = edits + 1
  /\ file' = [file EXCEPT ![d] = f]
  /\ touched' = [touched EXCEPT ![d] = @ \cup
       {m \in Mods : file[d] = None \/ f = None \/ file[d].src.fields[m] # f.src.fields[m]}]
  /\ cause' = IF journal[d] = None THEN cause ELSE [cause EXCEPT ![d] = "edited"]
  /\ late' = (late \/ (phase = "rename" /\ d = job.doc))
  /\ UNCHANGED <<schema, stores, mem, phase, plan, todo, job, inodes, wrote, again, steady,
                 changes, faults, runs>>

\* An editor writes in place or replaces the file; one edit changes the text or
\* one field (a bound: a larger one is several).
Edit(d, src) ==
  /\ src # On(d)
  /\ file[d] # None => \/ src.fields = file[d].src.fields
                      \/ \E m \in Mods : src = With(file[d].src, m, src.fields[m])
  /\ \E ino \in {0, IF file[d] = None THEN 0 ELSE file[d].ino} :
       Changed(d, [src |-> src, ino |-> ino])

Delete(d) == file[d] # None /\ Changed(d, None)

ChangeSchema(s) ==
  /\ s # schema /\ changes < MaxSchemas /\ Eventful
  /\ schema' = s /\ changes' = changes + 1 /\ steady' = FALSE
  /\ UNCHANGED <<file, stores, mem, phase, plan, todo, job, inodes, wrote, touched, again,
                 cause, late, edits, faults, runs>>

-----------------------------------------------------------------------------
(* A run: lock, refresh of the index, recovery *)

Goto(p) == phase' = p

\* The caller reads `ds` again: an ingest and a manual run all documents, a
\* watcher event its document, a change of the overlay none.
Begin(ds) ==
  /\ phase = "none" /\ runs < MaxRuns + faults /\ runs' = runs + 1
  /\ mem' = [d \in Docs |-> IF d \in ds THEN Refreshed(saved[d], On(d)) ELSE saved[d]]
  /\ scope' = ds /\ attempt' = 1
  /\ Goto(IF Pending = {} THEN "attempt" ELSE "recover")
  /\ UNCHANGED <<world, stores, module, before, seen, snap, owners, expect, todo, job,
                 inodes, history, edits, changes, faults>>

\* Faulty: bytes that look like the planned ones are taken for them.
RecoveredByBytes(d) ==
  LET i == journal[d] IN
  IF i = None \/ mem[d] = None \/ file[d] = None THEN mem[d]
  ELSE IF On(d) = i.after /\ mem[d].src \in {i.before, i.after}
       THEN State(On(d), i.entry)
       ELSE Refreshed(mem[d], On(d))

\* recover_computed_intents, for one document: its source was replaced by the
\* very file the intent names, and nobody has replaced the entry since.
Recovered(d) ==
  LET i == journal[d] IN
  IF i = None \/ mem[d] = None \/ file[d] = None THEN mem[d]
  ELSE IF file[d] = [src |-> i.after, ino |-> i.ino] /\ mem[d].src \in {i.before, i.after}
       THEN State(On(d), i.entry)
       ELSE Refreshed(mem[d], On(d))

\* A source was replaced as intended, but the entry is of none of the intent's
\* sources: the interrupted run had read the source again and not saved what it read.
Superseded(d) ==
  /\ journal[d] # None /\ mem[d] # None
  /\ file[d] = [src |-> journal[d].after, ino |-> journal[d].ino]
  /\ mem[d].src \notin {journal[d].before, journal[d].after}

Recover ==
  /\ phase = "recover"
  /\ mem' = [d \in Docs |-> Recovered(d)]
  /\ cause' = [d \in Docs |-> IF cause[d] = "none" /\ Superseded(d) THEN "superseded" ELSE cause[d]]
  /\ scope' = Docs
  /\ Goto("attempt")
  /\ UNCHANGED <<world, stores, module, attempt, before, seen, snap, owners, expect, todo,
                 job, inodes, wrote, touched, again, late, steady, counters>>

Attempt ==
  /\ phase = "attempt"
  /\ before' = schema /\ module' = "formula" /\ steady' = TRUE
  /\ Goto("load")
  /\ UNCHANGED <<world, stores, mem, scope, attempt, seen, snap, owners, expect, todo, job,
                 inodes, wrote, touched, again, cause, late, counters>>

-----------------------------------------------------------------------------
(* Evaluation by `module` under the overlay `seen`, over the handle *)

Defined == seen # Broken /\ seen[module] # None

\* Formula reads its own document, Lookup another one.
Value(d) ==
  LET t == IF module = "formula" THEN d ELSE Target[d]
  IN IF mem[t] = None THEN None ELSE Eval[<<seen[module], mem[t].src.text>>]

Old(d) == mem[d].entry[module]
Mine(d) == Owns(mem[d], module)
Sets(d) == Defined /\ Value(d) # None
Unsets(d) == ~Sets(d) /\ (Defined \/ Mine(d))

NewField(d) ==
  IF Sets(d) THEN Value(d) ELSE IF Unsets(d) THEN None ELSE mem[d].src.fields[module]

\* Faulty: whatever is set is taken to be written by the module.
ProofOfAnyValue(d) == IF Sets(d) THEN Value(d) ELSE None

\* A value that was there before is owned only if it already was.
Proof(d) ==
  IF Sets(d) /\ (Mine(d) \/ mem[d].src.fields[module] # Value(d)) THEN Value(d) ELSE None

NewEntry(d, proof) ==
  IF Defined THEN [fp |-> seen[module], val |-> IF Sets(d) THEN Value(d) ELSE None, proof |-> proof]
  ELSE IF seen = Broken THEN [fp |-> None, val |-> None, proof |-> None]
  ELSE None

\* The entry after a refused write: a diagnostic, and the proof it had.
Refusal(d) ==
  IF Defined \/ Mine(d)
  THEN [fp |-> IF Defined THEN seen[module] ELSE None, val |-> None,
        proof |-> IF Mine(d) THEN Old(d).proof ELSE None]
  ELSE NewEntry(d, None)

\* Faulty: Formula visits the documents of the event only.
PatchedOfEvent ==
  {d \in Indexed(mem) : IF module = "formula" THEN d \in scope
                        ELSE Old(d) # NewEntry(d, IF Sets(d) THEN Value(d) ELSE None)}

\* Formula visits the documents of the event and those with other definitions,
\* Lookup & Rollup those whose outcome differs.
Patched ==
  {d \in Indexed(mem) :
     /\ Defined \/ Old(d) # None
     /\ IF module = "formula"
        THEN \/ d \in scope
             \/ IF Defined THEN Old(d) = None \/ Old(d).fp # seen[module] ELSE TRUE
        ELSE \/ Old(d) # NewEntry(d, IF Sets(d) THEN Value(d) ELSE None)
             \/ NewField(d) # mem[d].src.fields[module]}

\* Documents whose field a failed dependency check takes back.
Owners ==
  {d \in IF module = "formula" THEN Patched ELSE Indexed(mem) : Defined \/ Mine(d)}

\* An overlay is read once by the check and once by the module.
Load ==
  /\ phase = "load" /\ seen' = schema /\ snap' = mem
  /\ Goto("evaluate")
  /\ UNCHANGED <<world, stores, mem, scope, module, attempt, before, owners, expect, todo,
                 job, inodes, history, counters>>

Evaluate ==
  /\ phase = "evaluate"
  /\ todo' = Patched /\ owners' = Owners
  /\ expect' = [t \in Docs |->
       IF module = "lookup" /\ Defined /\ \E d \in Indexed(mem) : Target[d] = t /\ t # d
       THEN IF mem[t] = None THEN None ELSE mem[t].src
       ELSE Free]
  /\ Goto("apply")
  /\ UNCHANGED <<world, stores, mem, scope, module, attempt, before, seen, snap, job,
                 inodes, history, counters>>

-----------------------------------------------------------------------------
(* A guarded replacement of a document: apply_frontmatter_patch_inner *)

DepsOk == schema = seen /\ \A t \in Docs : expect[t] \in {Free, On(t)}

\* Faulty: the refused write is taken up again.
RefuseKept(j) ==
  /\ mem' = [mem EXCEPT ![j.doc] = State(mem[j.doc].src, j.err)]
  /\ Goto(j.back) /\ UNCHANGED <<job, expect>>

\* The write is refused; the document's own bytes stay.
Refuse(j) ==
  /\ mem' = [mem EXCEPT ![j.doc] = State(mem[j.doc].src, j.err)]
  /\ Goto(j.back) /\ job' = NoJob /\ UNCHANGED expect

\* apply_module_source_state, refused for another source than the planned one.
Accept ==
  IF mem[job.doc].src = job.old
  THEN /\ mem' = [mem EXCEPT ![job.doc] = State(job.new, job.ok)]
       /\ expect' = IF job.guarded THEN [expect EXCEPT ![job.doc] = job.new] ELSE expect
       /\ Goto(job.back) /\ job' = NoJob
  ELSE Refuse(job)

\* record_computed_intent keeps the first source of an unretired intent.
Record(j) ==
  [before |-> IF journal[j.doc] = None THEN j.old ELSE journal[j.doc].before,
   after |-> j.new, ino |-> inodes + 1, entry |-> j.ok]

\* The source is compared, the temporary file written, the source compared again
\* and the intent recorded.
StartWrite(j, allowed) ==
  /\ todo' = todo \ {j.doc}
  /\ IF allowed /\ On(j.doc) = j.old
     THEN /\ job' = j /\ Goto("guard") /\ UNCHANGED <<mem, expect>>
          /\ IF j.new = j.old THEN UNCHANGED <<journal, inodes, again>>
             ELSE /\ journal' = [journal EXCEPT ![j.doc] = Record(j)] /\ inodes' = inodes + 1
                  /\ again' = IF journal[j.doc] = None THEN again ELSE again \cup {j.doc}
     ELSE Refuse(j) /\ UNCHANGED <<journal, inodes, again>>

Guard ==
  /\ phase = "guard"
  /\ IF job.guarded /\ ~DepsOk THEN Refuse(job) ELSE Goto("compare") /\ UNCHANGED <<mem, job, expect>>
  /\ UNCHANGED <<world, stores, scope, module, attempt, before, seen, snap, owners, todo, inodes,
                 history, counters>>

\* Faulty: the comparison made before the intent was recorded is trusted.
CompareSkipped ==
  /\ phase = "compare"
  /\ IF job.new = job.old THEN Accept ELSE Goto("rename") /\ UNCHANGED <<mem, job, expect>>
  /\ late' = FALSE
  /\ UNCHANGED <<world, stores, scope, module, attempt, before, seen, snap, owners, todo, inodes,
                 wrote, touched, again, cause, steady, counters>>

Compare ==
  /\ phase = "compare"
  /\ IF On(job.doc) # job.old THEN Refuse(job)
     ELSE IF job.new = job.old THEN Accept
     ELSE Goto("rename") /\ UNCHANGED <<mem, job, expect>>
  /\ late' = FALSE
  /\ UNCHANGED <<world, stores, scope, module, attempt, before, seen, snap, owners, todo, inodes,
                 wrote, touched, again, cause, steady, counters>>

Replace ==
  /\ phase = "rename"
  /\ file' = [file EXCEPT ![job.doc] = [src |-> job.new, ino |-> inodes]]
  /\ LET new == {m \in Mods : job.new.fields[m] # job.old.fields[m]} IN
     /\ wrote' = [wrote EXCEPT ![job.doc] =
          [m \in Mods |-> @[m] \cup IF m \in new THEN {job.new.fields[m]} \ {None} ELSE {}]]
     /\ touched' = [touched EXCEPT ![job.doc] = @ \ new]
  /\ UNCHANGED <<schema, stores, scope, module, attempt, before, seen, snap, owners, expect, todo,
                 inodes, again, cause, late, steady, edits, changes, runs>>

Rename == Replace /\ Goto("reread") /\ UNCHANGED <<mem, job, faults>>

Faulted == faults < MaxFaults /\ Eventful /\ faults' = faults + 1

\* The rename is done, but the directory cannot be synced.
RenameUnsynced ==
  /\ Replace /\ Faulted
  /\ mem' = [mem EXCEPT ![job.doc] = State(mem[job.doc].src, job.err)]
  /\ Goto(job.back) /\ job' = NoJob

Reread ==
  /\ phase = "reread"
  /\ IF file[job.doc] = [src |-> job.new, ino |-> inodes] THEN Accept ELSE Refuse(job)
  /\ UNCHANGED <<world, stores, scope, module, attempt, before, seen, snap, owners, todo, inodes,
                 history, counters>>

-----------------------------------------------------------------------------
(* apply_execution and the ways out of it *)

\* Owned values may be removed, and values that are not there.
MayPatch(d) == Sets(d) \/ ~Defined \/ Mine(d) \/ mem[d].src.fields[module] = None

Patch(d) ==
  /\ phase = "apply" /\ DepsOk /\ d \in todo
  /\ StartWrite([doc |-> d, old |-> mem[d].src, new |-> With(mem[d].src, module, NewField(d)),
                 ok |-> [mem[d].entry EXCEPT ![module] = NewEntry(d, Proof(d))],
                 err |-> [mem[d].entry EXCEPT ![module] = Refusal(d)],
                 guarded |-> TRUE, back |-> "apply"], MayPatch(d))
  /\ UNCHANGED <<world, saved, scope, module, attempt, before, seen, snap, owners,
                 wrote, touched, cause, late, steady, counters>>

Applied ==
  /\ phase = "apply" /\ DepsOk /\ todo = {}
  /\ Goto("check")
  /\ UNCHANGED <<world, stores, mem, plan, todo, job, inodes, history, counters>>

DependencyChanged ==
  /\ phase = "apply" /\ ~DepsOk
  /\ todo' = owners /\ Goto("suppress")
  /\ steady' = (steady /\ todo \subseteq owners)
  /\ UNCHANGED <<world, stores, mem, plan, job, inodes, wrote, touched, again, cause, late, counters>>

\* Fields ms of d lose their values, in the index and, where they are owned, in
\* the document; the proofs stay if the document cannot be written.
TakeBack(d, src, entry, ms, fp, back) ==
  LET own == {m \in ms : Owns([src |-> src, entry |-> entry], m)}
      en == [m \in Mods |-> IF m \in ms THEN [fp |-> fp[m], val |-> None, proof |-> None] ELSE entry[m]]
      err == [m \in Mods |-> IF m \in own THEN [en[m] EXCEPT !.proof = entry[m].proof] ELSE en[m]]
  IN
  /\ d \in todo
  /\ IF own # {}
     THEN StartWrite([doc |-> d, old |-> src,
                      new |-> [src EXCEPT !.fields = [m \in Mods |-> IF m \in own THEN None ELSE @[m]]],
                      ok |-> en, err |-> err, guarded |-> FALSE, back |-> back], TRUE)
     ELSE /\ mem' = [mem EXCEPT ![d] = State(mem[d].src, en)] /\ todo' = todo \ {d}
          /\ UNCHANGED <<journal, job, phase, expect, inodes, again>>
  /\ UNCHANGED <<world, saved, scope, module, attempt, before, seen, snap, owners,
                 wrote, touched, cause, late, steady, counters>>

Fp(st) == [m \in Mods |-> IF st.entry[m] = None THEN None ELSE st.entry[m].fp]

\* suppress_dependency_change
Suppress(d) ==
  /\ phase = "suppress"
  /\ TakeBack(d, mem[d].src, mem[d].entry, {module},
              [Fp(mem[d]) EXCEPT ![module] = IF Defined THEN seen[module] ELSE @], "suppress")

\* dependency_change fails: the configuration it loads does not parse.
ExecutionFails ==
  /\ phase = "apply" /\ module = "lookup" /\ Faulted
  /\ todo' = Indexed(snap) /\ Goto("restore")
  /\ cause' = [d \in Docs |-> "restored"] /\ steady' = FALSE
  /\ UNCHANGED <<world, stores, mem, plan, job, inodes, wrote, touched, again, late,
                 edits, changes, runs>>

\* restore_failed_module: the entries the module was started with come back, its
\* own without values.
Restore(d) ==
  /\ phase = "restore"
  /\ TakeBack(d, snap[d].src, snap[d].entry,
              IF Owns(snap[d], module) \/ d \in owners THEN {module} ELSE {}, Fp(snap[d]), "restore")

\* suppress_for_unstable_schema
Owned(d) == {m \in Mods : Owns(mem[d], m)}
Destabilize(d) ==
  /\ phase = "unstable"
  /\ TakeBack(d, mem[d].src, mem[d].entry, Owned(d), Fp(mem[d]), "unstable")

Leave ==
  /\ phase \in {"suppress", "restore", "unstable"} /\ todo = {}
  /\ Goto(IF phase = "unstable" THEN "save" ELSE "check")
  /\ UNCHANGED <<world, stores, mem, plan, todo, job, inodes, history, counters>>

\* schema_matches after a module, and before the next.
Check ==
  /\ phase = "check"
  /\ IF schema = before
     THEN /\ module' = "lookup" /\ Goto(IF module = "formula" THEN "load" ELSE "save")
          /\ UNCHANGED <<attempt, todo>>
     ELSE IF attempt < Attempts
     THEN attempt' = attempt + 1 /\ Goto("attempt") /\ UNCHANGED <<module, todo>>
     ELSE /\ todo' = {d \in Indexed(mem) : Owned(d) # {}} /\ Goto("unstable")
          /\ UNCHANGED <<attempt, module>>
  /\ UNCHANGED <<world, stores, mem, scope, before, seen, snap, owners, expect, job, inodes,
                 history, counters>>

-----------------------------------------------------------------------------
(* The end of a run *)

Save ==
  /\ phase = "save" /\ saved' = mem
  /\ Goto("finish")
  /\ UNCHANGED <<world, journal, mem, plan, todo, job, inodes, history, counters>>

Over ==
  /\ Goto("none") /\ scope' = {} /\ module' = "formula" /\ attempt' = 0
  /\ before' = Broken /\ seen' = Broken /\ snap' = [d \in Docs |-> None] /\ owners' = {}
  /\ expect' = [d \in Docs |-> Free] /\ todo' = {} /\ job' = NoJob /\ again' = {}

\* Faulty: the log is removed once the index is saved.
FinishUnchecked ==
  /\ phase = "finish" /\ Over
  /\ journal' = [d \in Docs |-> None] /\ UNCHANGED cause
  /\ UNCHANGED <<world, saved, mem, inodes, wrote, touched, late, steady, counters>>

\* finish_computed_intents: one document that differs keeps all intents.
Finish ==
  /\ phase = "finish" /\ Over
  /\ IF \A d \in Pending : On(d) = IF mem[d] = None THEN None ELSE mem[d].src
     THEN journal' = [d \in Docs |-> None] /\ UNCHANGED cause
     ELSE cause' = [d \in Docs |-> IF d \in again THEN "twice" ELSE cause[d]] /\ UNCHANGED journal
  /\ UNCHANGED <<world, saved, mem, inodes, wrote, touched, late, steady, counters>>

\* The process ends, or an error ends the run; the handle is loaded again.
Crash ==
  /\ phase # "none" /\ Faulted /\ Over
  /\ mem' = saved
  /\ cause' = [d \in Docs |-> IF d \in again THEN "twice" ELSE cause[d]]
  /\ UNCHANGED <<world, stores, inodes, wrote, touched, late, steady, edits, changes, runs>>

-----------------------------------------------------------------------------
Modules ==
  \/ Recover \/ Attempt \/ Load \/ Evaluate \/ Applied \/ DependencyChanged \/ Leave \/ Check
  \/ Guard \/ Compare \/ Rename \/ Reread \/ Save \/ Finish
  \/ \E d \in Docs : Patch(d) \/ Suppress(d) \/ Restore(d) \/ Destabilize(d)

Failures == Crash \/ RenameUnsynced \/ ExecutionFails

Users ==
  \/ \E d \in Edited : Delete(d) \/ \E src \in Source : Edit(d, src)
  \/ \E s \in Schemas : ChangeSchema(s)
  \/ \E ds \in Events : Begin(ds)

Next == Modules \/ Failures \/ Users

Spec == Init /\ [][Next]_vars

-----------------------------------------------------------------------------
(* Properties *)

Phases == {"none", "recover", "attempt", "load", "evaluate", "apply", "guard", "compare",
           "rename", "reread", "suppress", "restore", "unstable", "check", "save", "finish"}
Index == [Docs -> Stored \cup {None}]
Job == [doc : Docs, old : Source, new : Source, ok : Entries, err : Entries,
        guarded : BOOLEAN, back : {"apply", "suppress", "restore", "unstable"}]

\* Every variable has the shape of its counterpart.
TypeOK ==
  /\ file \in [Docs -> [src : Source, ino : Nat] \cup {None}] /\ schema \in Schemas
  /\ saved \in Index /\ mem \in Index /\ snap \in Index
  /\ journal \in [Docs -> Intent \cup {None}]
  /\ phase \in Phases /\ scope \subseteq Docs /\ module \in Mods /\ attempt \in 0..Attempts
  /\ {before, seen} \subseteq Schemas \cup {Broken} /\ owners \subseteq Docs /\ todo \subseteq Docs
  /\ expect \in [Docs -> Source \cup {None, Free}]
  /\ job \in Job \cup {NoJob} /\ (phase \in {"guard", "compare", "rename", "reread"} <=> job # NoJob)
  /\ inodes \in Nat
  /\ wrote \in [Docs -> [Mods -> SUBSET Vals]] /\ touched \in [Docs -> SUBSET Mods]
  /\ again \subseteq Docs /\ {late, steady} \subseteq BOOLEAN
  /\ cause \in [Docs -> {"none", "edited", "twice", "superseded", "restored"}]
  /\ {edits, changes, faults, runs} \subseteq Nat

ByModule == edits' = edits

\* A module replaces exactly the source it evaluated, and only its fields: an edit
\* is lost only if it falls between the last comparison and the rename.
EditsSurvive ==
  [][\A d \in Docs : ByModule /\ file'[d] # file[d] =>
       late \/ (file[d] # None /\ file'[d].src.text = file[d].src.text /\ job.old = file[d].src)]_vars

\* "Only values proven to be owned are ever removed": a value that disappears
\* from a document was once put there by a module.
OnlyOwnValuesRemoved ==
  [][\A d \in Docs, m \in Mods :
       ByModule /\ ~late /\ file'[d] # file[d] /\ file'[d].src.fields[m] = None
       => file[d].src.fields[m] \in wrote[d][m] \cup {None}]_vars

\* Where no run is under way and no intent is left, a value a module put into a
\* document is known to be its own.
Kept(c) ==
  phase = "none" /\ Pending = {} =>
    \A d \in Docs, m \in Mods :
      /\ file[d] # None /\ saved[d] # None /\ saved[d].src = file[d].src
      /\ m \notin touched[d] /\ file[d].src.fields[m] \in wrote[d][m]
      /\ cause[d] = c
      => Owns(saved[d], m)

\* After any interruption that left at most one replacement of the document
\* unpublished, was followed by no edit of it, and came after the index the next
\* run starts from had the source that was replaced (else recovery takes the older
\* entry for a newer one and drops the intent).
OwnershipKept == Kept("none")

\* "Roll forward any source replacement that reached disk": also the first of two
\* replacements of one document.
ReplacementsRolledForward == Kept("twice")

Valued(d, m) == mem[d] # None /\ mem[d].entry[m] # None /\ mem[d].entry[m].val # None

\* A run saves no value of a definition that is not in the overlay, whatever earlier and
\* interrupted runs left: if its last attempt saw no change of the overlay, no execution
\* failed and no document was left in its turn because another one had changed.
OneOverlay ==
  [][phase = "save" /\ steady => \A d \in Docs, m \in Mods :
       Valued(d, m) => before # Broken /\ mem[d].entry[m].fp = before[m]]_vars
=============================================================================
