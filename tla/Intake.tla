------------------------------- MODULE Intake -------------------------------
(***************************************************************************)
(* Uploads of CSV files to one source and one product line                 *)
(* (api/routes/sources.py, modules/ingest/adapter.py), the offline keyword *)
(* baseline over what was imported (modules/analysis/baseline.py), and the *)
(* reviewers' edits of its taxonomy.                                       *)
(*                                                                         *)
(* An upload is one transaction of PostgreSQL at READ COMMITTED.  A read   *)
(* sees what is committed and what the upload itself has written.  An      *)
(* insert waits for another upload that holds the same key of a unique     *)
(* index and is aborted if that one commits; an update waits for the row.  *)
(* Both are kept in "held" until the transaction ends.                     *)
(***************************************************************************)
EXTENDS TaxonomyEdit, Sequences

CONSTANTS
  Requests,      \* uploads
  Operators,
  Operator,      \* who sends each upload
  Files,         \* contents of files: a file is its hash
  Ids,           \* external ids of voices
  Rows,          \* the ids of each file in order, None for a row that lacks a required field
  Theme,         \* the theme of each voice: the first rule that matches, or the fallback
  MaxVersions    \* bound: versions of the taxonomy that are edited further

ASSUME RowsAssumption == Rows \in [Files -> Seq(Ids \cup {None})] /\ IsFiniteSet(Ids)
ASSUME OperatorAssumption == Operator \in [Requests -> Operators]
ASSUME ThemeAssumption == Theme \in [Ids -> Clusters]
ASSUME NoneAssumption == None \notin Ids \cup Files \cup Operators
ASSUME BoundAssumption == MaxVersions \in Nat

VARIABLES
  source,     \* whether the row of the source is committed
  batch,      \* the committed batch of each file, or None
  stored,     \* the file that each committed voice came with, or None
  baseline,   \* the uploads whose baseline run of a file is committed
  versions,   \* the committed versions of the taxonomy
  tx,         \* what each upload is doing
  held        \* the index keys and row locks of each upload

database == << source, batch, stored, baseline, versions >>
vars == << source, batch, stored, baseline, versions, tx, held >>

Phase == {"idle", "source", "lookup", "known", "batch", "voices", "operator", "analyse",
          "status", "store", "done"}

Provider == {"local", "model"}     \* the keyword rules, or a job for a model

Upload ==
  [pc       : Phase,
   file     : Files \cup {None},
   provider : Provider,
   known    : SUBSET Ids,          \* ids of the file that were stored when it looked
   run      : BOOLEAN]             \* whether it creates a baseline run

Idle ==
  [pc |-> "idle", file |-> None, provider |-> "local", known |-> {}, run |-> FALSE]

Ended == [Idle EXCEPT !.pc = "done"]

Batch ==
  [provider : Provider, operator : Operators, count : Nat]

ASSUME BatchAssumption == None \notin Batch

SourceName == << "source name", None >>     \* Source.name is unique
SourceRow == << "source row", None >>
BatchKey(f) == << "batch key", f >>         \* uq_ingestion_source_file_hash
BatchRow(f) == << "batch row", f >>
VoiceKey(i) == << "voice key", i >>         \* uq_voice_source_external

Key ==
  {SourceName, SourceRow} \cup {BatchKey(f) : f \in Files} \cup {BatchRow(f) : f \in Files}
    \cup {VoiceKey(i) : i \in Ids}

Version ==
  [batch : Files,
   status : UNION {[domain -> ClusterStatus] : domain \in SUBSET Clusters},
   rows : SUBSET (Ids \X (Clusters \cup {None}))]

-----------------------------------------------------------------------------
(* validate, the required fields, normalize and dedupe: the voices that    *)
(* the file brings.                                                        *)
Importable(f) == {Rows[f][n] : n \in DOMAIN Rows[f]} \ {None}

Inserted(q) == {i \in Ids : VoiceKey(i) \in held[q]}

Fresh(q) == BatchKey(tx[q].file) \in held[q]     \* the upload has inserted its batch

Pending(q) ==
  {n \in DOMAIN Rows[tx[q].file] :
     Rows[tx[q].file][n] \notin {None} \cup tx[q].known \cup Inserted(q)}

NextVoice(q) == {Rows[tx[q].file][n] : n \in {m \in Pending(q) : \A k \in Pending(q) : m =< k}}

(* The voices of the batch as the upload sees them. *)
Records(q) == IF Fresh(q) THEN Inserted(q) ELSE {i \in Ids : stored[i] = tx[q].file}

(* The draft taxonomy of run_local_baseline: a cluster for each theme.     *)
(* The opportunities it drafts with it are those of OpportunityReview.     *)
Draft(f, records) ==
  [batch  |-> f,
   status |-> [c \in {Theme[i] : i \in records} |-> "active"],
   rows   |-> {<< i, Theme[i] >> : i \in records}]

(* What the next statement of the upload has to get hold of. *)
Wanted(q) ==
  CASE tx[q].pc = "source"   -> {SourceName}
    [] tx[q].pc = "batch"    -> {BatchKey(tx[q].file)}
    [] tx[q].pc = "voices"   -> {VoiceKey(i) : i \in NextVoice(q)}
    [] tx[q].pc = "operator" -> {BatchRow(tx[q].file)}
    [] tx[q].pc = "status"   -> {SourceRow}
    [] OTHER                 -> {}

Blockers(q) == {r \in Requests \ {q} : Wanted(q) \cap held[r] # {}}

-----------------------------------------------------------------------------
(* The source may be there already, from a file that shares no voice with  *)
(* these.                                                                  *)
Init ==
  /\ source \in BOOLEAN
  /\ batch = [f \in Files |-> None]
  /\ stored = [i \in Ids |-> None]
  /\ baseline = [f \in Files |-> {}]
  /\ versions = {}
  /\ tx = [q \in Requests |-> Idle]
  /\ held = [q \in Requests |-> {}]

At(q, pc) == tx[q].pc = pc

GoTo(q, pc) == tx' = [tx EXCEPT ![q].pc = pc]

Take(q) == Blockers(q) = {} /\ held' = [held EXCEPT ![q] = @ \cup Wanted(q)]

End(q) ==
  /\ tx' = [tx EXCEPT ![q] = Ended]
  /\ held' = [held EXCEPT ![q] = {}]

(* The rollback of an upload that fails or is refused. *)
Abort(q) ==
  /\ End(q)
  /\ UNCHANGED database

(* The file is read and validated before the database is asked anything. *)
Begin(q, f, provider) ==
  /\ At(q, "idle")
  /\ tx' = [tx EXCEPT ![q] =
       IF Importable(f) = {} THEN Ended
       ELSE [Idle EXCEPT !.pc = IF source THEN "lookup" ELSE "source",
                         !.file = f, !.provider = provider]]
  /\ UNCHANGED << database, held >>

InsertSource(q) ==
  /\ At(q, "source") /\ Blockers(q) = {}
  /\ \/ source /\ Abort(q)
     \/ ~source /\ Take(q) /\ GoTo(q, "lookup") /\ UNCHANGED database

(* A batch of the same file is reused, and changes its operator. *)
LookUpBatch(q) ==
  /\ At(q, "lookup")
  /\ LET found == batch[tx[q].file]
     IN  GoTo(q, IF found = None THEN "known"
                 ELSE IF found.operator # Operator[q] THEN "operator" ELSE "analyse")
  /\ UNCHANGED << database, held >>

UpdateOperator(q) ==
  /\ At(q, "operator") /\ Take(q) /\ GoTo(q, "analyse")
  /\ UNCHANGED database

ReadKnown(q) ==
  /\ At(q, "known")
  /\ tx' = [tx EXCEPT ![q].pc = "batch",
                      ![q].known = {i \in Importable(tx[q].file) : stored[i] # None}]
  /\ UNCHANGED << database, held >>

InsertBatch(q) ==
  /\ At(q, "batch") /\ Blockers(q) = {}
  /\ \/ batch[tx[q].file] # None /\ Abort(q)
     \/ batch[tx[q].file] = None /\ Take(q) /\ GoTo(q, "voices") /\ UNCHANGED database

UncheckedVoice(i) == FALSE     \* mutant: no unique index on the voices

VoiceTaken(i) == stored[i] # None

InsertVoice(q) ==
  /\ At(q, "voices") /\ Blockers(q) = {}
  /\ \/ /\ \E i \in NextVoice(q) : VoiceTaken(i)
        /\ Abort(q)
     \/ /\ Pending(q) # {} /\ \A i \in NextVoice(q) : ~VoiceTaken(i)
        /\ Take(q) /\ UNCHANGED << database, tx >>
     \/ /\ Pending(q) = {}
        /\ GoTo(q, "analyse") /\ UNCHANGED << database, held >>

NoneRun(q) == FALSE      \* mutant: the previous runs are not looked for

PreviousRun(q) == baseline[tx[q].file] # {}

(* run_local_baseline, or create_model_analysis_job, which ModelBudget     *)
(* describes: without new voices there is nothing to analyse.              *)
Analyse(q) ==
  /\ At(q, "analyse")
  /\ \/ /\ tx[q].provider = "local" /\ PreviousRun(q)
        /\ GoTo(q, "store") /\ UNCHANGED << database, held >>
     \/ /\ tx[q].provider = "local" /\ ~PreviousRun(q) /\ Records(q) # {}
        /\ tx' = [tx EXCEPT ![q].pc = "status", ![q].run = TRUE]
        /\ UNCHANGED << database, held >>
     \/ /\ tx[q].provider = "model" /\ Records(q) # {}
        /\ GoTo(q, "store") /\ UNCHANGED << database, held >>
     \/ /\ Records(q) = {} /\ (tx[q].provider = "local" => ~PreviousRun(q))
        /\ Abort(q)

UpdateSource(q) ==
  /\ At(q, "status") /\ Take(q) /\ GoTo(q, "store")
  /\ UNCHANGED database

(* The file is put into the object store, then the transaction commits. *)
Commit(q) ==
  LET f == tx[q].file
  IN  /\ At(q, "store")
      /\ source' = (source \/ SourceName \in held[q])
      /\ batch' = [batch EXCEPT ![f] =
           IF Fresh(q)
             THEN [provider |-> tx[q].provider, operator |-> Operator[q],
                   count |-> Cardinality(Importable(f) \ tx[q].known)]
           ELSE IF BatchRow(f) \in held[q] THEN [@ EXCEPT !.operator = Operator[q]]
           ELSE @]
      /\ stored' = [i \in Ids |-> IF i \in Inserted(q) THEN f ELSE stored[i]]
      /\ baseline' = [baseline EXCEPT ![f] = IF tx[q].run THEN @ \cup {q} ELSE @]
      /\ versions' = versions \cup (IF tx[q].run THEN {Draft(f, Records(q))} ELSE {})
      /\ End(q)

(* The object store or the budget refuses, the client goes away, or the    *)
(* process or its connection is lost.                                      *)
Fail(q) == tx[q].pc \notin {"idle", "done"} /\ Abort(q)

NoVictim(waiting) == FALSE      \* mutant: deadlocks are not detected

Deadlocked(waiting) == waiting # {} /\ UNION {Blockers(r) : r \in waiting} = waiting

(* PostgreSQL aborts one of the uploads that wait for each other. *)
AbortVictim(q) ==
  /\ Blockers(q) # {}
  /\ \E waiting \in SUBSET Requests : q \in waiting /\ Deadlocked(waiting)
  /\ Abort(q)

(* create_taxonomy_revision.  An edit reads one committed version and adds *)
(* another, which no upload reads: bound, it happens after the uploads.     *)
Edited(version) ==
  LET selections == SUBSET ClustersOf(version) \ {{}}
  IN  {Merge(version, s[1], s[2]) : s \in {t \in selections \X Clusters : CanMerge(version, t[1], t[2])}}
        \cup {Rename(version, {c}) : c \in ClustersOf(version)}
        \cup {Remove(version, selected) : selected \in selections}
        \cup {Restore(version, selected) : selected \in {s \in selections : CanRestore(version, s)}}
        \cup UNION {
            {Split(version, c, group) :
               group \in {g \in UNION {[new -> SUBSET Members(version, c)] : new \in SUBSET Clusters} :
                             CanSplit(version, c, g)}} :
            c \in ClustersOf(version)}

EditTaxonomy ==
  /\ \A q \in Requests : At(q, "done")
  /\ Cardinality(versions) < MaxVersions
  /\ \E version \in versions : \E revised \in Edited(version) : versions' = versions \cup {revised}
  /\ UNCHANGED << source, batch, stored, baseline, tx, held >>

Step(q) ==
  \/ InsertSource(q) \/ LookUpBatch(q) \/ UpdateOperator(q) \/ ReadKnown(q) \/ InsertBatch(q)
  \/ InsertVoice(q) \/ Analyse(q) \/ UpdateSource(q) \/ Commit(q) \/ AbortVictim(q)

Next ==
  \/ \E q \in Requests, f \in Files, provider \in Provider : Begin(q, f, provider)
  \/ \E q \in Requests : Step(q) \/ Fail(q)
  \/ EditTaxonomy

(* The server goes on with a request it has begun, and the detector of     *)
(* deadlocks runs; nobody has to upload or to edit, and nothing has to     *)
(* fail.                                                                   *)
Fairness == \A q \in Requests : WF_vars(Step(q))

Spec == Init /\ [][Next]_vars /\ Fairness

-----------------------------------------------------------------------------
TypeOK ==
  /\ source \in BOOLEAN
  /\ batch \in [Files -> Batch \cup {None}]
  /\ stored \in [Ids -> Files \cup {None}]
  /\ baseline \in [Files -> SUBSET Requests]
  /\ versions \subseteq Version
  /\ tx \in [Requests -> Upload]
  /\ held \in [Requests -> SUBSET Key]

(* A committed batch is a whole file: every voice it brings is stored,     *)
(* with it or with an earlier batch, its count is the number of voices     *)
(* that came with it, no voice belongs to a batch that was rolled back,    *)
(* and a batch imported for the keyword rules has exactly one baseline.    *)
ImportIsWhole ==
  /\ \A i \in Ids : stored[i] # None => batch[stored[i]] # None /\ i \in Importable(stored[i])
  /\ \A f \in Files : batch[f] # None =>
       /\ \A i \in Importable(f) : stored[i] # None
       /\ batch[f].count = Cardinality({i \in Ids : stored[i] = f})
       /\ batch[f].provider = "local" => \E q \in Requests : baseline[f] = {q}

Places(version, i) == {c \in Clusters \cup {None} : << i, c >> \in version.rows}

(* However a taxonomy has been edited, each signal of its batch is in one  *)
(* cluster of every version, and no version sorts a signal of another.     *)
OneCluster ==
  \A version \in versions, i \in Ids :
    IF stored[i] = version.batch
      THEN \E c \in ClustersOf(version) : Places(version, i) = {c}
      ELSE Places(version, i) = {}

(* Every upload is answered, even if uploads wait for each other's keys. *)
EveryUploadEnds == \A q \in Requests : tx[q].pc # "idle" ~> tx[q].pc = "done"

Underway == {q \in Requests : tx[q].pc \notin {"idle", "done"}}

(* What EveryUploadEnds rests on: as long as an upload is underway, there  *)
(* is one that waits for nobody, or one that the detector of deadlocks     *)
(* aborts, for uploads that all wait make a circle.                        *)
SomebodyGoesOn ==
  Underway # {} =>
    \E q \in Underway :
      \/ Blockers(q) = {}
      \/ \E waiting \in SUBSET Requests : q \in waiting /\ Deadlocked(waiting)

(* And on this: what an upload has ahead of it shrinks with every step it  *)
(* takes or suffers, by a statement or, while it inserts its voices, by    *)
(* rows of the file, of which there are finitely many.                     *)
Distance(q) ==
  CASE At(q, "source")  -> 8
    [] At(q, "lookup")  -> 7
    [] At(q, "known")   -> 6
    [] At(q, "batch")   -> 5
    [] At(q, "voices") \/ At(q, "operator") -> 4
    [] At(q, "analyse") -> 3
    [] At(q, "status")  -> 2
    [] At(q, "store")   -> 1
    [] OTHER            -> 0
EveryStepCounts ==
  [][\A q \in Underway :
       tx'[q] # tx[q] \/ held'[q] # held[q] =>
         \/ Distance(q)' < Distance(q)
         \/ /\ At(q, "voices") /\ tx'[q] = tx[q]
            /\ Pending(q)' \subseteq Pending(q) /\ Pending(q)' # Pending(q)]_vars

Via(f) == IF batch[f] = None THEN None ELSE batch[f].provider

Register == INSTANCE ImportRegister
              WITH via <- [f \in Files |-> Via(f)], owner <- stored, analyses <- baseline,
                   Runs <- Requests, Brings <- [f \in Files |-> Importable(f)]

(* Uploads are as good as serial: although each looks for the known voices *)
(* and inserts the others one by one, what it commits is all the voices of *)
(* its file that are not stored at the moment it commits, never none of    *)
(* them; no voice moves from one batch to another, and no baseline comes   *)
(* to a batch for the keyword rules after the one it was imported with.    *)
KeepsRegister == Register!Spec
=============================================================================
