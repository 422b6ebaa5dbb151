---------------------------- MODULE IntakeProofs ----------------------------
(***************************************************************************)
(* Theorems about Intake, for any number of uploads, files and voices, and *)
(* about every version of the taxonomy.                                    *)
(***************************************************************************)
EXTENDS Intake, FiniteSetTheorems, WellFoundedInduction, TLAPS

(* No two uploads hold the same index key or row lock. *)
Exclusive == \A q, r \in Requests : q # r => held[q] \cap held[r] = {}

(* What an upload has read still holds where it relies on it, and what it  *)
(* holds tells how far it has come.                                        *)
Consistent(q) ==
  LET f == tx[q].file
      pc == tx[q].pc
  IN  /\ pc \notin {"idle", "done"} => f \in Files
      /\ pc \in {"idle", "done"} => held[q] = {}
      /\ \A i \in tx[q].known : stored[i] # None
      /\ \A i \in Inserted(q) : i \in Importable(f) \ tx[q].known /\ stored[i] = None /\ Fresh(q)
      /\ \A g \in Files : BatchKey(g) \in held[q] =>
           g = f /\ batch[f] = None /\ pc \in {"voices", "analyse", "status", "store"}
      /\ \A g \in Files : BatchRow(g) \in held[q] => g = f /\ batch[f] # None
      /\ pc = "voices" => Fresh(q)
      /\ pc = "operator" => batch[f] # None
      /\ pc \in {"analyse", "status", "store"} =>
           IF Fresh(q) THEN Importable(f) \ tx[q].known \subseteq Inserted(q) ELSE batch[f] # None
      /\ tx[q].run =>
           pc \in {"status", "store"} /\ tx[q].provider = "local"
             /\ (Fresh(q) \/ (batch[f] # None /\ batch[f].provider = "model"))
      /\ pc = "status" => tx[q].run
      /\ pc = "store" /\ tx[q].provider = "local" /\ Fresh(q) => tx[q].run
      /\ pc \in {"status", "store"} /\ Fresh(q) => Inserted(q) # {}

Database ==
  /\ ImportIsWhole
  /\ OneCluster
  /\ \A f \in Files : batch[f] = None => baseline[f] = {}
  /\ \A f \in Files : batch[f] # None => \E i \in Ids : stored[i] = f
  /\ \A version \in versions : batch[version.batch] # None

IInv ==
  /\ TypeOK
  /\ Exclusive
  /\ Database
  /\ \A q \in Requests : Consistent(q)

-----------------------------------------------------------------------------
LEMMA ImportableIds == ASSUME NEW f \in Files PROVE Importable(f) \subseteq Ids
BY RowsAssumption DEF Importable

LEMMA InitInvariant == Init => IInv
<1> SUFFICES ASSUME Init PROVE IInv
  OBVIOUS
<1>1. Idle \in Upload
  BY DEF Idle, Upload, Phase, Provider
<1>2. TypeOK
  BY <1>1 DEF Init, TypeOK
<1>3. Database
  BY DEF Init, Database, ImportIsWhole, OneCluster
<1>4. ASSUME NEW q \in Requests PROVE Consistent(q)
  BY DEF Init, Consistent, Idle, Inserted
<1> QED
  BY <1>2, <1>3, <1>4 DEF IInv, Init, Exclusive

(* A step of one upload that commits nothing disturbs only that upload. *)
LEMMA Moves ==
  ASSUME IInv, UNCHANGED database, NEW q \in Requests, NEW u \in Upload, NEW h \in SUBSET Key,
         tx' = [tx EXCEPT ![q] = u], held' = [held EXCEPT ![q] = h],
         \A r \in Requests \ {q} : h \cap held[r] = {},
         Consistent(q)'
  PROVE  IInv'
<1>1. TypeOK'
  BY DEF IInv, TypeOK, database
<1>2. Exclusive'
  BY DEF IInv, TypeOK, Exclusive
<1>3. Database'
  BY DEF IInv, Database, ImportIsWhole, OneCluster, Places, database
<1>4. ASSUME NEW r \in Requests PROVE Consistent(r)'
  <2>1. CASE r = q
    BY <2>1
  <2>2. CASE r # q
    <3>1. tx'[r] = tx[r] /\ held'[r] = held[r]
      BY <2>2 DEF IInv, TypeOK
    <3>2. Consistent(r)
      BY DEF IInv
    <3> QED
      BY <3>1, <3>2 DEF Consistent, Inserted, Fresh, database
  <2> QED
    BY <2>1, <2>2
<1> QED
  BY <1>1, <1>2, <1>3, <1>4 DEF IInv

(* The same for a step that takes nothing. *)
LEMMA Goes ==
  ASSUME IInv, UNCHANGED << database, held >>, NEW q \in Requests, NEW u \in Upload,
         tx' = [tx EXCEPT ![q] = u],
         Consistent(q)'
  PROVE  IInv'
<1>1. held' = [held EXCEPT ![q] = held[q]] /\ held[q] \in SUBSET Key
  BY DEF IInv, TypeOK
<1>2. \A r \in Requests \ {q} : held[q] \cap held[r] = {}
  BY DEF IInv, Exclusive
<1> QED
  BY <1>1, <1>2, Moves

LEMMA TakesFree ==
  ASSUME IInv, NEW q \in Requests, Take(q)
  PROVE  \A r \in Requests \ {q} : (held[q] \cup Wanted(q)) \cap held[r] = {}
BY DEF IInv, Exclusive, Take, Blockers

LEMMA AbortInvariant ==
  ASSUME IInv, NEW q \in Requests, Abort(q) PROVE IInv'
<1>1. Ended \in Upload
  BY DEF Ended, Idle, Upload, Phase, Provider
<1>2. Consistent(q)'
  <2>1. tx'[q] = Ended /\ held'[q] = {}
    BY DEF IInv, TypeOK, Abort, End
  <2> QED
    BY <2>1 DEF Consistent, Ended, Idle, Inserted
<1> QED
  BY <1>1, <1>2, Moves DEF Abort, End

LEMMA BeginInvariant ==
  ASSUME IInv, NEW q \in Requests, NEW f \in Files, NEW provider \in Provider, Begin(q, f, provider)
  PROVE  IInv'
<1> DEFINE u == IF Importable(f) = {} THEN Ended
                ELSE [Idle EXCEPT !.pc = IF source THEN "lookup" ELSE "source",
                                  !.file = f, !.provider = provider]
<1>1. u \in Upload
  BY DEF Ended, Idle, Upload, Phase, Provider
<1>2. tx' = [tx EXCEPT ![q] = u]
  BY DEF Begin
<1>3. Consistent(q)'
  <2>1. tx'[q] = u /\ held'[q] = {}
    BY <1>2 DEF IInv, TypeOK, Begin, At, Consistent
  <2> QED
    BY <2>1 DEF Consistent, Ended, Idle, Inserted
<1> QED
  BY <1>1, <1>2, <1>3, Goes DEF Begin

LEMMA InsertSourceInvariant ==
  ASSUME IInv, NEW q \in Requests, InsertSource(q) PROVE IInv'
<1>1. CASE source /\ Abort(q)
  BY <1>1, AbortInvariant
<1>2. CASE ~source /\ Take(q) /\ GoTo(q, "lookup") /\ UNCHANGED database
  <2> DEFINE u == [tx[q] EXCEPT !.pc = "lookup"]
             h == held[q] \cup Wanted(q)
  <2>1. u \in Upload /\ tx' = [tx EXCEPT ![q] = u] /\ held' = [held EXCEPT ![q] = h]
    BY <1>2 DEF IInv, TypeOK, Upload, Phase, GoTo, Take
  <2>2. Wanted(q) = {SourceName}
    BY DEF InsertSource, At, Wanted
  <2>3. h \in SUBSET Key
    BY <2>2 DEF IInv, TypeOK, Key
  <2>4. Consistent(q)'
    <3>1. tx'[q] = u /\ held'[q] = held[q] \cup {SourceName}
      BY <2>1, <2>2 DEF IInv, TypeOK
    <3>2. Consistent(q) /\ tx[q].pc = "source" /\ tx[q] \in Upload
      BY DEF IInv, TypeOK, InsertSource, At
    <3> QED
      BY <1>2, <3>1, <3>2
      DEF Consistent, Upload, Inserted, Fresh, SourceName, BatchKey, BatchRow, VoiceKey, database
  <2> QED
    BY <1>2, <2>1, <2>3, <2>4, TakesFree, Moves
<1> QED
  BY <1>1, <1>2 DEF InsertSource

LEMMA LookUpBatchInvariant ==
  ASSUME IInv, NEW q \in Requests, LookUpBatch(q) PROVE IInv'
<1> DEFINE pc == IF batch[tx[q].file] = None THEN "known"
                 ELSE IF batch[tx[q].file].operator # Operator[q] THEN "operator" ELSE "analyse"
           u == [tx[q] EXCEPT !.pc = pc]
<1>1. u \in Upload /\ tx' = [tx EXCEPT ![q] = u]
  BY DEF IInv, TypeOK, Upload, Phase, LookUpBatch, GoTo
<1>2. Consistent(q)'
  <2>1. tx'[q] = u /\ held'[q] = held[q]
    BY <1>1 DEF IInv, TypeOK, LookUpBatch
  <2>2. Consistent(q) /\ tx[q].pc = "lookup" /\ tx[q] \in Upload
    BY DEF IInv, TypeOK, LookUpBatch, At
  <2> QED
    BY <2>1, <2>2 DEF LookUpBatch, Consistent, Upload, Inserted, Fresh, database
<1> QED
  BY <1>1, <1>2, Goes DEF LookUpBatch

LEMMA UpdateOperatorInvariant ==
  ASSUME IInv, NEW q \in Requests, UpdateOperator(q) PROVE IInv'
<1> DEFINE u == [tx[q] EXCEPT !.pc = "analyse"]
           h == held[q] \cup Wanted(q)
<1>1. u \in Upload /\ tx' = [tx EXCEPT ![q] = u] /\ held' = [held EXCEPT ![q] = h]
  BY DEF IInv, TypeOK, Upload, Phase, UpdateOperator, GoTo, Take
<1>2. Consistent(q) /\ tx[q].pc = "operator" /\ tx[q] \in Upload /\ tx[q].file \in Files
  BY DEF IInv, TypeOK, UpdateOperator, At, Consistent
<1>3. Wanted(q) = {BatchRow(tx[q].file)}
  BY <1>2 DEF Wanted
<1>4. h \in SUBSET Key
  BY <1>2, <1>3 DEF IInv, TypeOK, Key
<1>5. Consistent(q)'
  <2>1. tx'[q] = u /\ held'[q] = held[q] \cup {BatchRow(tx[q].file)}
    BY <1>1, <1>3 DEF IInv, TypeOK
  <2> QED
    BY <1>2, <2>1
    DEF UpdateOperator, Consistent, Upload, Inserted, Fresh, BatchKey, BatchRow, VoiceKey, database
<1> QED
  BY <1>1, <1>4, <1>5, TakesFree, Moves DEF UpdateOperator

LEMMA ReadKnownInvariant ==
  ASSUME IInv, NEW q \in Requests, ReadKnown(q) PROVE IInv'
<1> DEFINE known == {i \in Importable(tx[q].file) : stored[i] # None}
           u == [tx[q] EXCEPT !.pc = "batch", !.known = known]
<1>1. Consistent(q) /\ tx[q].pc = "known" /\ tx[q] \in Upload /\ tx[q].file \in Files
  BY DEF IInv, TypeOK, ReadKnown, At, Consistent
<1>2. known \in SUBSET Ids
  BY <1>1, ImportableIds
<1>3. u \in Upload /\ tx' = [tx EXCEPT ![q] = u]
  BY <1>1, <1>2 DEF IInv, TypeOK, Upload, Phase, ReadKnown
<1>4. Consistent(q)'
  <2>1. tx'[q] = u /\ held'[q] = held[q]
    BY <1>3 DEF IInv, TypeOK, ReadKnown
  <2>2. Inserted(q) = {}
    BY <1>1 DEF Consistent, Fresh
  <2>3. /\ tx'[q].pc = "batch" /\ tx'[q].known = known /\ tx'[q].file = tx[q].file
        /\ tx'[q].provider = tx[q].provider /\ tx'[q].run = tx[q].run
    BY <1>1, <2>1 DEF Upload
  <2> QED
    BY <1>1, <2>1, <2>2, <2>3 DEF ReadKnown, Consistent, Inserted, Fresh, database
<1> QED
  BY <1>3, <1>4, Goes DEF ReadKnown

LEMMA InsertBatchInvariant ==
  ASSUME IInv, NEW q \in Requests, InsertBatch(q) PROVE IInv'
<1>1. CASE batch[tx[q].file] # None /\ Abort(q)
  BY <1>1, AbortInvariant
<1>2. CASE batch[tx[q].file] = None /\ Take(q) /\ GoTo(q, "voices") /\ UNCHANGED database
  <2> DEFINE u == [tx[q] EXCEPT !.pc = "voices"]
             h == held[q] \cup Wanted(q)
  <2>1. u \in Upload /\ tx' = [tx EXCEPT ![q] = u] /\ held' = [held EXCEPT ![q] = h]
    BY <1>2 DEF IInv, TypeOK, Upload, Phase, GoTo, Take
  <2>2. Consistent(q) /\ tx[q].pc = "batch" /\ tx[q] \in Upload /\ tx[q].file \in Files
    BY DEF IInv, TypeOK, InsertBatch, At, Consistent
  <2>3. Wanted(q) = {BatchKey(tx[q].file)}
    BY <2>2 DEF Wanted
  <2>4. h \in SUBSET Key
    BY <2>2, <2>3 DEF IInv, TypeOK, Key
  <2>5. Consistent(q)'
    <3>1. tx'[q] = u /\ held'[q] = held[q] \cup {BatchKey(tx[q].file)}
      BY <2>1, <2>3 DEF IInv, TypeOK
    <3> QED
      BY <1>2, <2>2, <3>1
      DEF Consistent, Upload, Inserted, Fresh, BatchKey, BatchRow, VoiceKey, database
  <2> QED
    BY <1>2, <2>1, <2>4, <2>5, TakesFree, Moves
<1> QED
  BY <1>1, <1>2 DEF InsertBatch

(* Once no row is pending, every new voice of the file has been inserted. *)
LEMMA NothingPending ==
  ASSUME NEW q \in Requests, tx[q].file \in Files, Pending(q) = {}
  PROVE  Importable(tx[q].file) \ tx[q].known \subseteq Inserted(q)
BY DEF Pending, Importable

LEMMA InsertVoiceInvariant ==
  ASSUME IInv, NEW q \in Requests, InsertVoice(q) PROVE IInv'
<1>1. Consistent(q) /\ tx[q].pc = "voices" /\ tx[q] \in Upload /\ tx[q].file \in Files
  BY DEF IInv, TypeOK, InsertVoice, At, Consistent
<1>2. CASE Abort(q)
  BY <1>2, AbortInvariant
<1>3. CASE Take(q) /\ UNCHANGED << database, tx >> /\ \A i \in NextVoice(q) : ~VoiceTaken(i)
  <2> DEFINE h == held[q] \cup Wanted(q)
  <2>1. tx' = [tx EXCEPT ![q] = tx[q]] /\ held' = [held EXCEPT ![q] = h]
    BY <1>3 DEF IInv, TypeOK, Take
  <2>2. Wanted(q) = {VoiceKey(i) : i \in NextVoice(q)}
    BY <1>1 DEF Wanted
  <2>3. NextVoice(q) \subseteq Importable(tx[q].file) \ tx[q].known
    BY DEF NextVoice, Pending, Importable
  <2>4. h \in SUBSET Key
    BY <1>1, <2>2, <2>3, ImportableIds DEF IInv, TypeOK, Key
  <2>5. Consistent(q)'
    <3>1. tx'[q] = tx[q] /\ held'[q] = held[q] \cup {VoiceKey(i) : i \in NextVoice(q)}
      BY <1>3, <2>1, <2>2 DEF IInv, TypeOK
    <3>2. Inserted(q)' = Inserted(q) \cup NextVoice(q)
      BY <1>1, <2>3, <3>1, ImportableIds DEF Inserted, VoiceKey
    <3>3. \A i \in NextVoice(q) : stored[i] = None
      BY <1>3 DEF VoiceTaken
    <3> QED
      BY <1>1, <1>3, <2>3, <3>1, <3>2, <3>3 DEF Consistent, Fresh, BatchKey, BatchRow, VoiceKey, database
  <2> QED
    BY <1>1, <1>3, <2>1, <2>4, <2>5, TakesFree, Moves
<1>4. CASE Pending(q) = {} /\ GoTo(q, "analyse") /\ UNCHANGED << database, held >>
  <2> DEFINE u == [tx[q] EXCEPT !.pc = "analyse"]
  <2>1. u \in Upload /\ tx' = [tx EXCEPT ![q] = u]
    BY <1>1, <1>4 DEF Upload, Phase, GoTo
  <2>2. Consistent(q)'
    <3>1. tx'[q] = u /\ held'[q] = held[q]
      BY <1>4, <2>1 DEF IInv, TypeOK
    <3> QED
      BY <1>1, <1>4, <3>1, NothingPending DEF Consistent, Upload, Inserted, Fresh, database
  <2> QED
    BY <1>4, <2>1, <2>2, Goes
<1> QED
  BY <1>2, <1>3, <1>4 DEF InsertVoice

(* Only an upload that holds its new batch, or finds one imported for a    *)
(* model, ever creates a baseline.                                         *)
LEMMA AnalyseInvariant ==
  ASSUME IInv, NEW q \in Requests, Analyse(q) PROVE IInv'
<1> DEFINE f == tx[q].file
<1>1. Consistent(q) /\ tx[q].pc = "analyse" /\ tx[q] \in Upload /\ f \in Files
  BY DEF IInv, TypeOK, Analyse, At, Consistent
<1>2. batch[f] = None => baseline[f] = {}
  BY <1>1 DEF IInv, Database
<1>3. Fresh(q) => baseline[f] = {}
  BY <1>1, <1>2 DEF Consistent, Fresh
<1>4. CASE Abort(q)
  BY <1>4, AbortInvariant
<1>5. CASE /\ tx[q].provider = "local" => PreviousRun(q)
           /\ tx[q].provider = "model" => Records(q) # {}
           /\ GoTo(q, "store") /\ UNCHANGED << database, held >>
  <2> DEFINE u == [tx[q] EXCEPT !.pc = "store"]
  <2>1. u \in Upload /\ tx' = [tx EXCEPT ![q] = u]
    BY <1>1, <1>5 DEF Upload, Phase, GoTo
  <2>2. Consistent(q)'
    <3>1. tx'[q] = u /\ held'[q] = held[q]
      BY <1>5, <2>1 DEF IInv, TypeOK
    <3> QED
      BY <1>1, <1>3, <1>5, <3>1 DEF Consistent, Upload, Provider, Records, Inserted, Fresh,
           PreviousRun, database
  <2> QED
    BY <1>5, <2>1, <2>2, Goes
<1>6. CASE /\ tx[q].provider = "local" /\ ~PreviousRun(q) /\ Records(q) # {}
           /\ tx' = [tx EXCEPT ![q].pc = "status", ![q].run = TRUE]
           /\ UNCHANGED << database, held >>
  <2> DEFINE u == [tx[q] EXCEPT !.pc = "status", !.run = TRUE]
  <2>1. u \in Upload /\ tx' = [tx EXCEPT ![q] = u]
    BY <1>1, <1>6 DEF Upload, Phase
  <2>2. ~Fresh(q) => batch[f] # None /\ batch[f].provider = "model"
    <3>1. ~Fresh(q) => batch[f] # None
      BY <1>1 DEF Consistent
    <3>2. batch[f] # None => batch[f].provider \in Provider
      BY <1>1 DEF IInv, TypeOK, Batch
    <3>3. batch[f] # None /\ batch[f].provider = "local" => baseline[f] # {}
      BY <1>1 DEF IInv, Database, ImportIsWhole
    <3> QED
      BY <1>6, <3>1, <3>2, <3>3 DEF PreviousRun, Provider
  <2>3. Consistent(q)'
    <3>1. tx'[q] = u /\ held'[q] = held[q]
      BY <1>6, <2>1 DEF IInv, TypeOK
    <3>2. /\ tx'[q].pc = "status" /\ tx'[q].run = TRUE /\ tx'[q].file = f
          /\ tx'[q].provider = tx[q].provider /\ tx'[q].known = tx[q].known
      BY <1>1, <3>1 DEF Upload
    <3> QED
      BY <1>1, <1>6, <2>2, <3>1, <3>2 DEF Consistent, Records, Inserted, Fresh, database
  <2> QED
    BY <1>6, <2>1, <2>3, Goes
<1> QED
  BY <1>4, <1>5, <1>6 DEF Analyse

LEMMA UpdateSourceInvariant ==
  ASSUME IInv, NEW q \in Requests, UpdateSource(q) PROVE IInv'
<1> DEFINE u == [tx[q] EXCEPT !.pc = "store"]
           h == held[q] \cup Wanted(q)
<1>1. u \in Upload /\ tx' = [tx EXCEPT ![q] = u] /\ held' = [held EXCEPT ![q] = h]
  BY DEF IInv, TypeOK, Upload, Phase, UpdateSource, GoTo, Take
<1>2. Consistent(q) /\ tx[q].pc = "status" /\ tx[q] \in Upload
  BY DEF IInv, TypeOK, UpdateSource, At
<1>3. Wanted(q) = {SourceRow}
  BY <1>2 DEF Wanted
<1>4. h \in SUBSET Key
  BY <1>3 DEF IInv, TypeOK, Key
<1>5. Consistent(q)'
  <2>1. tx'[q] = u /\ held'[q] = held[q] \cup {SourceRow}
    BY <1>1, <1>3 DEF IInv, TypeOK
  <2> QED
    BY <1>2, <2>1
    DEF UpdateSource, Consistent, Upload, Inserted, Fresh, SourceRow, BatchKey, BatchRow, VoiceKey, database
<1> QED
  BY <1>1, <1>4, <1>5, TakesFree, Moves DEF UpdateSource

-----------------------------------------------------------------------------
LEMMA DraftVersion ==
  ASSUME NEW f \in Files, NEW records \in SUBSET Ids
  PROVE  /\ Draft(f, records) \in Version
         /\ \A i \in Ids :
              IF i \in records
                THEN \E c \in ClustersOf(Draft(f, records)) : Places(Draft(f, records), i) = {c}
                ELSE Places(Draft(f, records), i) = {}
<1> DEFINE domain == {Theme[i] : i \in records}
           status == [c \in domain |-> "active"]
           rows == {<< i, Theme[i] >> : i \in records}
<1>1. domain \in SUBSET Clusters
  BY ThemeAssumption
<1>2. status \in UNION {[d -> ClusterStatus] : d \in SUBSET Clusters}
  <2>1. status \in [domain -> ClusterStatus]
    BY DEF ClusterStatus
  <2> HIDE DEF status, domain
  <2> QED
    BY <1>1, <2>1
<1>3. rows \in SUBSET (Ids \X (Clusters \cup {None}))
  BY ThemeAssumption
<1>4. ASSUME NEW i \in Ids
      PROVE  IF i \in records
               THEN \E c \in ClustersOf(Draft(f, records)) : Places(Draft(f, records), i) = {c}
               ELSE Places(Draft(f, records), i) = {}
  <2>1. Places(Draft(f, records), i) = {c \in Clusters \cup {None} : << i, c >> \in rows}
    BY DEF Places, Draft
  <2>2. ClustersOf(Draft(f, records)) = domain
    BY DEF ClustersOf, Draft
  <2>3. CASE i \in records
    <3>1. Places(Draft(f, records), i) = {Theme[i]}
      BY <2>1, <2>3, ThemeAssumption
    <3> QED
      BY <2>2, <2>3, <3>1
  <2>4. CASE i \notin records
    BY <2>1, <2>4
  <2> QED
    BY <2>3, <2>4
<1> QED
  BY <1>2, <1>3, <1>4 DEF Draft, Version

LEMMA CommitInvariant ==
  ASSUME IInv, NEW q \in Requests, Commit(q) PROVE IInv'
<1> DEFINE f == tx[q].file
           new == [provider |-> tx[q].provider, operator |-> Operator[q],
                   count |-> Cardinality(Importable(f) \ tx[q].known)]
<1> USE DEF IInv
<1>1. Consistent(q) /\ tx[q].pc = "store" /\ tx[q] \in Upload /\ f \in Files
  BY DEF TypeOK, Commit, At, Consistent
<1>2. Fresh(q) => batch[f] = None /\ Inserted(q) = Importable(f) \ tx[q].known
  BY <1>1 DEF Consistent, Fresh
<1>3. ~Fresh(q) => batch[f] # None /\ Inserted(q) = {}
  BY <1>1 DEF Consistent
<1>4. \A i \in Inserted(q) : i \in Importable(f) /\ stored[i] = None /\ Fresh(q)
  BY <1>1 DEF Consistent
<1>5. Fresh(q) => \A i \in Ids : stored[i] # f
  BY <1>1, <1>2, NoneAssumption DEF Database, ImportIsWhole
<1>6. stored' = [i \in Ids |-> IF i \in Inserted(q) THEN f ELSE stored[i]]
  BY DEF Commit
<1>7. Inserted(q) \in SUBSET Ids
  BY DEF Inserted
<1>8. Fresh(q) => {i \in Ids : stored'[i] = f} = Inserted(q)
  BY <1>5, <1>6, <1>7
<1>9. ~Fresh(q) => stored' = stored
  BY <1>3, <1>6 DEF TypeOK
<1>10. \A g \in Files \ {f}, i \in Ids : stored'[i] = g <=> stored[i] = g
  BY <1>1, <1>4, <1>6, NoneAssumption
<1>11. \A g \in Files \ {f} : batch'[g] = batch[g] /\ baseline'[g] = baseline[g]
  BY <1>1 DEF TypeOK, Commit
<1>12. Fresh(q) => batch'[f] = new
  BY <1>1 DEF TypeOK, Commit
<1>13. new \in Batch
  <2>1. IsFiniteSet(Importable(f) \ tx[q].known)
    BY <1>1, ImportableIds, RowsAssumption, FS_Subset
  <2>2. new.count \in Nat
    BY <2>1, FS_CardinalityType
  <2> QED
    BY <1>1, <2>2, OperatorAssumption DEF Batch, Upload
<1>14. ~Fresh(q) => /\ batch'[f] \in Batch
                    /\ batch'[f].provider = batch[f].provider
                    /\ batch'[f].count = batch[f].count
  <2>1. ~Fresh(q) => batch[f] \in Batch
    BY <1>1, <1>3 DEF TypeOK
  <2>2. ~Fresh(q) => batch'[f] = IF BatchRow(f) \in held[q] THEN [batch[f] EXCEPT !.operator = Operator[q]]
                                 ELSE batch[f]
    BY <1>1 DEF TypeOK, Commit
  <2> QED
    BY <2>1, <2>2, OperatorAssumption DEF Batch
<1>15. batch'[f] \in Batch
  BY <1>12, <1>13, <1>14
<1>16. batch'[f] # None
  BY <1>15, BatchAssumption
<1>17. TypeOK'
  <2>1. batch' \in [Files -> Batch \cup {None}]
    <3>1. batch' = [batch EXCEPT ![f] = batch'[f]]
      BY <1>1 DEF TypeOK, Commit
    <3> QED
      BY <1>1, <1>15, <3>1 DEF TypeOK
  <2>2. stored' \in [Ids -> Files \cup {None}]
    BY <1>1, <1>6 DEF TypeOK
  <2>3. baseline' \in [Files -> SUBSET Requests]
    BY <1>1 DEF TypeOK, Commit
  <2>4. versions' \subseteq Version
    <3>1. Records(q) \in SUBSET Ids
      BY <1>7 DEF Records
    <3>2. Draft(f, Records(q)) \in Version
      BY <1>1, <3>1, DraftVersion
    <3> QED
      BY <3>2 DEF TypeOK, Commit
  <2>5. Ended \in Upload
    BY DEF Ended, Idle, Upload, Phase, Provider
  <2>6. tx' \in [Requests -> Upload] /\ held' \in [Requests -> SUBSET Key]
    BY <2>5 DEF TypeOK, Commit, End
  <2>7. source' \in BOOLEAN
    BY DEF TypeOK, Commit
  <2> QED
    BY <2>1, <2>2, <2>3, <2>4, <2>6, <2>7 DEF TypeOK
<1>18. Exclusive'
  BY DEF TypeOK, Exclusive, Commit, End
<1>19. ImportIsWhole'
  <2>1. ASSUME NEW i \in Ids, stored'[i] # None
        PROVE  batch'[stored'[i]] # None /\ i \in Importable(stored'[i])
    <3>1. CASE i \in Inserted(q)
      BY <1>4, <1>6, <1>16, <3>1
    <3>2. CASE i \notin Inserted(q)
      <4>1. stored'[i] = stored[i] /\ stored[i] \in Files
        BY <1>6, <2>1, <3>2 DEF TypeOK
      <4>2. batch[stored[i]] # None /\ i \in Importable(stored[i])
        BY <2>1, <4>1 DEF Database, ImportIsWhole
      <4> QED
        BY <1>11, <1>16, <4>1, <4>2
    <3> QED
      BY <3>1, <3>2
  <2>2. ASSUME NEW i \in Ids, stored[i] # None PROVE stored'[i] # None
    BY <1>1, <1>6, <2>2, NoneAssumption
  <2>3. ASSUME NEW g \in Files, batch'[g] # None
        PROVE  /\ \A i \in Importable(g) : stored'[i] # None
               /\ batch'[g].count = Cardinality({i \in Ids : stored'[i] = g})
               /\ batch'[g].provider = "local" => \E r \in Requests : baseline'[g] = {r}
    <3>1. CASE g # f
      <4>1. {i \in Ids : stored'[i] = g} = {i \in Ids : stored[i] = g}
        BY <1>10, <3>1
      <4> QED
        BY <1>11, <2>2, <2>3, <3>1, <4>1, ImportableIds DEF Database, ImportIsWhole
    <3>2. CASE g = f /\ Fresh(q)
      <4>1. \A i \in Importable(f) : stored'[i] # None
        <5>1. \A i \in tx[q].known : stored[i] # None /\ i \in Ids
          BY <1>1 DEF Consistent, Upload
        <5> QED
          BY <1>1, <1>2, <1>6, <1>7, <2>2, <3>2, <5>1, NoneAssumption, ImportableIds
      <4>2. batch'[f].count = Cardinality({i \in Ids : stored'[i] = f})
        BY <1>2, <1>8, <1>12, <3>2
      <4>3. batch'[f].provider = "local" => baseline'[f] = {q}
        <5>1. batch'[f].provider = "local" => tx[q].run
          BY <1>1, <1>12, <3>2 DEF Consistent
        <5>2. baseline[f] = {}
          BY <1>1, <1>2, <3>2 DEF Database
        <5>3. tx[q].run => baseline'[f] = baseline[f] \cup {q}
          BY <1>1 DEF TypeOK, Commit
        <5> QED
          BY <5>1, <5>2, <5>3
      <4> QED
        BY <3>2, <4>1, <4>2, <4>3
    <3>3. CASE g = f /\ ~Fresh(q)
      <4>1. batch[f] # None
        BY <1>3, <3>3
      <4>2. batch'[f].provider = "local" => baseline'[f] = baseline[f]
        <5>1. batch'[f].provider = "local" => ~tx[q].run
          BY <1>1, <1>14, <3>3 DEF Consistent
        <5> QED
          BY <1>1, <5>1 DEF TypeOK, Commit
      <4> QED
        BY <1>1, <1>9, <1>14, <3>3, <4>1, <4>2 DEF Database, ImportIsWhole
    <3> QED
      BY <3>1, <3>2, <3>3
  <2> QED
    BY <2>1, <2>3 DEF ImportIsWhole
<1>20. \A version \in versions : batch'[version.batch] # None
  <2> SUFFICES ASSUME NEW version \in versions PROVE batch'[version.batch] # None
    OBVIOUS
  <2>1. version.batch \in Files /\ batch[version.batch] # None
    BY DEF TypeOK, Version, Database
  <2> QED
    BY <1>11, <1>16, <2>1
<1>21. OneCluster'
  <2> SUFFICES ASSUME NEW version \in versions', NEW i \in Ids
               PROVE  IF stored'[i] = version.batch
                        THEN \E c \in ClustersOf(version) : Places(version, i) = {c}
                        ELSE Places(version, i) = {}
    BY DEF OneCluster, Places, ClustersOf
  <2>1. CASE version \in versions
    <3>1. version.batch \in Files /\ batch[version.batch] # None
      BY <2>1 DEF TypeOK, Version, Database
    <3>2. stored'[i] = version.batch <=> stored[i] = version.batch
      BY <1>2, <1>9, <1>10, <3>1
    <3> QED
      BY <2>1, <3>2 DEF Database, OneCluster
  <2>2. CASE version = Draft(f, Records(q))
    <3>1. Records(q) \in SUBSET Ids /\ (i \in Records(q) <=> stored'[i] = f)
      BY <1>7, <1>8, <1>9 DEF Records
    <3>2. Draft(f, Records(q)).batch = f
      BY DEF Draft
    <3> QED
      BY <1>1, <2>2, <3>1, <3>2, DraftVersion
  <2> QED
    BY <2>1, <2>2 DEF Commit
<1>22. Database'
  <2>1. \A g \in Files : batch'[g] = None => baseline'[g] = {}
    BY <1>11, <1>16 DEF Database
  <2>2. Draft(f, Records(q)).batch = f
    BY DEF Draft
  <2>3. \A version \in versions' : batch'[version.batch] # None
    BY <1>16, <1>20, <2>2 DEF Commit
  <2>4. ASSUME NEW g \in Files, batch'[g] # None PROVE \E i \in Ids : stored'[i] = g
    <3>1. CASE g = f /\ Fresh(q)
      BY <1>1, <1>8, <3>1 DEF Consistent
    <3>2. CASE g = f /\ ~Fresh(q)
      BY <1>3, <1>9, <3>2 DEF Database
    <3>3. CASE g # f
      BY <1>10, <1>11, <2>4, <3>3 DEF Database
    <3> QED
      BY <3>1, <3>2, <3>3
  <2> QED
    BY <1>19, <1>21, <2>1, <2>3, <2>4 DEF Database
<1>23. ASSUME NEW r \in Requests PROVE Consistent(r)'
  <2>1. CASE r = q
    <3>1. tx'[r] = Ended /\ held'[r] = {}
      BY <2>1 DEF TypeOK, Commit, End
    <3> QED
      BY <3>1 DEF Consistent, Ended, Idle, Inserted
  <2>2. CASE r # q
    <3>1. tx'[r] = tx[r] /\ held'[r] = held[r]
      BY <2>2 DEF TypeOK, Commit, End
    <3>2. Consistent(r) /\ tx[r] \in Upload
      BY DEF TypeOK
    <3>3. \A i \in Ids : stored[i] # None => stored'[i] # None
      BY <1>1, <1>6, NoneAssumption
    <3>4. \A i \in Inserted(r) : stored'[i] = stored[i]
      BY <1>6, <2>2 DEF Inserted, Exclusive
    <3>5. \A g \in Files : batch[g] # None =>
             batch'[g] # None /\ batch'[g].provider = batch[g].provider
      BY <1>2, <1>11, <1>14, <1>16
    <3>6. \A g \in Files : BatchKey(g) \in held[r] /\ batch[g] = None => batch'[g] = None
      BY <1>3, <1>11, <2>2 DEF Fresh, Exclusive
    <3>7. /\ tx[r].known \subseteq Ids
          /\ tx[r].pc \notin {"idle", "done"} => tx[r].file \in Files
      BY <3>2 DEF Upload, Consistent
    <3>8. Inserted(r)' = Inserted(r) /\ (Fresh(r)' <=> Fresh(r))
      BY <3>1 DEF Inserted, Fresh
    <3> QED
      BY <3>1, <3>2, <3>3, <3>4, <3>5, <3>6, <3>7, <3>8 DEF Consistent
  <2> QED
    BY <2>1, <2>2
<1> QED
  BY <1>17, <1>18, <1>22, <1>23

-----------------------------------------------------------------------------
(* A version sorts a set of signals when each of them, and no other, is in *)
(* one of its clusters.                                                    *)
Sorts(version, signals) ==
  \A i \in Ids :
    IF i \in signals
      THEN \E c \in ClustersOf(version) : Places(version, i) = {c}
      ELSE Places(version, i) = {}

LEMMA StatusType ==
  ASSUME NEW domain \in SUBSET Clusters, NEW status \in [domain -> ClusterStatus]
  PROVE  status \in UNION {[d -> ClusterStatus] : d \in SUBSET Clusters}
OBVIOUS

LEMMA VersionType ==
  ASSUME NEW version \in Version
  PROVE  /\ ClustersOf(version) \in SUBSET Clusters
         /\ version.status \in [ClustersOf(version) -> ClusterStatus]
         /\ version.rows \subseteq Ids \X (Clusters \cup {None})
<1>1. PICK d \in SUBSET Clusters : version.status \in [d -> ClusterStatus]
  BY DEF Version
<1>2. ClustersOf(version) = d
  BY <1>1 DEF ClustersOf
<1> QED
  BY <1>1, <1>2 DEF Version

LEMMA MergeSorts ==
  ASSUME NEW version \in Version, NEW signals, Sorts(version, signals),
         NEW selected, NEW new, CanMerge(version, selected, new)
  PROVE  /\ Merge(version, selected, new) \in Version
         /\ Merge(version, selected, new).batch = version.batch
         /\ Sorts(Merge(version, selected, new), signals)
<1> DEFINE kept == ClustersOf(version) \ selected
           status == [c \in kept \cup {new} |-> IF c = new THEN "active" ELSE version.status[c]]
           rows == {<< row[1], IF row[2] \in selected THEN new ELSE row[2] >> : row \in version.rows}
           merged == Merge(version, selected, new)
<1>1. new \in Clusters /\ new \notin kept /\ selected \subseteq ClustersOf(version)
  BY DEF CanMerge
<1>2. status \in [kept \cup {new} -> ClusterStatus] /\ kept \cup {new} \in SUBSET Clusters
  BY <1>1, VersionType DEF ClusterStatus
<1>3. rows \subseteq Ids \X (Clusters \cup {None})
  BY <1>1, VersionType
<1>4. merged.status = status /\ merged.rows = rows /\ merged.batch = version.batch
  BY DEF Merge, Version
<1>5. merged = [version EXCEPT !.status = status, !.rows = rows]
  BY DEF Merge
<1>6. merged \in Version
  <2>1. status \in UNION {[d -> ClusterStatus] : d \in SUBSET Clusters}
    BY <1>2, StatusType
  <2> HIDE DEF status, rows
  <2> QED
    BY <1>3, <1>5, <2>1 DEF Version
<1>7. ClustersOf(merged) = kept \cup {new}
  BY <1>4 DEF ClustersOf
<1>8. ASSUME NEW i \in Ids
      PROVE  IF i \in signals
               THEN \E c \in ClustersOf(merged) : Places(merged, i) = {c}
               ELSE Places(merged, i) = {}
  <2>1. Places(merged, i) = {IF c \in selected THEN new ELSE c : c \in Places(version, i)}
    <3>1. Places(merged, i) = {c \in Clusters \cup {None} : << i, c >> \in rows}
      BY <1>4 DEF Places
    <3>2. ASSUME NEW c, << i, c >> \in rows
          PROVE  \E d \in Places(version, i) : c = IF d \in selected THEN new ELSE d
      <4>1. PICK row \in version.rows : << i, c >> = << row[1], IF row[2] \in selected THEN new ELSE row[2] >>
        BY <3>2
      <4>2. row = << row[1], row[2] >> /\ row[2] \in Clusters \cup {None} /\ row[1] = i
        BY <4>1, VersionType
      <4>3. row[2] \in Places(version, i)
        BY <4>2 DEF Places
      <4> QED
        BY <4>1, <4>3
    <3>3. ASSUME NEW d \in Places(version, i)
          PROVE  (IF d \in selected THEN new ELSE d) \in Places(merged, i)
      <4>1. << i, d >> \in version.rows
        BY DEF Places
      <4>2. << i, IF d \in selected THEN new ELSE d >> \in rows
        BY <4>1
      <4> QED
        BY <1>1, <3>1, <4>2 DEF Places
    <3> QED
      BY <3>1, <3>2, <3>3
  <2>2. IF i \in signals THEN \E c \in ClustersOf(version) : Places(version, i) = {c}
                         ELSE Places(version, i) = {}
    BY DEF Sorts
  <2> QED
    BY <1>7, <2>1, <2>2
<1> QED
  BY <1>4, <1>6, <1>8 DEF Sorts

(* Removing and restoring change the status of clusters alone. *)
LEMMA StatusSorts ==
  ASSUME NEW version \in Version, NEW signals, Sorts(version, signals),
         NEW status \in [ClustersOf(version) -> ClusterStatus],
         NEW revised, revised = [version EXCEPT !.status = status]
  PROVE  /\ revised \in Version
         /\ revised.batch = version.batch
         /\ Sorts(revised, signals)
<1>1. status \in UNION {[d -> ClusterStatus] : d \in SUBSET Clusters}
  BY VersionType, StatusType
<1>2. revised \in Version
  BY <1>1 DEF Version
<1>3. revised.rows = version.rows /\ revised.batch = version.batch /\ revised.status = status
  BY DEF Version
<1>4. ClustersOf(revised) = ClustersOf(version)
  BY <1>3 DEF ClustersOf
<1> QED
  BY <1>2, <1>3, <1>4 DEF Sorts, Places

LEMMA SplitSorts ==
  ASSUME NEW version \in Version, NEW signals, Sorts(version, signals),
         NEW cluster \in ClustersOf(version),
         NEW new \in SUBSET Clusters, NEW group \in [new -> SUBSET Members(version, cluster)],
         CanSplit(version, cluster, group)
  PROVE  /\ Split(version, cluster, group) \in Version
         /\ Split(version, cluster, group).batch = version.batch
         /\ Sorts(Split(version, cluster, group), signals)
<1> DEFINE kept == ClustersOf(version) \ {cluster}
           status == [c \in kept \cup new |-> IF c \in new THEN "active" ELSE version.status[c]]
           rows == {row \in version.rows : row[2] # cluster} \cup UNION {group[c] \X {c} : c \in new}
           split == Split(version, cluster, group)
<1>1. /\ DOMAIN group = new /\ new \cap kept = {}
      /\ \A c, d \in new : c # d => group[c] \cap group[d] = {}
      /\ \A i : (\E c \in new : i \in group[c]) <=> i \in Members(version, cluster)
  <2>1. DOMAIN group = new /\ new \cap kept = {}
    BY DEF CanSplit
  <2>2. \A c, d \in new : c # d => group[c] \cap group[d] = {}
    BY <2>1 DEF CanSplit
  <2>3. UNION {group[c] : c \in new} = Members(version, cluster)
    BY <2>1 DEF CanSplit
  <2>4. \A i : i \in UNION {group[c] : c \in new} <=> \E c \in new : i \in group[c]
    OBVIOUS
  <2> QED
    BY <2>1, <2>2, <2>3, <2>4
<1>2. \A i : i \in Members(version, cluster) <=> i \in Ids /\ << i, cluster >> \in version.rows
  <2>1. ASSUME NEW i, i \in Members(version, cluster) PROVE i \in Ids /\ << i, cluster >> \in version.rows
    <3>1. PICK row \in version.rows : row[1] = i /\ row[2] = cluster
      BY <2>1 DEF Members
    <3>2. row = << row[1], row[2] >> /\ row[1] \in Ids
      BY VersionType
    <3> QED
      BY <3>1, <3>2
  <2>2. ASSUME NEW i \in Ids, << i, cluster >> \in version.rows PROVE i \in Members(version, cluster)
    BY <2>2 DEF Members
  <2> QED
    BY <2>1, <2>2
<1>3. status \in [kept \cup new -> ClusterStatus] /\ kept \cup new \in SUBSET Clusters
  BY VersionType DEF ClusterStatus
<1>4. \A i, c : << i, c >> \in rows <=> (<< i, c >> \in version.rows /\ c # cluster) \/ (c \in new /\ i \in group[c])
  <2> DEFINE old == {row \in version.rows : row[2] # cluster}
             added == UNION {group[d] \X {d} : d \in new}
  <2>1. \A i, c : << i, c >> \in old <=> << i, c >> \in version.rows /\ c # cluster
    OBVIOUS
  <2>2. ASSUME NEW i, NEW c PROVE << i, c >> \in added <=> c \in new /\ i \in group[c]
    <3>1. << i, c >> \in added <=> \E d \in new : << i, c >> \in group[d] \X {d}
      OBVIOUS
    <3>2. \A d \in new : << i, c >> \in group[d] \X {d} <=> i \in group[d] /\ c = d
      OBVIOUS
    <3> QED
      BY <3>1, <3>2
  <2> SUFFICES ASSUME NEW i, NEW c
               PROVE  << i, c >> \in rows <=>
                         (<< i, c >> \in version.rows /\ c # cluster) \/ (c \in new /\ i \in group[c])
    OBVIOUS
  <2>3. << i, c >> \in rows <=> << i, c >> \in old \/ << i, c >> \in added
    OBVIOUS
  <2> QED
    <3> HIDE DEF old, added, rows
    <3> QED
      BY <2>1, <2>2, <2>3
<1>5. rows \subseteq Ids \X (Clusters \cup {None})
  <2>1. ASSUME NEW row \in rows PROVE row \in Ids \X (Clusters \cup {None})
    <3>1. CASE row \in version.rows
      BY <3>1, VersionType
    <3>2. CASE \E c \in new : row \in group[c] \X {c}
      <4>1. PICK c \in new : row \in group[c] \X {c}
        BY <3>2
      <4>2. row = << row[1], c >> /\ row[1] \in group[c]
        BY <4>1
      <4>3. row[1] \in Ids
        BY <1>1, <1>2, <4>2
      <4> QED
        BY <4>2, <4>3
    <3> QED
      BY <2>1, <3>1, <3>2
  <2> QED
    BY <2>1
<1>6. split = [version EXCEPT !.status = status, !.rows = rows]
  BY <1>1 DEF Split
<1>7. split.status = status /\ split.rows = rows /\ split.batch = version.batch
  BY <1>6 DEF Version
<1>8. split \in Version
  <2>1. status \in UNION {[d -> ClusterStatus] : d \in SUBSET Clusters}
    BY <1>3, StatusType
  <2> HIDE DEF status, rows, split
  <2> QED
    BY <1>5, <1>6, <2>1 DEF Version
<1>9. ClustersOf(split) = kept \cup new
  BY <1>7 DEF ClustersOf
<1>10. ASSUME NEW i \in Ids
       PROVE  IF i \in signals
                THEN \E c \in ClustersOf(split) : Places(split, i) = {c}
                ELSE Places(split, i) = {}
  <2> HIDE DEF rows, split
  <2>1. Places(split, i) = {c \in Clusters \cup {None} : << i, c >> \in rows}
    BY <1>7 DEF Places
  <2>2. IF i \in signals THEN \E c \in ClustersOf(version) : Places(version, i) = {c}
                         ELSE Places(version, i) = {}
    BY DEF Sorts
  <2>3. CASE i \in Members(version, cluster)
    <3>1. Places(version, i) = {cluster} /\ i \in signals
      BY <1>2, <2>2, <2>3, VersionType DEF Places
    <3>2. PICK c \in new : i \in group[c]
      BY <1>1, <2>3
    <3>3. Places(split, i) = {c}
      <4>1. \A d \in Clusters \cup {None} : << i, d >> \in version.rows => d = cluster
        BY <3>1 DEF Places
      <4>2. \A d \in new : i \in group[d] => d = c
        BY <1>1, <3>2
      <4> QED
        BY <1>4, <2>1, <3>2, <4>1, <4>2
    <3> QED
      BY <1>9, <3>1, <3>3
  <2>4. CASE i \notin Members(version, cluster)
    <3>1. \A c \in new : i \notin group[c]
      BY <1>1, <2>4
    <3>2. << i, cluster >> \notin version.rows
      BY <1>2, <2>4
    <3>3. Places(split, i) = Places(version, i)
      <4>1. \A c : << i, c >> \in rows <=> << i, c >> \in version.rows
        BY <1>4, <3>1, <3>2
      <4> QED
        BY <2>1, <4>1 DEF Places
    <3>4. cluster \notin Places(version, i)
      BY <3>2 DEF Places
    <3> QED
      BY <1>9, <2>2, <3>3, <3>4
  <2> QED
    BY <2>3, <2>4
<1> QED
  BY <1>7, <1>8, <1>10 DEF Sorts

LEMMA EditSorts ==
  ASSUME NEW version \in Version, NEW signals, Sorts(version, signals),
         NEW revised \in Edited(version)
  PROVE  /\ revised \in Version
         /\ revised.batch = version.batch
         /\ Sorts(revised, signals)
<1> DEFINE clusters == ClustersOf(version)
<1>1. version.status \in [clusters -> ClusterStatus]
  BY VersionType
<1>2. CASE \E selected, new : CanMerge(version, selected, new) /\ revised = Merge(version, selected, new)
  BY <1>2, MergeSorts
<1>3. CASE revised = version
  BY <1>3
<1>4. CASE \E selected : revised = Remove(version, selected)
  <2>1. PICK selected : revised = Remove(version, selected)
    BY <1>4
  <2> DEFINE status == [c \in clusters |-> IF c \in selected THEN "removed" ELSE version.status[c]]
  <2>2. status \in [clusters -> ClusterStatus]
    BY <1>1 DEF ClusterStatus
  <2>3. revised = [version EXCEPT !.status = status]
    BY <2>1 DEF Remove, ClustersOf
  <2> HIDE DEF status
  <2> QED
    BY <2>2, <2>3, StatusSorts
<1>5. CASE \E selected : revised = Restore(version, selected)
  <2>1. PICK selected : revised = Restore(version, selected)
    BY <1>5
  <2> DEFINE status == [c \in clusters |-> IF c \in selected THEN "active" ELSE version.status[c]]
  <2>2. status \in [clusters -> ClusterStatus]
    BY <1>1 DEF ClusterStatus
  <2>3. revised = [version EXCEPT !.status = status]
    BY <2>1 DEF Restore, ClustersOf
  <2> HIDE DEF status
  <2> QED
    BY <2>2, <2>3, StatusSorts
<1>6. CASE \E c \in clusters, new \in SUBSET Clusters : \E group \in [new -> SUBSET Members(version, c)] :
             CanSplit(version, c, group) /\ revised = Split(version, c, group)
  BY <1>6, SplitSorts
<1> QED
  BY <1>2, <1>3, <1>4, <1>5, <1>6 DEF Edited, Rename

LEMMA EditInvariant == IInv /\ EditTaxonomy => IInv'
<1> SUFFICES ASSUME IInv, EditTaxonomy PROVE IInv'
  OBVIOUS
<1> DEFINE signals(version) == {i \in Ids : stored[i] = version.batch}
<1>1. PICK version \in versions : \E revised \in Edited(version) : versions' = versions \cup {revised}
  BY DEF EditTaxonomy
<1>2. PICK revised \in Edited(version) : versions' = versions \cup {revised}
  BY <1>1
<1>3. version \in Version /\ Sorts(version, signals(version))
  BY DEF IInv, TypeOK, Database, OneCluster, Sorts
<1>4. /\ revised \in Version /\ revised.batch = version.batch
      /\ Sorts(revised, signals(version))
  BY <1>2, <1>3, EditSorts
<1>5. TypeOK'
  BY <1>2, <1>4 DEF IInv, TypeOK, EditTaxonomy
<1>6. OneCluster'
  <2> SUFFICES ASSUME NEW v \in versions', NEW i \in Ids
               PROVE  IF stored[i] = v.batch
                        THEN \E c \in ClustersOf(v) : Places(v, i) = {c}
                        ELSE Places(v, i) = {}
    BY DEF OneCluster, Places, ClustersOf, EditTaxonomy
  <2>1. CASE v \in versions
    BY <2>1 DEF IInv, Database, OneCluster
  <2>2. CASE v = revised
    BY <1>4, <2>2 DEF Sorts
  <2> QED
    BY <1>2, <2>1, <2>2
<1>7. Database'
  <2>1. ImportIsWhole'
    BY DEF IInv, Database, ImportIsWhole, EditTaxonomy
  <2>2. \A v \in versions' : batch'[v.batch] # None
    BY <1>2, <1>4 DEF IInv, Database, EditTaxonomy
  <2> QED
    BY <1>6, <2>1, <2>2 DEF IInv, Database, EditTaxonomy
<1>8. Exclusive'
  BY DEF IInv, Exclusive, EditTaxonomy
<1>9. ASSUME NEW q \in Requests PROVE Consistent(q)'
  <2>1. Consistent(q)
    BY DEF IInv
  <2> QED
    BY <2>1 DEF Consistent, Inserted, Fresh, EditTaxonomy
<1> QED
  BY <1>5, <1>7, <1>8, <1>9 DEF IInv

LEMMA StepInvariant == IInv /\ [Next]_vars => IInv'
<1> SUFFICES ASSUME IInv, [Next]_vars PROVE IInv'
  OBVIOUS
<1>1. CASE \E q \in Requests, f \in Files, provider \in Provider : Begin(q, f, provider)
  BY <1>1, BeginInvariant
<1>2. ASSUME NEW q \in Requests, Step(q) PROVE IInv'
  <2>1. CASE AbortVictim(q)
    BY <2>1, AbortInvariant DEF AbortVictim
  <2> QED
    BY <1>2, <2>1, InsertSourceInvariant, LookUpBatchInvariant, UpdateOperatorInvariant,
       ReadKnownInvariant, InsertBatchInvariant, InsertVoiceInvariant, AnalyseInvariant,
       UpdateSourceInvariant, CommitInvariant DEF Step
<1>3. ASSUME NEW q \in Requests, Fail(q) PROVE IInv'
  BY <1>3, AbortInvariant DEF Fail
<1>4. CASE EditTaxonomy
  BY <1>4, EditInvariant
<1>5. CASE UNCHANGED vars
  <2>1. TypeOK' /\ Exclusive'
    BY <1>5 DEF vars, IInv, TypeOK, Exclusive
  <2>2. Database'
    BY <1>5 DEF vars, IInv, Database, ImportIsWhole, OneCluster, Places
  <2>3. ASSUME NEW q \in Requests PROVE Consistent(q)'
    <3>1. Consistent(q)
      BY DEF IInv
    <3> QED
      BY <1>5, <3>1 DEF vars, Consistent, Inserted, Fresh
  <2> QED
    BY <2>1, <2>2, <2>3 DEF IInv
<1> QED
  BY <1>1, <1>2, <1>3, <1>4, <1>5 DEF Next

-----------------------------------------------------------------------------
(* The invariant holds in every state: keys and row locks exclude each     *)
(* other, and what an upload has read is still true when it commits.       *)
THEOREM InductiveInvariant == Spec => []IInv
<1> QED
  BY InitInvariant, StepInvariant, PTL DEF Spec

(* Every table and every transaction has the columns its type promises. *)
THEOREM TypeCorrect == Spec => []TypeOK
<1>1. IInv => TypeOK
  BY DEF IInv
<1> QED
  BY <1>1, InductiveInvariant, PTL

(* Uploads that race for a file or for its voices never leave a batch that *)
(* lacks one of them, miscounts them, or has no or two baselines.          *)
THEOREM EveryImportIsWhole == Spec => []ImportIsWhole
<1>1. IInv => ImportIsWhole
  BY DEF IInv, Database
<1> QED
  BY <1>1, InductiveInvariant, PTL

(* No edit of a taxonomy loses a signal of the batch or counts it twice. *)
THEOREM EverySignalIsSorted == Spec => []OneCluster
<1>1. IInv => OneCluster
  BY DEF IInv, Database
<1> QED
  BY <1>1, InductiveInvariant, PTL

-----------------------------------------------------------------------------
(* The refinement.  What an upload inserts is what nobody has stored when  *)
(* it commits, because the ids it took for known stay stored and the keys  *)
(* of the others are its own until it ends.                                *)
LEMMA CommitImports ==
  ASSUME IInv, NEW q \in Requests, Commit(q), Fresh(q)
  PROVE  tx[q].file \in Files /\ Register!Import(tx[q].file, tx[q].provider)
<1> DEFINE f == tx[q].file
<1>1. /\ Consistent(q) /\ tx[q].pc = "store" /\ tx[q] \in Upload /\ f \in Files
      /\ batch[f] = None
  BY DEF IInv, TypeOK, Commit, At, Consistent, Fresh
<1>2. Inserted(q) = Importable(f) \ tx[q].known
  BY <1>1 DEF Consistent
<1>3. Register!New(f) = Inserted(q)
  <2>1. [g \in Files |-> Importable(g)][f] = Importable(f)
    BY <1>1
  <2>2. \A i \in tx[q].known : stored[i] # None
    BY <1>1 DEF Consistent
  <2>3. \A i \in Inserted(q) : stored[i] = None
    BY <1>1 DEF Consistent
  <2> QED
    BY <1>2, <2>1, <2>2, <2>3 DEF Register!New
<1>4. Inserted(q) # {}
  BY <1>1 DEF Consistent
<1>5. /\ batch'[f] # None /\ batch'[f].provider = tx[q].provider
      /\ \A g \in Files \ {f} : batch'[g] = batch[g]
  <2>1. batch'[f] = [provider |-> tx[q].provider, operator |-> Operator[q],
                     count |-> Cardinality(Importable(f) \ tx[q].known)]
    BY <1>1 DEF IInv, TypeOK, Commit
  <2>2. Cardinality(Importable(f) \ tx[q].known) \in Nat
    BY <1>1, ImportableIds, RowsAssumption, FS_Subset, FS_CardinalityType
  <2>3. batch'[f] \in Batch
    BY <1>1, <2>1, <2>2, OperatorAssumption DEF Batch, Upload
  <2>4. \A g \in Files \ {f} : batch'[g] = batch[g]
    BY <1>1 DEF IInv, TypeOK, Commit
  <2> QED
    BY <2>1, <2>3, <2>4, BatchAssumption
<1>6. /\ Via(f) = None
      /\ [g \in Files |-> Via(g)]' = [[g \in Files |-> Via(g)] EXCEPT ![f] = tx[q].provider]
  <2>1. Via(f) = None
    BY <1>1 DEF Via
  <2>2. [g \in Files |-> Via(g)]' = [g \in Files |-> IF g = f THEN tx[q].provider ELSE Via(g)]
    BY <1>1, <1>5 DEF Via
  <2>3. [[g \in Files |-> Via(g)] EXCEPT ![f] = tx[q].provider]
          = [g \in Files |-> IF g = f THEN tx[q].provider ELSE Via(g)]
    BY <1>1
  <2> QED
    BY <2>1, <2>2, <2>3
<1>7. IF tx[q].provider = "local" THEN baseline' = [baseline EXCEPT ![f] = {q}]
                                  ELSE baseline' = baseline
  <2>1. baseline[f] = {} /\ baseline \in [Files -> SUBSET Requests]
    BY <1>1 DEF IInv, Database, TypeOK
  <2>2. tx[q].run <=> tx[q].provider = "local"
    BY <1>1 DEF Consistent
  <2>3. baseline' = [baseline EXCEPT ![f] = IF tx[q].run THEN @ \cup {q} ELSE @]
    BY DEF Commit
  <2> QED
    BY <2>1, <2>2, <2>3
<1>8. stored' = [i \in Ids |-> IF i \in Register!New(f) THEN f ELSE stored[i]]
  BY <1>3 DEF Commit
<1> QED
  BY <1>1, <1>3, <1>4, <1>6, <1>7, <1>8 DEF Register!Import

(* An upload that finds its batch adds a baseline to it only if the batch  *)
(* was imported for a model.                                               *)
LEMMA CommitAnalyses ==
  ASSUME IInv, NEW q \in Requests, Commit(q), ~Fresh(q)
  PROVE  \/ \E f \in Files : Register!Analyse(f)
         \/ UNCHANGED << [g \in Files |-> Via(g)], stored, baseline >>
<1> DEFINE f == tx[q].file
<1>1. /\ Consistent(q) /\ tx[q].pc = "store" /\ tx[q] \in Upload /\ f \in Files
      /\ batch[f] # None /\ Inserted(q) = {}
  BY DEF IInv, TypeOK, Commit, At, Consistent
<1>2. stored' = stored
  BY <1>1 DEF IInv, TypeOK, Commit
<1>3. /\ batch'[f] # None /\ batch'[f].provider = batch[f].provider
      /\ \A g \in Files \ {f} : batch'[g] = batch[g]
  <2>1. batch[f] \in Batch
    BY <1>1 DEF IInv, TypeOK
  <2>2. batch'[f] = IF BatchRow(f) \in held[q] THEN [batch[f] EXCEPT !.operator = Operator[q]]
                    ELSE batch[f]
    BY <1>1 DEF IInv, TypeOK, Commit
  <2>3. batch'[f] \in Batch
    BY <2>1, <2>2, OperatorAssumption DEF Batch
  <2>4. \A g \in Files \ {f} : batch'[g] = batch[g]
    BY <1>1 DEF IInv, TypeOK, Commit
  <2> QED
    BY <2>1, <2>2, <2>3, <2>4, BatchAssumption DEF Batch
<1>4. [g \in Files |-> Via(g)]' = [g \in Files |-> Via(g)]
  BY <1>1, <1>3 DEF Via
<1>5. baseline' = [baseline EXCEPT ![f] = IF tx[q].run THEN @ \cup {q} ELSE @]
  BY DEF Commit
<1>6. CASE tx[q].run
  <2>1. [g \in Files |-> Via(g)][f] = "model"
    BY <1>1, <1>6 DEF Consistent, Via
  <2> QED
    BY <1>1, <1>2, <1>4, <1>5, <1>6, <2>1 DEF Register!Analyse
<1>7. CASE ~tx[q].run
  <2>1. baseline' = baseline
    BY <1>1, <1>5, <1>7 DEF IInv, TypeOK
  <2> QED
    BY <1>2, <1>4, <2>1
<1> QED
  BY <1>6, <1>7

(* Every behaviour of the racing uploads is one of the register: a commit  *)
(* imports a file in one step with exactly the voices that are new at that *)
(* moment, or adds a baseline to a file that was imported for a model; the *)
(* edits of the taxonomy, the failures and the deadlocks change nothing of *)
(* it.                                                                     *)
THEOREM ImplementsRegister == Spec => KeepsRegister
<1>1. Init => Register!Init
  BY DEF Init, Register!Init, Via
<1>2. IInv /\ [Next]_vars => [Register!Next]_(Register!vars)
  <2> SUFFICES ASSUME IInv, [Next]_vars
               PROVE  \/ Register!Next
                      \/ UNCHANGED << [g \in Files |-> Via(g)], stored, baseline >>
    BY DEF Register!vars
  <2>1. ASSUME NEW q \in Requests, Commit(q)
        PROVE  \/ Register!Next
               \/ UNCHANGED << [g \in Files |-> Via(g)], stored, baseline >>
    <3>1. CASE Fresh(q)
      <4>1. tx[q].provider \in {"local", "model"}
        BY <2>1 DEF IInv, TypeOK, Upload, Provider
      <4> QED
        BY <2>1, <3>1, <4>1, CommitImports DEF Register!Next
    <3>2. CASE ~Fresh(q)
      BY <2>1, <3>2, CommitAnalyses DEF Register!Next
    <3> QED
      BY <3>1, <3>2
  <2>2. CASE UNCHANGED << batch, stored, baseline >>
    BY <2>2 DEF Via
  <2>3. ASSUME NEW q \in Requests, Step(q), ~Commit(q)
        PROVE  UNCHANGED << batch, stored, baseline >>
    BY <2>3 DEF Step, InsertSource, LookUpBatch, UpdateOperator, ReadKnown, InsertBatch, InsertVoice,
         Analyse, UpdateSource, AbortVictim, Abort, database
  <2> QED
    BY <2>1, <2>2, <2>3 DEF Next, Begin, Fail, Abort, EditTaxonomy, database, vars
<1> QED
  BY <1>1, <1>2, InductiveInvariant, PTL DEF Spec, KeepsRegister, Register!Spec

-----------------------------------------------------------------------------
(* The core of EveryUploadEnds.  Where each of finitely many waits for     *)
(* others of them, a smallest set that waits only for itself is one whose  *)
(* members are all waited for: take away those that nobody waits for, and  *)
(* what is left waits only for itself.                                     *)
LEMMA WaitersCircle ==
  ASSUME NEW W, IsFiniteSet(W), W # {},
         NEW blockers \in [W -> SUBSET W], \A r \in W : blockers[r] # {}
  PROVE  \E S \in SUBSET W : S # {} /\ UNION {blockers[r] : r \in S} = S
<1> DEFINE Closed == {S \in SUBSET W : S # {} /\ UNION {blockers[r] : r \in S} \subseteq S}
<1>1. Closed \subseteq FiniteSubsetsOf(W)
  BY FS_Subset DEF FiniteSubsetsOf
<1>2. W \in Closed
  OBVIOUS
<1>3. PICK S \in Closed : \A T \in Closed : << T, S >> \notin StrictSubsetOrdering(W)
  <2> HIDE DEF Closed
  <2>1. Closed # {}
    BY <1>2
  <2> QED
    BY <1>1, <2>1, FS_StrictSubsetOrderingWellFounded, WFMin
<1> DEFINE T == UNION {blockers[r] : r \in S}
<1>4. T \subseteq S /\ T \in SUBSET W /\ T # {}
  OBVIOUS
<1>5. UNION {blockers[r] : r \in T} \subseteq T
  BY <1>4
<1>6. T \in Closed
  <2> HIDE DEF T
  <2> QED
    BY <1>4, <1>5
<1>7. T = S
  <2>1. << T, S >> \notin StrictSubsetOrdering(W)
    BY <1>3, <1>6
  <2>2. S \in SUBSET W
    OBVIOUS
  <2> HIDE DEF T, Closed
  <2> QED
    BY <1>4, <2>1, <2>2 DEF StrictSubsetOrdering
<1> QED
  BY <1>4, <1>7

(* Only uploads that are underway hold anything. *)
LEMMA BlockersUnderway ==
  ASSUME IInv, NEW q \in Requests
  PROVE  Blockers(q) \subseteq Underway
BY DEF IInv, Consistent, Blockers, Underway

(* However many uploads there may be, only so many have begun. *)
LEMMA UnderwayIsFinite == Spec => []IsFiniteSet(Underway)
<1>1. Init => IsFiniteSet(Underway)
  <2> SUFFICES ASSUME Init PROVE IsFiniteSet(Underway)
    OBVIOUS
  <2>1. Underway = {}
    BY DEF Init, Underway, Idle
  <2> QED
    BY <2>1, FS_EmptySet
<1>2. IInv /\ IsFiniteSet(Underway) /\ [Next]_vars => IsFiniteSet(Underway)'
  <2> SUFFICES ASSUME IInv, IsFiniteSet(Underway), [Next]_vars PROVE IsFiniteSet(Underway')
    OBVIOUS
  <2>1. ASSUME NEW q \in Requests, \A r \in Requests \ {q} : tx'[r] = tx[r]
        PROVE  IsFiniteSet(Underway')
    <3>1. Underway' \subseteq Underway \cup {q}
      BY <2>1 DEF Underway
    <3>2. IsFiniteSet(Underway \cup {q})
      BY FS_AddElement
    <3> QED
      BY <3>1, <3>2, FS_Subset
  <2>2. ASSUME NEW q \in Requests, Step(q) \/ Fail(q)
        PROVE  \A r \in Requests \ {q} : tx'[r] = tx[r]
    BY <2>2 DEF Step, Fail, InsertSource, LookUpBatch, UpdateOperator, ReadKnown, InsertBatch,
         InsertVoice, Analyse, UpdateSource, Commit, AbortVictim, Abort, End, GoTo, IInv, TypeOK
  <2>3. ASSUME NEW q \in Requests, NEW f \in Files, NEW provider \in Provider, Begin(q, f, provider)
        PROVE  \A r \in Requests \ {q} : tx'[r] = tx[r]
    BY <2>3 DEF Begin, IInv, TypeOK
  <2>4. CASE UNCHANGED tx
    BY <2>4 DEF Underway
  <2> QED
    BY <2>1, <2>2, <2>3, <2>4 DEF Next, EditTaxonomy, vars
<1> QED
  BY <1>1, <1>2, InductiveInvariant, PTL DEF Spec

(* Uploads never all wait without a circle that the detector finds: as     *)
(* long as one is underway, one of them goes on or is aborted.             *)
THEOREM NobodyIsStuck == Spec => []SomebodyGoesOn
<1>1. IInv /\ IsFiniteSet(Underway) => SomebodyGoesOn
  <2> SUFFICES ASSUME IInv, IsFiniteSet(Underway), Underway # {},
                      \A q \in Underway : Blockers(q) # {}
               PROVE  \E q \in Underway :
                        \E waiting \in SUBSET Requests : q \in waiting /\ Deadlocked(waiting)
    BY DEF SomebodyGoesOn
  <2> DEFINE blockers == [q \in Underway |-> Blockers(q)]
  <2>1. Underway \subseteq Requests
    BY DEF Underway
  <2>2. blockers \in [Underway -> SUBSET Underway] /\ \A q \in Underway : blockers[q] # {}
    BY <2>1, BlockersUnderway
  <2>3. PICK S \in SUBSET Underway : S # {} /\ UNION {blockers[r] : r \in S} = S
    <3> HIDE DEF blockers
    <3> QED
      BY <2>2, WaitersCircle
  <2>4. UNION {Blockers(r) : r \in S} = S
    BY <2>3
  <2> QED
    BY <2>1, <2>3, <2>4 DEF Deadlocked
<1> QED
  BY <1>1, InductiveInvariant, UnderwayIsFinite, PTL
-----------------------------------------------------------------------------
(* A set of numbers that is not empty has a least element.                 *)
LEMMA LeastNumber ==
  ASSUME NEW S, S \subseteq Nat, S # {}
  PROVE  \E m \in S : \A k \in S : m =< k
<1>1. PICK m \in S : \A k \in S : << k, m >> \notin OpToRel(<, Nat)
  BY NatLessThanWellFounded, WFMin
<1>2. ASSUME NEW k \in S PROVE m =< k
  <2>1. k \in Nat /\ m \in Nat
    OBVIOUS
  <2>2. ~ (k < m)
    BY <1>1, <2>1 DEF OpToRel
  <2> QED
    BY <2>1, <2>2
<1> QED
  BY <1>2

LEMMA GoesNearer ==
  ASSUME IInv, NEW q \in Underway, NEW pc, tx'[q].pc = pc,
         \/ pc = "done"
         \/ At(q, "source") /\ pc = "lookup"
         \/ At(q, "lookup") /\ pc \in {"known", "operator", "analyse"}
         \/ At(q, "known") /\ pc = "batch"
         \/ At(q, "batch") /\ pc = "voices"
         \/ (At(q, "voices") \/ At(q, "operator")) /\ pc = "analyse"
         \/ At(q, "analyse") /\ pc \in {"status", "store"}
         \/ At(q, "status") /\ pc = "store"
  PROVE  Distance(q)' < Distance(q)
<1>1. tx[q].pc \in Phase \ {"idle", "done"}
  BY DEF Underway, IInv, TypeOK, Upload
<1> QED
  BY <1>1 DEF Phase, Distance, At

LEMMA GoesTo ==
  ASSUME IInv, NEW q \in Requests, NEW pc, GoTo(q, pc)
  PROVE  tx'[q].pc = pc
<1>1. tx'[q] = [tx[q] EXCEPT !.pc = pc] /\ tx[q] \in Upload
  BY DEF GoTo, IInv, TypeOK
<1> QED
  BY <1>1 DEF Upload

LEMMA AbortNearer ==
  ASSUME IInv, NEW q \in Underway, End(q)
  PROVE  Distance(q)' < Distance(q)
<1>1. tx'[q].pc = "done"
  BY DEF End, Ended, Idle, IInv, TypeOK, Underway
<1> QED
  BY <1>1, GoesNearer

LEMMA VoiceNearer ==
  ASSUME IInv, NEW q \in Underway, InsertVoice(q), Pending(q) # {}, Take(q),
         UNCHANGED << database, tx >>
  PROVE  Pending(q)' \subseteq Pending(q) /\ Pending(q)' # Pending(q)
<1>1. q \in Requests /\ tx[q].pc = "voices" /\ tx[q].file \in Files /\ tx'[q] = tx[q]
  BY DEF Underway, InsertVoice, At, IInv, Consistent
<1>2. Pending(q) \subseteq Nat
  BY <1>1, RowsAssumption DEF Pending
<1>3. PICK m \in Pending(q) : \A k \in Pending(q) : m =< k
  BY <1>2, LeastNumber
<1> DEFINE i == Rows[tx[q].file][m]
<1>4. i \in NextVoice(q) /\ i \in Ids
  <2>1. i \in NextVoice(q)
    BY <1>3 DEF NextVoice
  <2>2. i \in Importable(tx[q].file)
    BY <1>3 DEF Pending, Importable
  <2> QED
    BY <1>1, <2>1, <2>2, ImportableIds
<1>5. held'[q] = held[q] \cup {VoiceKey(j) : j \in NextVoice(q)}
  <2>1. Wanted(q) = {VoiceKey(j) : j \in NextVoice(q)}
    BY <1>1 DEF Wanted
  <2> QED
    BY <1>1, <2>1 DEF Take, IInv, TypeOK
<1>6. Inserted(q) \subseteq Inserted(q)' /\ i \in Inserted(q)'
  BY <1>4, <1>5 DEF Inserted
<1>7. Pending(q)' \subseteq Pending(q)
  BY <1>1, <1>6 DEF Pending
<1>8. m \notin Pending(q)'
  BY <1>1, <1>6 DEF Pending
<1> QED
  BY <1>3, <1>7, <1>8

LEMMA StepNearer ==
  ASSUME IInv, NEW q \in Underway, Step(q) \/ Fail(q)
  PROVE  \/ Distance(q)' < Distance(q)
         \/ /\ At(q, "voices") /\ tx'[q] = tx[q]
            /\ Pending(q)' \subseteq Pending(q) /\ Pending(q)' # Pending(q)
<1> USE DEF Underway
<1>1. CASE Abort(q) \/ Commit(q)
  BY <1>1, AbortNearer DEF Abort, Commit
<1>2. CASE InsertSource(q)
  BY <1>1, <1>2, GoesTo, GoesNearer DEF InsertSource
<1>3. CASE LookUpBatch(q)
  <2> DEFINE found == batch[tx[q].file]
             pc == IF found = None THEN "known"
                   ELSE IF found.operator # Operator[q] THEN "operator" ELSE "analyse"
  <2>1. GoTo(q, pc) /\ At(q, "lookup") /\ pc \in {"known", "operator", "analyse"}
    BY <1>3 DEF LookUpBatch
  <2> HIDE DEF pc
  <2>2. tx'[q].pc = pc
    BY <2>1, GoesTo
  <2> QED
    BY <2>1, <2>2, GoesNearer
<1>4. CASE UpdateOperator(q)
  BY <1>4, GoesTo, GoesNearer DEF UpdateOperator
<1>5. CASE ReadKnown(q)
  <2>1. At(q, "known") /\ tx[q] \in Upload
    BY <1>5 DEF ReadKnown, IInv, TypeOK
  <2> DEFINE known == {i \in Importable(tx[q].file) : stored[i] # None}
  <2>2. tx'[q] = [tx[q] EXCEPT !.pc = "batch", !.known = known]
    BY <1>5 DEF ReadKnown, IInv, TypeOK
  <2> HIDE DEF known
  <2>3. tx'[q].pc = "batch"
    BY <2>1, <2>2 DEF Upload
  <2> QED
    BY <2>1, <2>3, GoesNearer
<1>6. CASE InsertBatch(q)
  BY <1>1, <1>6, GoesTo, GoesNearer DEF InsertBatch
<1>7. CASE InsertVoice(q)
  <2>1. CASE Pending(q) # {} /\ Take(q) /\ UNCHANGED << database, tx >>
    BY <1>7, <2>1, VoiceNearer DEF InsertVoice
  <2>2. CASE GoTo(q, "analyse")
    BY <1>7, <2>2, GoesTo, GoesNearer DEF InsertVoice
  <2> QED
    BY <1>1, <1>7, <2>1, <2>2 DEF InsertVoice
<1>8. CASE Analyse(q)
  <2>1. CASE GoTo(q, "store")
    BY <1>8, <2>1, GoesTo, GoesNearer DEF Analyse
  <2>2. CASE tx' = [tx EXCEPT ![q].pc = "status", ![q].run = TRUE]
    <3>1. tx'[q] = [tx[q] EXCEPT !.pc = "status", !.run = TRUE] /\ tx[q] \in Upload
      BY <2>2 DEF IInv, TypeOK
    <3>2. tx'[q].pc = "status"
      BY <3>1 DEF Upload
    <3> QED
      BY <1>8, <3>2, GoesNearer DEF Analyse
  <2> QED
    BY <1>1, <1>8, <2>1, <2>2 DEF Analyse
<1>9. CASE UpdateSource(q)
  BY <1>9, GoesTo, GoesNearer DEF UpdateSource
<1>10. CASE AbortVictim(q) \/ Fail(q)
  BY <1>1, <1>10 DEF AbortVictim, Fail
<1> QED
  BY <1>1, <1>2, <1>3, <1>4, <1>5, <1>6, <1>7, <1>8, <1>9, <1>10 DEF Step

(* No upload goes on for ever, whatever the others do meanwhile and        *)
(* however many voices it has to insert one by one (adapter.py 457-579):   *)
(* each of its steps brings it nearer to its end.  With NobodyIsStuck this *)
(* is what EveryUploadEnds needs beside fairness.                          *)
THEOREM UploadsAreBounded == Spec => EveryStepCounts
<1> DEFINE Nearer(q) ==
      tx'[q] # tx[q] \/ held'[q] # held[q] =>
        \/ Distance(q)' < Distance(q)
        \/ /\ At(q, "voices") /\ tx'[q] = tx[q]
           /\ Pending(q)' \subseteq Pending(q) /\ Pending(q)' # Pending(q)
<1>1. IInv /\ [Next]_vars => [\A q \in Underway : Nearer(q)]_vars
  <2> SUFFICES ASSUME IInv, Next, NEW q \in Underway,
                      tx'[q] # tx[q] \/ held'[q] # held[q]
               PROVE  Nearer(q)
    BY DEF vars
  <2>1. q \in Requests /\ ~ At(q, "idle")
    BY DEF Underway, At
  <2>2. ASSUME NEW r \in Requests, Step(r) \/ Fail(r)
        PROVE  r = q
    BY <2>1, <2>2 DEF Step, Fail, InsertSource, LookUpBatch, UpdateOperator, ReadKnown, InsertBatch,
         InsertVoice, Analyse, UpdateSource, Commit, AbortVictim, Abort, End, GoTo, Take, IInv, TypeOK
  <2>3. ASSUME NEW r \in Requests, NEW f \in Files, NEW provider \in Provider, Begin(r, f, provider)
        PROVE  FALSE
    BY <2>1, <2>3 DEF Begin, IInv, TypeOK
  <2>4. ~ EditTaxonomy
    BY DEF EditTaxonomy
  <2>5. Step(q) \/ Fail(q)
    BY <2>2, <2>3, <2>4 DEF Next
  <2> QED
    BY <2>5, StepNearer
<1> QED
  BY <1>1, InductiveInvariant, PTL DEF Spec, EveryStepCounts
=============================================================================
