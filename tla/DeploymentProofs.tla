-------------------------- MODULE DeploymentProofs --------------------------
(***************************************************************************)
(* Proofs about Deployment, for any sequence of revisions and repeatable   *)
(* statements, any number of writes and of snapshots, and any number of    *)
(* starts, backups, restores and retrievals.                               *)
(***************************************************************************)
EXTENDS Deployment, FiniteSetTheorems, TLAPS

-----------------------------------------------------------------------------
(* The inductive invariant.                                                 *)

Steps == {"upload", "list", "manifest", "fetch", "validate", "promote"}
Transfers == [purpose : {"publish", "retrieve"}, step : Steps, expected : Anchors,
              snapshot : Snapshots \cup {<< >>}, stage : Contents \cup {<< >>}]

SchemaTypes ==
    /\ SchemaTypeOK
    /\ known \in BOOLEAN /\ disturbed \in BOOLEAN
    /\ \A p \in Processes : pc[p] \in {"stamp_row", "running"} => versioned

Types ==
    /\ SchemaTypes /\ RecoveryTypeOK
    /\ repository \subseteq Snapshots
    /\ anchor = << >> \/ anchor \in Anchors
    /\ transfer = << >> \/ transfer \in Transfers
    /\ service \in [Services -> States]
    /\ service["fastapi"] = "up" <=> pc[fastapi] # "down"

\* A database that no start recognises: none writes to it.
ForeignInv ==
    ~known => /\ ~Identifiable
              /\ \A p \in Processes :
                    /\ pc[p] \notin Writing
                    /\ pc[p] = "comparing" => revision[p] \in Revisions /\ versions = {revision[p]}
                    /\ pc[p] = "legacy" => ~versioned

\* While no start is cut short or overlapped: there is one at most, and the
\* schema is what it takes it for.
LegacyNow == ~versioned /\ applied = EndOf[1]
Alone(p) ==
    /\ pc[p] \notin {"stamp_row", "running"} => Identifiable
    /\ pc[p] = "versions" => versioned
    /\ pc[p] = "comparing" => versions = {revision[p]}
    /\ pc[p] \in {"legacy", "stamping", "stamp_table"} => LegacyNow
    /\ pc[p] = "upgrading" => versioned \/ applied = 0
    /\ pc[p] = "stamp_table" => revision[p] = 0
    /\ pc[p] = "stamp_row" => versions = {} /\ versioned /\ applied = EndOf[1] /\ revision[p] = 0
    /\ pc[p] = "upgrade_table" => ~versioned /\ applied = 0 /\ revision[p] = 0 /\ done[p] = 0
    /\ pc[p] = "running" =>
          /\ versioned /\ applied = done[p]
          /\ versions = IF revision[p] = 0 THEN {} ELSE {revision[p]}
          /\ End(revision[p]) <= done[p]
          /\ revision[p] < Newest => done[p] <= EndOf[revision[p] + 1]
          /\ revision[p] = Newest => done[p] = Last

ExactInv ==
    known /\ ~disturbed =>
        /\ \A p, q \in Processes : Starting(p) /\ Starting(q) => p = q
        /\ \A p \in Processes : Starting(p) => Alone(p)
        /\ ~StartUnderWay => Identifiable

\* However many starts race: the version never claims what the tables lack.
Covered == \A k \in versions : k \in Revisions /\ EndOf[k] <= applied
Racing(p) ==
    /\ pc[p] \in {"legacy", "ready"} \cup Writing => Covered
    /\ pc[p] = "comparing" => revision[p] \in Revisions /\ (Covered \/ versions = {revision[p]})
    /\ pc[p] \in Writing => applied <= Last
    /\ pc[p] \in {"stamping", "stamp_table", "stamp_row"} => EndOf[1] <= applied
    /\ pc[p] \in {"upgrade_table", "running"} =>
          /\ End(revision[p]) <= done[p] /\ done[p] <= applied
          /\ revision[p] < Newest => done[p] <= EndOf[revision[p] + 1]
    /\ pc[p] = "upgrade_table" => revision[p] = 0
    /\ pc[p] = "ready" => applied = Last /\ known /\ (~disturbed => AtHead)

RacingInv == ~meddled => \A p \in Processes : Racing(p)

\* Nobody is up while a script works that nobody meddled with.
QuietInv ==
    ~meddled /\ job # "none" =>
        /\ pc[bootstrap] = "down"
        /\ job # "writers" => service = [s \in Services |-> "stopped"]

\* A backup copies one moment.
BackupInv ==
    /\ ~meddled /\ job \in Backing \ {"runtime", "destination"} => copies # << >>
    /\ job \in Backing => began # << >>
    /\ ~meddled /\ job \in Backing => data = began
    /\ ~meddled /\ job \in {"tar_langgraph", "tar_managed", "manifest"} => copies["mysql"] = began["mysql"]
    /\ ~meddled /\ job \in {"tar_managed", "manifest"} => copies["langgraph"] = began["langgraph"]
    /\ ~meddled /\ job = "manifest" => copies["managed"] = began["managed"]

\* Whoever holds a manifest holds what the domains had when it was made.
Honest(m, held) == held = << >> \/ m = << >> \/ m.release # "ours" \/ m.files = held
HeldInv ==
    /\ copies = << >> => manifest = << >>
    /\ Honest(manifest, saved)
    /\ anchor # << >> => Honest(anchor.manifest, anchor.held)
    /\ transfer # << >> =>
          /\ Honest(transfer.expected.manifest, transfer.expected.held)
          /\ transfer.purpose = "retrieve" => transfer.expected = anchor /\ anchor # << >>
          /\ transfer.step \notin {"upload"} => transfer.snapshot # << >>
          /\ transfer.step \in {"fetch", "validate", "promote"} =>
                transfer.snapshot.manifest = transfer.expected.manifest
          /\ transfer.step \in {"validate", "promote"} => transfer.stage # << >>
          /\ transfer.step = "promote" => transfer.stage = transfer.snapshot.manifest.files

\* A restore fills what was empty, one domain after the other.
RestoreInv ==
    /\ ~meddled /\ job \in Restoring => Valid
    /\ data["mysql"] # 0 => applied # 0 \/ versioned
    /\ job = "load" => restored = << >> /\ known
    /\ job \in {"extract_langgraph", "extract_managed"} => versioned
    /\ restored # << >> => versioned /\ data = restored
    /\ ~meddled /\ job \in {"extract_langgraph", "extract_managed"} => data["mysql"] = copies["mysql"]
    /\ ~meddled /\ job = "extract_managed" => data["langgraph"] = copies["langgraph"]
    /\ ~meddled /\ job = "load" => data["mysql"] = 0
    /\ ~meddled /\ job \in {"load", "extract_langgraph"} => data["langgraph"] = 0
    /\ ~meddled /\ job \in {"load", "extract_langgraph", "extract_managed"} => data["managed"] = 0

DeploymentInv ==
    /\ Types /\ ForeignInv /\ ExactInv /\ RacingInv
    /\ QuietInv /\ BackupInv /\ HeldInv /\ RestoreInv

-----------------------------------------------------------------------------
(* Starts.                                                                  *)

\* There is a newest revision, and the last statement is its end.
LEMMA NewestFacts ==
  /\ Newest \in Nat /\ Newest >= 1 /\ Newest \in Revisions /\ 1 \in Revisions
  /\ Last \in Nat /\ Last >= 1 /\ EndOf[Newest] = Last
  /\ EndOf[1] \in Nat /\ EndOf[1] >= 1 /\ EndOf[1] <= Last
  <1>1. Newest \in Nat /\ Newest >= 1
    BY SchemaAssumption DEF Newest
  <1>2. Newest \in Revisions /\ 1 \in Revisions
    BY <1>1 DEF Revisions
  <1>3. EndOf[Newest] \in Nat /\ EndOf[Newest] >= 1 /\ EndOf[1] \in Nat /\ EndOf[1] >= 1
    BY <1>2, SchemaAssumption DEF Newest, Revisions
  <1>4. Newest = 1 \/ 1 < Newest
    BY <1>1
  <1>5. EndOf[1] <= EndOf[Newest]
    BY <1>2, <1>3, <1>4, SchemaAssumption
  <1>6. QED
    BY <1>1, <1>2, <1>3, <1>5 DEF Last

\* Every revision is one of the first Newest and ends within the statements.
LEMMA EndOfFacts ==
  ASSUME NEW k \in Revisions
  PROVE  /\ k \in Nat /\ k >= 1 /\ k <= Newest /\ k \in 0 .. Newest
         /\ EndOf[k] \in Nat /\ EndOf[k] >= 1 /\ EndOf[k] <= Last
  <1>1. k \in Nat /\ k >= 1 /\ k <= Newest
    BY NewestFacts DEF Revisions
  <1>2. EndOf[k] \in Nat /\ EndOf[k] >= 1
    BY SchemaAssumption DEF Newest, Revisions
  <1>3. k = Newest \/ k < Newest
    BY <1>1, NewestFacts
  <1>4. EndOf[k] <= EndOf[Newest]
    BY <1>2, <1>3, NewestFacts, SchemaAssumption
  <1>5. QED
    BY <1>1, <1>2, <1>4, NewestFacts

\* A revision that is not the newest is followed by one that ends later.
LEMMA FollowingRevision ==
  ASSUME NEW k \in 0 .. Newest, k < Newest
  PROVE  k + 1 \in Revisions /\ (k # 0 => k \in Revisions /\ EndOf[k] < EndOf[k + 1])
  <1>1. k \in Nat /\ k + 1 \in Revisions /\ (k # 0 => k \in Revisions) /\ k < k + 1
    BY NewestFacts DEF Revisions
  <1>2. QED
    BY <1>1, SchemaAssumption

\* So does no revision at all, at the start.
LEMMA EndFacts ==
  ASSUME NEW k \in 0 .. Newest
  PROVE  /\ End(k) \in 0 .. Last /\ End(k) \in Nat /\ End(k) <= Last
         /\ k = 0 \/ (k \in Revisions /\ End(k) = EndOf[k])
  <1>1. k = 0 \/ k \in Revisions
    BY NewestFacts DEF Revisions
  <1>2. QED
    BY <1>1, NewestFacts, EndOfFacts DEF End

\* What Alembic reads when there is at most one row.
LEMMA OneRow ==
  ASSUME versions \subseteq 1 .. Unknown, Cardinality(versions) <= 1
  PROVE  versions = {} \/ \E k \in 1 .. Unknown : versions = {k} /\ (CHOOSE v \in versions : TRUE) = k
  <1>1. Unknown \in Int
    BY NewestFacts DEF Unknown
  <1>2. IsFiniteSet(versions)
    <2>1. IsFiniteSet(1 .. Unknown)
      BY <1>1, FS_Interval
    <2>2. QED
      BY <2>1, FS_Subset
  <1>3. Cardinality(versions) \in Nat
    BY <1>2, FS_CardinalityType
  <1>4. Cardinality(versions) = 0 \/ Cardinality(versions) = 1
    BY <1>3
  <1>5. versions = {} \/ \E x : versions = {x}
    BY <1>2, <1>4, FS_EmptySet, FS_Singleton
  <1>6. QED
    BY <1>5

\* ReadHeads, with the row it has read.
LEMMA HeadsRead ==
  ASSUME SchemaTypes, NEW p \in Processes, ReadHeads(p)
  PROVE  \E k \in 0 .. Newest :
            /\ k = 0 => versions = {}
            /\ k # 0 => versions = {k} /\ versioned
            /\ revision' = [revision EXCEPT ![p] = k]
            /\ done' = [done EXCEPT ![p] = End(k)]
            /\ \E next \in {"stamp_table", "stamp_row", "upgrade_table", "running"} :
                  /\ To(p, next)
                  /\ next = "stamp_table" => pc[p] = "stamping" /\ k = 0
                  /\ next = "stamp_row" => pc[p] = "stamping" /\ k # 0
                  /\ next = "upgrade_table" => pc[p] = "upgrading" /\ k = 0
                  /\ next = "running" => pc[p] = "upgrading" /\ k # 0
  <1>1. versions \subseteq 1 .. Unknown /\ (versions # {} => versioned) /\ Cardinality(versions) <= 1
    BY DEF SchemaTypes, SchemaTypeOK, ReadHeads
  <1>2. pc[p] \in {"stamping", "upgrading"}
    BY DEF ReadHeads
  <1> PICK k : k = IF versions = {} THEN 0 ELSE CHOOSE v \in versions : TRUE
    OBVIOUS
  <1>3. k <= Newest /\ revision' = [revision EXCEPT ![p] = k] /\ done' = [done EXCEPT ![p] = End(k)]
    BY DEF ReadHeads
  <1>4. /\ versions = {} => k = 0
        /\ versions # {} => k \in 1 .. Unknown /\ versions = {k}
    BY <1>1, OneRow
  <1>5. k \in 0 .. Newest /\ (k = 0 => versions = {}) /\ (k # 0 => versions = {k} /\ versioned)
    BY <1>1, <1>3, <1>4, NewestFacts DEF Unknown
  <1> PICK next : next = CASE pc[p] = "stamping" /\ k = 0 -> "stamp_table"
                           [] pc[p] = "stamping" /\ k # 0 -> "stamp_row"
                           [] pc[p] = "upgrading" /\ k = 0 -> "upgrade_table"
                           [] OTHER -> "running"
    OBVIOUS
  <1>6. To(p, next)
    BY DEF ReadHeads
  <1>7. /\ next \in {"stamp_table", "stamp_row", "upgrade_table", "running"}
        /\ next = "stamp_table" => pc[p] = "stamping" /\ k = 0
        /\ next = "stamp_row" => pc[p] = "stamping" /\ k # 0
        /\ next = "upgrade_table" => pc[p] = "upgrading" /\ k = 0
        /\ next = "running" => pc[p] = "upgrading" /\ k # 0
    BY <1>2
  <1>8. QED
    BY <1>3, <1>5, <1>6, <1>7

Stages == {"down", "ready"} \cup Identifying \cup Writing

\* A start goes on.
LEMMA ToFacts ==
  ASSUME SchemaTypes, NEW p \in Processes, NEW next \in Stages, To(p, next)
  PROVE  /\ pc' \in [Processes -> Stages] /\ pc'[p] = next
         /\ \A q \in Processes \ {p} : pc'[q] = pc[q]
         /\ known' = known /\ disturbed' \in BOOLEAN
         /\ ~disturbed' => ~disturbed /\ \A q \in Processes \ {p} : ~Starting(q)
  BY DEF SchemaTypes, SchemaTypeOK, To, Stages

\* A start ends.
LEMMA ExitFacts ==
  ASSUME SchemaTypes, NEW p \in Processes, Exit(p)
  PROVE  /\ pc' \in [Processes -> Stages] /\ pc'[p] = "down"
         /\ revision' \in [Processes -> 0 .. Newest] /\ done' \in [Processes -> 0 .. Last]
         /\ \A q \in Processes \ {p} : pc'[q] = pc[q] /\ revision'[q] = revision[q] /\ done'[q] = done[q]
         /\ known' = known /\ UNCHANGED <<applied, versioned, versions>>
  <1>1. 0 \in 0 .. Newest /\ 0 \in 0 .. Last
    BY NewestFacts
  <1>2. QED
    BY <1>1 DEF SchemaTypes, SchemaTypeOK, Exit, Stages, schema

\* Steps of a start keep the types of the schema side.
LEMMA StartKeepsTypes ==
  ASSUME SchemaTypes, NEW p \in Processes, StartStep(p)
  PROVE  SchemaTypes'
  <1>1. ASSUME NEW next \in Stages, To(p, next), next \notin {"stamp_row", "running"}, Keep,
               UNCHANGED schema
        PROVE  SchemaTypes'
    BY <1>1, ToFacts DEF SchemaTypes, SchemaTypeOK, Keep, Stages, schema
  <1>2. ASSUME Exit(p), disturbed' \in BOOLEAN PROVE SchemaTypes'
    BY <1>2, ExitFacts DEF SchemaTypes, SchemaTypeOK, Stages
  <1>3. disturbed' = disturbed => disturbed' \in BOOLEAN
    BY DEF SchemaTypes
  <1>4. CASE Begin(p) \/ ListTables(p) \/ Ready(p)
    BY <1>4, <1>1 DEF Begin, ListTables, Ready, schema, Stages, Identifying, Writing
  <1>5. CASE Compare(p) \/ CompareLegacy(p)
    BY <1>5, <1>1, <1>2, <1>3 DEF Compare, CompareLegacy, Refuse, schema, Stages, Identifying, Writing
  <1>6. CASE ReadVersions(p)
    <2>1. CASE Refuse(p)
      BY <2>1, <1>2, <1>3 DEF Refuse
    <2>2. CASE ~Refuse(p)
      <3> PICK k \in Revisions : /\ revision' = [revision EXCEPT ![p] = k]
                                 /\ To(p, "comparing") /\ UNCHANGED <<schema, done>>
        BY <1>6, <2>2 DEF ReadVersions
      <3>1. k \in 0 .. Newest
        BY NewestFacts DEF Revisions
      <3>2. "comparing" \in Stages
        BY DEF Stages, Identifying
      <3>3. QED
        BY <3>1, <3>2, ToFacts DEF SchemaTypes, SchemaTypeOK, schema, Stages
    <2>3. QED
      BY <2>1, <2>2
  <1>7. CASE ReadHeads(p)
    <2> PICK k \in 0 .. Newest :
            /\ k # 0 => versions = {k} /\ versioned
            /\ revision' = [revision EXCEPT ![p] = k]
            /\ done' = [done EXCEPT ![p] = End(k)]
            /\ \E next \in {"stamp_table", "stamp_row", "upgrade_table", "running"} :
                  /\ To(p, next)
                  /\ next = "stamp_row" => k # 0
                  /\ next = "running" => k # 0
      BY <1>7, HeadsRead
    <2> PICK next \in {"stamp_table", "stamp_row", "upgrade_table", "running"} :
                  /\ To(p, next)
                  /\ next \in {"stamp_row", "running"} => versioned
      OBVIOUS
    <2>1. next \in Stages
      BY DEF Stages, Writing
    <2>2. End(k) \in 0 .. Last
      BY EndFacts
    <2>3. UNCHANGED <<applied, versioned, versions>>
      BY <1>7 DEF ReadHeads, schema
    <2>4. QED
      BY <2>1, <2>2, <2>3, ToFacts DEF SchemaTypes, SchemaTypeOK, Stages
  <1>8. CASE CreateVersionTable(p)
    <2> PICK next \in {"stamp_row", "running"} : To(p, next)
      BY <1>8 DEF CreateVersionTable
    <2>1. next \in Stages
      BY DEF Stages, Writing
    <2>2. versioned' = TRUE /\ UNCHANGED <<applied, versions, revision, done>>
      BY <1>8 DEF CreateVersionTable, Keep
    <2>3. QED
      BY <2>1, <2>2, ToFacts DEF SchemaTypes, SchemaTypeOK, Stages
  <1>9. CASE StampRow(p)
    <2>1. To(p, "upgrading") /\ "upgrading" \in Stages /\ versioned
          /\ UNCHANGED <<applied, versioned, revision, done>>
      BY <1>9 DEF StampRow, Stages, Writing, Keep, SchemaTypes
    <2>2. 1 \in 1 .. Unknown
      BY NewestFacts DEF Unknown
    <2>3. versions' \subseteq 1 .. Unknown
      BY <1>9, <2>2 DEF StampRow, SchemaTypes, SchemaTypeOK
    <2>4. QED
      BY <2>1, <2>3, ToFacts DEF SchemaTypes, SchemaTypeOK, Stages
  <1>10. CASE Execute(p)
    <2>1. /\ To(p, "running") /\ "running" \in Stages /\ versioned /\ pc[p] = "running"
          /\ done' = [done EXCEPT ![p] = Following(p)]
          /\ UNCHANGED <<versioned, versions, revision>>
      BY <1>10 DEF Execute, Stages, Writing, SchemaTypes
    <2>2. revision[p] \in 0 .. Newest /\ done[p] \in 0 .. Last /\ applied \in 0 .. Other
      BY DEF SchemaTypes, SchemaTypeOK
    <2>3. Following(p) \in 0 .. Last
      <3>1. revision[p] + 1 \in Revisions
        BY <1>10, <2>2, FollowingRevision DEF Execute
      <3>2. EndOf[revision[p] + 1] \in Nat /\ EndOf[revision[p] + 1] <= Last
        BY <3>1, EndOfFacts
      <3>3. QED
        BY <1>10, <2>2, <3>2, NewestFacts DEF Execute, Following
    <2>4. applied' \in 0 .. Other
      BY <1>10, <2>2, <2>3, NewestFacts DEF Execute, Other
    <2>5. QED
      BY <2>1, <2>3, <2>4, ToFacts DEF SchemaTypes, SchemaTypeOK, Stages
  <1>11. CASE SetVersion(p)
    <2>1. /\ To(p, "running") /\ "running" \in Stages /\ versioned /\ revision[p] \in 0 .. Newest
          /\ revision[p] < Newest
          /\ revision' = [revision EXCEPT ![p] = revision[p] + 1]
          /\ UNCHANGED <<applied, versioned, done>>
      BY <1>11 DEF SetVersion, RevisionDone, Stages, Writing, SchemaTypes, SchemaTypeOK
    <2>2. revision[p] + 1 \in 0 .. Newest /\ revision[p] + 1 \in 1 .. Unknown
      BY <2>1, NewestFacts DEF Unknown
    <2>3. versions' \subseteq 1 .. Unknown
      BY <1>11, <2>2 DEF SetVersion, SchemaTypes, SchemaTypeOK
    <2>4. QED
      BY <2>1, <2>2, <2>3, ToFacts DEF SchemaTypes, SchemaTypeOK, Stages
  <1>12. CASE Die(p) \/ Stop(p)
    <2>1. disturbed' \in BOOLEAN
      BY <1>12 DEF Die, Stop, SchemaTypes
    <2>2. QED
      BY <1>12, <1>2, <2>1 DEF Die, Stop
  <1>13. QED
    BY <1>4, <1>5, <1>6, <1>7, <1>8, <1>9, <1>10, <1>11, <1>12 DEF StartStep

\* On a database it does not recognise a start reads, and ends.
LEMMA StartLeavesForeign ==
  ASSUME SchemaTypes, ForeignInv, NEW p \in Processes, StartStep(p)
  PROVE  ForeignInv' /\ (~known => UNCHANGED schema)
  <1>1. known' = known
    BY DEF StartStep, Begin, ListTables, ReadVersions, Compare, CompareLegacy, ReadHeads,
       CreateVersionTable, StampRow, Execute, SetVersion, Ready, Die, Stop, Refuse, Exit, To
  <1> SUFFICES ASSUME ~known PROVE ForeignInv' /\ UNCHANGED schema
    BY <1>1 DEF ForeignInv, SchemaTypes
  <1>2. /\ ~Identifiable /\ pc[p] \notin Writing
        /\ pc[p] = "comparing" => revision[p] \in Revisions /\ versions = {revision[p]}
        /\ pc[p] = "legacy" => ~versioned
    BY DEF ForeignInv
  <1>3. /\ applied = 0 => versioned
        /\ applied = EndOf[1] => versioned
        /\ \A k \in Revisions : ~(versioned /\ versions = {k} /\ applied = EndOf[k])
    BY <1>2 DEF Identifiable
  <1>4. /\ UNCHANGED schema
        /\ pc' \in [Processes -> {"down", "ready"} \cup Identifying \cup Writing]
        /\ \A q \in Processes \ {p} : pc'[q] = pc[q] /\ revision'[q] = revision[q]
        /\ pc'[p] \notin Writing
        /\ pc'[p] = "comparing" => revision'[p] \in Revisions /\ versions = {revision'[p]}
        /\ pc'[p] = "legacy" => ~versioned
    <2> USE DEF SchemaTypes, SchemaTypeOK, Identifying, Writing
    <2>1. CASE Begin(p) \/ Stop(p) \/ Die(p)
      BY <2>1 DEF Begin, Stop, Die, To, Keep, Exit
    <2>2. CASE ListTables(p)
      BY <2>2, <1>3 DEF ListTables, To, Keep
    <2>3. CASE ReadVersions(p)
      BY <2>3 DEF ReadVersions, To, Refuse, Exit
    <2>4. CASE Compare(p)
      BY <2>4, <1>2, <1>3 DEF Compare, Refuse, Exit
    <2>5. CASE CompareLegacy(p)
      BY <2>5, <1>2, <1>3 DEF CompareLegacy, Refuse, Exit
    <2>6. QED
      BY <1>2, <2>1, <2>2, <2>3, <2>4, <2>5 DEF StartStep, ReadHeads, CreateVersionTable, StampRow, Execute,
         SetVersion, RevisionDone, Ready
  <1>5. ~Identifiable'
    BY <1>2, <1>4 DEF schema, Identifiable
  <1>6. ASSUME NEW q \in Processes
        PROVE  /\ pc'[q] \notin Writing
               /\ pc'[q] = "comparing" => revision'[q] \in Revisions /\ versions = {revision'[q]}
               /\ pc'[q] = "legacy" => ~versioned
    <2>1. CASE q = p
      BY <1>4, <2>1
    <2>2. CASE q # p
      BY <1>4, <2>2 DEF ForeignInv
    <2>3. QED
      BY <2>1, <2>2
  <1>7. UNCHANGED <<applied, versioned, versions>>
    BY <1>4 DEF schema
  <1>8. QED
    BY <1>4, <1>5, <1>6, <1>7 DEF ForeignInv

\* What is said of the schema holds while it does not change.
LEMMA SchemaKept ==
  ASSUME UNCHANGED <<applied, versioned, versions>>
  PROVE  /\ Identifiable => Identifiable'
         /\ LegacyNow => LegacyNow'
         /\ Covered => Covered'
  BY DEF Identifiable, LegacyNow, Covered

\* And so does what a start by itself relies on.
LEMMA AloneKept ==
  ASSUME UNCHANGED <<applied, versioned, versions>>, NEW q \in Processes, Alone(q),
         pc'[q] = pc[q], revision'[q] = revision[q], done'[q] = done[q]
  PROVE  Alone(q)'
  BY SchemaKept DEF Alone

\* A step that goes on, or ends, when nobody else starts.
LEMMA StartKeepsExact ==
  ASSUME SchemaTypes, ExactInv, NEW p \in Processes, StartStep(p)
  PROVE  ExactInv'
  <1> USE DEF Starting, Identifying, Writing
  <1> SUFFICES ASSUME known', ~disturbed'
               PROVE  /\ \A q, r \in Processes : Starting(q)' /\ Starting(r)' => q = r
                      /\ \A q \in Processes : Starting(q)' => Alone(q)'
                      /\ ~StartUnderWay' => Identifiable'
    BY DEF ExactInv
  <1>1. known /\ ~disturbed
    BY DEF SchemaTypes, StartStep, Begin, ListTables, ReadVersions, Compare, CompareLegacy, ReadHeads,
       CreateVersionTable, StampRow, Execute, SetVersion, Ready, Die, Stop, Refuse, Exit, To
  <1>2. /\ \A q, r \in Processes : Starting(q) /\ Starting(r) => q = r
        /\ \A q \in Processes : Starting(q) => Alone(q)
        /\ ~StartUnderWay => Identifiable
    BY <1>1 DEF ExactInv
  <1>3. ASSUME NEW next \in Stages, To(p, next), Starting(p)' => Alone(p)', ~Starting(p)' => Identifiable'
        PROVE  /\ \A q, r \in Processes : Starting(q)' /\ Starting(r)' => q = r
               /\ \A q \in Processes : Starting(q)' => Alone(q)'
               /\ ~StartUnderWay' => Identifiable'
    <2>1. \A q \in Processes \ {p} : ~Starting(q)'
      BY <1>3, ToFacts
    <2>2. QED
      BY <1>3, <2>1 DEF StartUnderWay
  <1>4. ASSUME Exit(p), Starting(p) => Identifiable
        PROVE  /\ \A q, r \in Processes : Starting(q)' /\ Starting(r)' => q = r
               /\ \A q \in Processes : Starting(q)' => Alone(q)'
               /\ ~StartUnderWay' => Identifiable'
    <2>1. \A q \in Processes : Starting(q)' => q # p /\ Starting(q)
      BY <1>4, ExitFacts
    <2>2. Identifiable => Identifiable'
      BY <1>4, ExitFacts, SchemaKept
    <2>3. \A q \in Processes : Starting(q)' => Alone(q)'
      BY <1>2, <1>4, <2>1, ExitFacts, AloneKept
    <2>4. ~StartUnderWay' => Identifiable'
      BY <1>2, <1>4, <2>1, <2>2, ExitFacts DEF StartUnderWay
    <2>5. QED
      BY <1>2, <2>1, <2>3, <2>4
  <1>5. CASE Begin(p)
    <2>1. To(p, "listing") /\ "listing" \in Stages /\ UNCHANGED schema /\ ~Starting(p)
      BY <1>5 DEF Begin, Stages
    <2>2. ~StartUnderWay
      BY <2>1, ToFacts DEF StartUnderWay
    <2>3. Identifiable' /\ pc'[p] = "listing"
      BY <1>2, <2>1, <2>2, ToFacts DEF Identifiable, schema
    <2>4. QED
      BY <1>3, <2>1, <2>3 DEF Alone
  <1>6. CASE ListTables(p)
    <2>1. Alone(p) /\ Identifiable /\ UNCHANGED schema
      BY <1>2, <1>6 DEF ListTables, Alone
    <2> PICK next : next = IF versioned THEN "versions" ELSE IF applied > 0 THEN "legacy" ELSE "upgrading"
      OBVIOUS
    <2>2. To(p, next) /\ next \in Stages
      BY <1>6 DEF ListTables, Stages
    <2>3. pc'[p] = next /\ Identifiable'
      BY <2>1, <2>2, ToFacts DEF Identifiable, schema
    <2>4. applied \in Nat
      BY NewestFacts DEF SchemaTypes, SchemaTypeOK
    <2>5. next = "legacy" => LegacyNow'
      BY <2>1, <2>3, <2>4 DEF LegacyNow, Identifiable, schema
    <2>6. Alone(p)'
      BY <2>1, <2>3, <2>4, <2>5 DEF Alone, schema
    <2>7. Starting(p)'
      BY <2>3
    <2>8. QED
      BY <1>3, <2>2, <2>6, <2>7
  <1>7. CASE ReadVersions(p)
    <2>1. Alone(p) /\ Identifiable /\ versioned
      BY <1>2, <1>7 DEF ReadVersions, Alone
    <2>2. CASE Refuse(p)
      BY <1>4, <2>1, <2>2 DEF Refuse
    <2>3. CASE ~Refuse(p)
      <3> PICK k \in Revisions : /\ versions = {k} /\ revision' = [revision EXCEPT ![p] = k]
                                 /\ To(p, "comparing") /\ UNCHANGED <<schema, done>>
        BY <1>7, <2>3 DEF ReadVersions
      <3>1. pc'[p] = "comparing" /\ revision'[p] = k /\ "comparing" \in Stages
        BY ToFacts DEF Stages, SchemaTypes, SchemaTypeOK
      <3>2. Identifiable'
        BY <2>1 DEF Identifiable, schema
      <3>3. Alone(p)' /\ Starting(p)'
        BY <2>1, <3>1, <3>2 DEF Alone, schema
      <3>4. QED
        BY <1>3, <3>1, <3>3
    <2>4. QED
      BY <2>2, <2>3
  <1>8. CASE Compare(p) \/ CompareLegacy(p)
    <2>1. Alone(p) /\ Identifiable /\ (pc[p] = "legacy" => LegacyNow)
      BY <1>2, <1>8 DEF Compare, CompareLegacy, Alone
    <2>2. CASE Refuse(p)
      BY <1>4, <2>1, <2>2 DEF Refuse
    <2>3. CASE ~Refuse(p)
      <3> PICK next \in {"upgrading", "stamping"} :
               /\ To(p, next) /\ UNCHANGED schema
               /\ pc[p] = IF next = "stamping" THEN "legacy" ELSE "comparing"
        BY <1>8, <2>3 DEF Compare, CompareLegacy
      <3>1. pc'[p] = next /\ next \in Stages
        BY ToFacts DEF Stages
      <3>2. Identifiable' /\ (next = "stamping" => LegacyNow')
        BY <2>1, SchemaKept DEF schema
      <3>3. next = "upgrading" => versioned'
        <4>1. pc[p] = "comparing" => versioned
          BY <2>1 DEF Alone, SchemaTypes, SchemaTypeOK
        <4>2. QED
          BY <4>1 DEF schema
      <3>4. Alone(p)' /\ Starting(p)'
        BY <3>1, <3>2, <3>3 DEF Alone
      <3>5. QED
        BY <1>3, <3>1, <3>4
    <2>4. QED
      BY <2>2, <2>3
  <1>9. CASE ReadHeads(p)
    <2>1. Identifiable /\ (pc[p] = "stamping" => LegacyNow) /\ UNCHANGED schema
      BY <1>2, <1>9 DEF ReadHeads, Alone
    <2> PICK k \in 0 .. Newest :
            /\ k = 0 => versions = {}
            /\ k # 0 => versions = {k} /\ versioned
            /\ revision' = [revision EXCEPT ![p] = k]
            /\ done' = [done EXCEPT ![p] = End(k)]
            /\ \E next \in {"stamp_table", "stamp_row", "upgrade_table", "running"} :
                  /\ To(p, next)
                  /\ next = "stamp_table" => pc[p] = "stamping" /\ k = 0
                  /\ next = "stamp_row" => pc[p] = "stamping" /\ k # 0
                  /\ next = "upgrade_table" => pc[p] = "upgrading" /\ k = 0
                  /\ next = "running" => pc[p] = "upgrading" /\ k # 0
      BY <1>9, HeadsRead
    <2> PICK next \in {"stamp_table", "stamp_row", "upgrade_table", "running"} :
                  /\ To(p, next)
                  /\ next = "stamp_table" => pc[p] = "stamping" /\ k = 0
                  /\ next = "stamp_row" => pc[p] = "stamping" /\ k # 0
                  /\ next = "upgrade_table" => pc[p] = "upgrading" /\ k = 0
                  /\ next = "running" => pc[p] = "upgrading" /\ k # 0
      OBVIOUS
    <2>2. pc'[p] = next /\ next \in Stages /\ Starting(p)'
      BY ToFacts DEF Stages
    <2>3. revision'[p] = k /\ done'[p] = End(k)
      BY DEF SchemaTypes, SchemaTypeOK
    <2>4. Identifiable'
      BY <2>1 DEF Identifiable, schema
    <2>5. next # "stamp_row"
      BY <2>1 DEF LegacyNow
    <2>6. ASSUME next = "stamp_table" PROVE Alone(p)'
      <3>1. pc'[p] = "stamp_table" /\ revision'[p] = 0 /\ LegacyNow'
        BY <2>1, <2>2, <2>3, <2>6, SchemaKept DEF schema
      <3>2. QED
        BY <2>4, <3>1 DEF Alone
    <2>7. ASSUME next = "upgrade_table" PROVE Alone(p)'
      <3>1. ~versioned \/ \E l \in Revisions : versions = {l}
        BY <2>1 DEF Identifiable
      <3>2. k = 0 /\ versions = {} /\ ~versioned
        BY <2>7, <3>1
      <3>3. applied = 0
        BY <1>2, <2>7, <3>2 DEF Alone
      <3>4. /\ pc'[p] = "upgrade_table" /\ revision'[p] = 0 /\ done'[p] = 0
            /\ ~versioned' /\ applied' = 0
        BY <2>1, <2>2, <2>3, <2>7, <3>2, <3>3 DEF End, schema
      <3>5. QED
        BY <2>4, <3>4 DEF Alone
    <2>8. ASSUME next = "running" PROVE Alone(p)'
      <3>1. k # 0 /\ versions = {k} /\ versioned
        BY <2>8
      <3>2. k \in Revisions /\ applied = EndOf[k] /\ End(k) = EndOf[k]
        BY <2>1, <3>1 DEF Identifiable, End
      <3>3. k < Newest => EndOf[k] <= EndOf[k + 1]
        <4>1. CASE k < Newest
          <5>1. k + 1 \in Revisions /\ EndOf[k] < EndOf[k + 1]
            BY <3>1, <4>1, FollowingRevision
          <5>2. QED
            BY <3>2, <5>1, EndOfFacts
        <4>2. QED
          BY <4>1
      <3>4. k = Newest => EndOf[k] = Last
        BY DEF Last
      <3>5. End(k) <= EndOf[k]
        BY <3>2, EndOfFacts
      <3>6. /\ pc'[p] = "running" /\ revision'[p] = k /\ done'[p] = EndOf[k]
            /\ versioned' /\ applied' = EndOf[k] /\ versions' = {k}
        BY <2>1, <2>2, <2>3, <2>8, <3>1, <3>2 DEF schema
      <3>7. QED
        BY <2>4, <3>1, <3>3, <3>4, <3>5, <3>6 DEF Alone
    <2>9. QED
      BY <1>3, <2>2, <2>5, <2>6, <2>7, <2>8
  <1>10. CASE CreateVersionTable(p)
    <2>1. Alone(p) /\ pc[p] \in {"stamp_table", "upgrade_table"}
      BY <1>2, <1>10 DEF CreateVersionTable
    <2> PICK next : next = IF pc[p] = "stamp_table" THEN "stamp_row" ELSE "running"
      OBVIOUS
    <2>2. /\ To(p, next) /\ versioned' = TRUE /\ UNCHANGED <<applied, versions, revision, done>>
          /\ next \in Stages
      BY <1>10 DEF CreateVersionTable, Keep, Stages
    <2>3. pc'[p] = next /\ Starting(p)'
      BY <2>2, ToFacts
    <2>4. versions = {}
      BY <2>1 DEF Alone, LegacyNow, SchemaTypes, SchemaTypeOK
    <2>5. ASSUME pc[p] = "stamp_table" PROVE Alone(p)'
      <3>1. /\ pc'[p] = "stamp_row" /\ versioned' /\ versions' = {}
            /\ applied' = EndOf[1] /\ revision'[p] = 0
        BY <2>1, <2>2, <2>3, <2>4, <2>5 DEF Alone, LegacyNow
      <3>2. QED
        BY <3>1 DEF Alone
    <2>6. ASSUME pc[p] = "upgrade_table" PROVE Alone(p)'
      <3>1. End(0) = 0 /\ 0 <= EndOf[1] /\ 0 < Newest
        BY NewestFacts DEF End
      <3>2. /\ versioned' /\ applied' = 0 /\ revision'[p] = 0 /\ done'[p] = 0 /\ versions' = {}
            /\ pc'[p] = "running"
        BY <2>1, <2>2, <2>3, <2>4, <2>6 DEF Alone
      <3>3. Newest # 0 /\ 0 + 1 = 1
        BY NewestFacts
      <3>4. QED
        BY <3>1, <3>2, <3>3 DEF Alone
    <2>7. QED
      BY <1>3, <2>1, <2>2, <2>3, <2>5, <2>6
  <1>11. CASE StampRow(p)
    <2>1. Alone(p) /\ To(p, "upgrading") /\ "upgrading" \in Stages
          /\ versions' = (versions \ {revision[p]}) \cup {1} /\ pc[p] = "stamp_row"
          /\ UNCHANGED <<applied, versioned>>
      BY <1>2, <1>11 DEF StampRow, Stages
    <2>2. pc'[p] = "upgrading" /\ Starting(p)'
      BY <2>1, ToFacts
    <2>3. versions' = {1} /\ versioned' /\ applied' = EndOf[1]
      BY <2>1 DEF Alone
    <2>4. Identifiable'
      BY <2>3, NewestFacts DEF Identifiable
    <2>5. QED
      BY <1>3, <2>1, <2>2, <2>3, <2>4 DEF Alone
  <1>12. CASE Execute(p)
    <2>1. /\ Alone(p) /\ To(p, "running") /\ "running" \in Stages /\ pc[p] = "running"
          /\ UNCHANGED <<versioned, versions, revision>> /\ revision[p] < Newest
          /\ Following(p) <= EndOf[revision[p] + 1]
          /\ done' = [done EXCEPT ![p] = Following(p)]
          /\ (applied = done[p] /\ applied' = Following(p)) \/ (applied >= Following(p) /\ applied' = applied)
      BY <1>2, <1>12 DEF Execute, Stages
    <2>2. done[p] \in Nat /\ revision[p] \in 0 .. Newest /\ End(revision[p]) \in Nat
      <3>1. done[p] \in 0 .. Last /\ revision[p] \in 0 .. Newest
        BY DEF SchemaTypes, SchemaTypeOK
      <3>2. QED
        BY <3>1, NewestFacts, EndFacts
    <2>3. applied = done[p] /\ applied' = done[p] + 1
      BY <2>1, <2>2 DEF Alone, Following
    <2>4. done'[p] = done[p] + 1
      BY <2>1 DEF Following, SchemaTypes, SchemaTypeOK
    <2>5. pc'[p] = "running" /\ Starting(p)'
      BY <2>1, ToFacts
    <2>6. Alone(p)'
      <3>1. End(revision[p])' = End(revision[p]) /\ revision'[p] = revision[p]
        BY <2>1 DEF End
      <3>2. revision[p] # Newest /\ End(revision[p]) <= done[p] + 1 /\ done[p] + 1 <= EndOf[revision[p] + 1]
        BY <2>1, <2>2 DEF Alone, Following
      <3>3. QED
        BY <2>1, <2>3, <2>4, <2>5, <3>1, <3>2 DEF Alone
    <2>7. QED
      BY <1>3, <2>1, <2>5, <2>6
  <1>13. CASE SetVersion(p)
    <2> PICK k : k = revision[p]
      OBVIOUS
    <2>1. /\ Alone(p) /\ To(p, "running") /\ "running" \in Stages /\ pc[p] = "running"
          /\ k < Newest /\ done[p] = EndOf[k + 1]
          /\ versions' = (versions \ {k}) \cup {k + 1}
          /\ revision' = [revision EXCEPT ![p] = k + 1]
          /\ UNCHANGED <<applied, versioned, done>>
      BY <1>2, <1>13 DEF SetVersion, RevisionDone, Stages
    <2>2. k \in 0 .. Newest /\ k + 1 \in Revisions /\ k + 1 # 0 /\ revision'[p] = k + 1
      <3>1. k \in 0 .. Newest /\ revision'[p] = k + 1
        BY <2>1 DEF SchemaTypes, SchemaTypeOK
      <3>2. k + 1 \in Revisions
        BY <2>1, <3>1, FollowingRevision
      <3>3. k + 1 # 0
        BY <3>1
      <3>4. QED
        BY <3>1, <3>2, <3>3
    <2>3. pc'[p] = "running" /\ Starting(p)'
      BY <2>1, ToFacts
    <2>4. versions' = {k + 1}
      BY <2>1 DEF Alone
    <2>5. End(k + 1) = EndOf[k + 1] /\ (k + 1 = Newest => EndOf[k + 1] = Last)
      BY <2>2 DEF End, Last
    <2>6. k + 1 < Newest => EndOf[k + 1] <= EndOf[k + 1 + 1]
      <3>1. CASE k + 1 < Newest
        <4>1. k + 1 \in 0 .. Newest /\ k + 1 # 0
          BY <2>2, EndOfFacts
        <4>2. k + 1 + 1 \in Revisions /\ EndOf[k + 1] < EndOf[k + 1 + 1]
          BY <3>1, <4>1, FollowingRevision
        <4>3. QED
          BY <2>2, <4>2, EndOfFacts
      <3>2. QED
        BY <3>1
    <2>7. EndOf[k + 1] <= EndOf[k + 1]
      BY <2>2, EndOfFacts
    <2>8. versioned' /\ applied' = done'[p] /\ done'[p] = EndOf[k + 1]
      BY <2>1 DEF Alone
    <2>9. Alone(p)'
      BY <2>2, <2>3, <2>4, <2>5, <2>6, <2>7, <2>8 DEF Alone
    <2>10. QED
      BY <1>3, <2>1, <2>3, <2>9
  <1>14. CASE Ready(p)
    <2>1. /\ Alone(p) /\ To(p, "ready") /\ "ready" \in Stages /\ pc[p] = "running"
          /\ revision[p] = Newest /\ UNCHANGED schema
      BY <1>2, <1>14 DEF Ready, Stages
    <2>2. pc'[p] = "ready"
      BY <2>1, ToFacts
    <2>3. versioned /\ versions = {Newest} /\ applied = Last /\ Newest \in Revisions /\ EndOf[Newest] = Last
      BY <2>1, NewestFacts DEF Alone, Last
    <2>4. Identifiable'
      BY <2>1, <2>3 DEF Identifiable, schema
    <2>5. QED
      BY <1>3, <2>1, <2>2, <2>4
  <1>15. CASE Die(p) \/ Stop(p)
    <2>1. Exit(p) /\ (Starting(p) => pc[p] \notin Writing)
      BY <1>1, <1>15 DEF Die, Stop
    <2>2. Starting(p) => Identifiable
      BY <1>2, <2>1 DEF Alone
    <2>3. QED
      BY <1>4, <2>1, <2>2
  <1>16. QED
    BY <1>5, <1>6, <1>7, <1>8, <1>9, <1>10, <1>11, <1>12, <1>13, <1>14, <1>15 DEF StartStep

\* What any step of a start does to the schema, as everybody else sees it.
LEMMA StartEffect ==
  ASSUME SchemaTypes, NEW p \in Processes, Racing(p), StartStep(p)
  PROVE  /\ applied \in Nat /\ applied' \in Nat
         /\ applied' = applied \/ (applied' = applied + 1 /\ applied' <= Last)
         /\ versions' = versions \/ Covered'
         /\ Covered => Covered'
  <1>1. applied \in Nat /\ Last \in Nat
    BY NewestFacts DEF SchemaTypes, SchemaTypeOK, Other
  <1>2. ASSUME UNCHANGED <<applied, versions>>
        PROVE  Covered => Covered'
    BY <1>2 DEF Covered
  <1>3. CASE UNCHANGED <<applied, versions>>
    BY <1>1, <1>2, <1>3
  <1>4. CASE StampRow(p)
    <2>1. /\ Covered /\ EndOf[1] <= applied
          /\ versions' = (versions \ {revision[p]}) \cup {1} /\ applied' = applied
      BY <1>4 DEF StampRow, Racing, Writing
    <2>2. Covered'
      BY <2>1, NewestFacts DEF Covered
    <2>3. QED
      BY <1>1, <2>1, <2>2
  <1>5. CASE Execute(p)
    <2>1. revision[p] \in 0 .. Newest /\ revision[p] < Newest /\ done[p] \in 0 .. Last
      BY <1>5 DEF Execute, SchemaTypes, SchemaTypeOK
    <2>2. EndOf[revision[p] + 1] \in Nat /\ EndOf[revision[p] + 1] <= Last
      BY <2>1, FollowingRevision, EndOfFacts
    <2>3. /\ applied' = applied \/ (applied' = applied + 1 /\ applied' <= Last)
          /\ versions' = versions /\ applied' \in Nat
      BY <1>1, <1>5, <2>1, <2>2 DEF Execute, Following
    <2>4. Covered => Covered'
      <3>1. ASSUME NEW k \in Revisions, EndOf[k] <= applied
            PROVE  EndOf[k] <= applied'
        BY <1>1, <2>3, <3>1, EndOfFacts
      <3>2. QED
        BY <2>3, <3>1 DEF Covered
    <2>5. QED
      BY <1>1, <2>3, <2>4
  <1>6. CASE SetVersion(p)
    <2>1. /\ Covered /\ done[p] <= applied /\ done[p] = EndOf[revision[p] + 1]
          /\ versions' = (versions \ {revision[p]}) \cup {revision[p] + 1} /\ applied' = applied
      BY <1>6 DEF SetVersion, RevisionDone, Racing, Writing
    <2>2. revision[p] + 1 \in Revisions
      BY <1>6, FollowingRevision DEF SetVersion, RevisionDone, SchemaTypes, SchemaTypeOK
    <2>3. Covered'
      BY <2>1, <2>2 DEF Covered
    <2>4. QED
      BY <1>1, <2>1, <2>3
  <1>7. QED
    BY <1>3, <1>4, <1>5, <1>6 DEF StartStep, Begin, ListTables, ReadVersions, Compare, CompareLegacy, ReadHeads,
       CreateVersionTable, Ready, Die, Stop, Refuse, Exit, Keep, schema

\* Of two starts that race, the one that stands still keeps what it relies on.
LEMMA OthersKeepRacing ==
  ASSUME SchemaTypes, ExactInv, NEW p \in Processes, Racing(p), StartStep(p),
         NEW q \in Processes, q # p, Racing(q)
  PROVE  Racing(q)'
  <1>1. /\ applied \in Nat /\ applied' \in Nat
        /\ applied' = applied \/ (applied' = applied + 1 /\ applied' <= Last)
        /\ versions' = versions \/ Covered'
        /\ Covered => Covered'
    BY StartEffect
  <1>2. pc'[q] = pc[q] /\ revision'[q] = revision[q] /\ done'[q] = done[q]
        /\ known' = known /\ (~disturbed' => ~disturbed)
    BY DEF StartStep, Begin, ListTables, ReadVersions, Compare, CompareLegacy, ReadHeads,
       CreateVersionTable, StampRow, Execute, SetVersion, RevisionDone, Ready, Die, Stop, Refuse, Exit, To, Keep,
       SchemaTypes, SchemaTypeOK
  <1>3. done[q] \in Nat /\ EndOf[1] \in Nat /\ Last \in Nat
    BY NewestFacts DEF SchemaTypes, SchemaTypeOK
  <1>4. /\ applied <= Last => applied' <= Last
        /\ EndOf[1] <= applied => EndOf[1] <= applied'
        /\ done[q] <= applied => done[q] <= applied'
        /\ applied = Last => applied' = Last
    BY <1>1, <1>3
  <1>5. ASSUME pc[q] = "ready", ~disturbed' PROVE AtHead'
    <2>1. known /\ AtHead /\ ~disturbed
      BY <1>2, <1>5 DEF Racing
    <2>2. Starting(p) => Alone(p)
      BY <2>1 DEF ExactInv
    <2>3. ~StampRow(p)
      BY <2>1, <2>2 DEF StampRow, Alone, Starting, Writing, AtHead
    <2>4. ~SetVersion(p)
      <3>1. SetVersion(p) => Alone(p) /\ revision[p] < Newest /\ pc[p] = "running"
        BY <2>2 DEF SetVersion, RevisionDone, Starting, Writing
      <3>2. Alone(p) /\ pc[p] = "running" /\ AtHead => revision[p] = Newest
        BY DEF Alone, AtHead
      <3>3. QED
        BY <2>1, <3>1, <3>2, NewestFacts
    <2>5. versions' = versions
      BY <2>3, <2>4 DEF StartStep, Begin, ListTables, ReadVersions, Compare, CompareLegacy, ReadHeads,
         CreateVersionTable, Execute, Ready, Die, Stop, Refuse, Exit, Keep, schema
    <2>6. QED
      BY <2>1, <2>5 DEF AtHead
  <1>6. QED
    BY <1>1, <1>2, <1>4, <1>5 DEF Racing

\* Of two starts that race, the one that takes a step keeps what it relies on.
LEMMA StartKeepsRacing ==
  ASSUME SchemaTypes, ForeignInv, ExactInv, NEW p \in Processes, Racing(p), StartStep(p)
  PROVE  Racing(p)'
  <1>1. applied \in Nat /\ Last \in Nat /\ done[p] \in Nat /\ done[p] <= Last /\ revision[p] \in 0 .. Newest
    BY NewestFacts DEF SchemaTypes, SchemaTypeOK, Other
  <1>2. /\ applied' \in Nat /\ (Covered => Covered')
        /\ applied' = applied \/ (applied' = applied + 1 /\ applied' <= Last)
    BY StartEffect
  <1>3. SchemaTypes'
    BY StartKeepsTypes
  <1>4. CASE Begin(p) \/ Refuse(p) \/ Die(p) \/ Stop(p)
    <2>1. pc'[p] \in {"listing", "down"}
      BY <1>4 DEF Begin, Refuse, Die, Stop, To, Exit, SchemaTypes, SchemaTypeOK
    <2>2. QED
      BY <2>1 DEF Racing, Writing
  <1>5. CASE ListTables(p)
    <2>1. CASE versioned
      <3>1. pc'[p] = "versions"
        BY <1>5, <2>1 DEF ListTables, To, SchemaTypes, SchemaTypeOK
      <3>2. QED
        BY <3>1 DEF Racing, Writing
    <2>2. CASE ~versioned
      <3>1. versions' = {} /\ applied' = applied
        BY <1>5, <2>2 DEF ListTables, SchemaTypes, SchemaTypeOK, schema
      <3>2. Covered'
        BY <3>1 DEF Covered
      <3>3. pc'[p] = "legacy" \/ (pc'[p] = "upgrading" /\ applied' <= Last)
        BY <1>1, <1>5, <2>2, <3>1 DEF ListTables, To, SchemaTypes, SchemaTypeOK
      <3>4. QED
        BY <3>2, <3>3 DEF Racing, Writing
    <2>3. QED
      BY <2>1, <2>2
  <1>6. CASE ReadVersions(p) /\ ~Refuse(p)
    <2>1. PICK k \in Revisions : versions = {k} /\ revision' = [revision EXCEPT ![p] = k]
                                 /\ To(p, "comparing") /\ UNCHANGED <<schema, done>>
      BY <1>6 DEF ReadVersions
    <2>2. pc'[p] = "comparing" /\ revision'[p] = k /\ versions' = {k}
      BY <2>1 DEF To, SchemaTypes, SchemaTypeOK, schema
    <2>3. QED
      BY <2>2 DEF Racing, Writing
  <1>7. CASE Compare(p) /\ ~Refuse(p)
    <2>1. /\ applied = EndOf[revision[p]] /\ revision[p] \in Revisions
          /\ Covered \/ versions = {revision[p]}
          /\ pc'[p] = "upgrading" /\ UNCHANGED schema
      BY <1>7 DEF Compare, To, Racing, SchemaTypes, SchemaTypeOK
    <2>2. EndOf[revision[p]] <= EndOf[revision[p]] /\ applied' <= Last
      BY <2>1, EndOfFacts DEF schema
    <2>3. Covered'
      BY <1>2, <2>1, <2>2 DEF Covered, schema
    <2>4. QED
      BY <2>1, <2>2, <2>3 DEF Racing, Writing
  <1>8. CASE CompareLegacy(p) /\ ~Refuse(p)
    <2>1. applied' = EndOf[1] /\ Covered /\ pc'[p] = "stamping"
      BY <1>8 DEF CompareLegacy, To, Racing, SchemaTypes, SchemaTypeOK, schema
    <2>2. applied' <= Last /\ EndOf[1] <= applied'
      BY <2>1, NewestFacts
    <2>3. QED
      BY <1>2, <2>1, <2>2 DEF Racing, Writing
  <1>9. CASE ReadHeads(p)
    <2>1. PICK k \in 0 .. Newest :
            /\ k # 0 => versions = {k}
            /\ revision' = [revision EXCEPT ![p] = k]
            /\ done' = [done EXCEPT ![p] = End(k)]
            /\ \E next \in {"stamp_table", "stamp_row", "upgrade_table", "running"} :
                  /\ To(p, next)
                  /\ next = "stamp_table" => pc[p] = "stamping"
                  /\ next = "stamp_row" => pc[p] = "stamping"
                  /\ next = "upgrade_table" => k = 0
                  /\ next = "running" => k # 0
      BY <1>9, HeadsRead
    <2>2. PICK next \in {"stamp_table", "stamp_row", "upgrade_table", "running"} :
                  /\ To(p, next)
                  /\ next = "stamp_table" => pc[p] = "stamping"
                  /\ next = "stamp_row" => pc[p] = "stamping"
                  /\ next = "upgrade_table" => k = 0
                  /\ next = "running" => k # 0
      BY <2>1
    <2>3. /\ pc'[p] = next /\ revision'[p] = k /\ done'[p] = End(k) /\ UNCHANGED schema
          /\ pc[p] \in {"stamping", "upgrading"}
      BY <1>9, <2>1, <2>2 DEF ReadHeads, To, SchemaTypes, SchemaTypeOK
    <2>4. Covered /\ applied <= Last /\ (pc[p] = "stamping" => EndOf[1] <= applied)
      BY <2>3 DEF Racing, Writing
    <2>5. /\ End(k) <= End(k) /\ End(k) <= applied
          /\ k < Newest => End(k) <= EndOf[k + 1]
      <3>1. CASE k = 0
        <4>1. End(k) = 0 /\ k + 1 = 1
          BY <3>1 DEF End
        <4>2. QED
          BY <1>1, <4>1, NewestFacts
      <3>2. CASE k # 0
        <4>1. k \in Revisions /\ End(k) = EndOf[k] /\ End(k) \in Nat
          BY <3>2, EndFacts
        <4>2. EndOf[k] <= applied
          BY <2>1, <2>4, <3>2 DEF Covered
        <4>3. ASSUME k < Newest PROVE EndOf[k] <= EndOf[k + 1]
          <5>1. k + 1 \in Revisions /\ EndOf[k] < EndOf[k + 1]
            BY <3>2, <4>3, FollowingRevision
          <5>2. EndOf[k] \in Nat /\ EndOf[k + 1] \in Nat
            BY <4>1, <5>1, EndOfFacts
          <5>3. QED
            BY <5>1, <5>2
        <4>4. QED
          BY <4>1, <4>2, <4>3
      <3>3. QED
        BY <3>1, <3>2
    <2>6. Covered' /\ applied' = applied
      BY <1>2, <2>3, <2>4 DEF schema
    <2>7. QED
      BY <2>2, <2>3, <2>4, <2>5, <2>6 DEF Racing, Writing
  <1>10. CASE CreateVersionTable(p)
    <2>1. /\ pc[p] \in {"stamp_table", "upgrade_table"} /\ applied' = applied
          /\ pc'[p] = IF pc[p] = "stamp_table" THEN "stamp_row" ELSE "running"
          /\ revision'[p] = revision[p] /\ done'[p] = done[p]
      BY <1>10 DEF CreateVersionTable, To, Keep, SchemaTypes, SchemaTypeOK
    <2>2. QED
      BY <1>2, <2>1 DEF Racing, Writing
  <1>11. CASE StampRow(p)
    <2>1. pc[p] = "stamp_row" /\ pc'[p] = "upgrading" /\ applied' = applied
      BY <1>11 DEF StampRow, To, SchemaTypes, SchemaTypeOK
    <2>2. QED
      BY <1>2, <2>1 DEF Racing, Writing
  <1>12. CASE Execute(p)
    <2>1. /\ pc[p] = "running" /\ pc'[p] = "running" /\ revision[p] < Newest
          /\ done'[p] = done[p] + 1 /\ done[p] + 1 <= EndOf[revision[p] + 1]
          /\ revision'[p] = revision[p]
      BY <1>12 DEF Execute, Following, To, SchemaTypes, SchemaTypeOK
    <2>2. applied' = done[p] + 1 \/ (applied >= done[p] + 1 /\ applied' = applied)
      BY <1>12 DEF Execute, Following
    <2>3. End(revision[p]) <= done[p] /\ Covered /\ applied <= Last
      BY <2>1 DEF Racing, Writing
    <2>4. End(revision[p]) \in Nat
      BY <1>1, EndFacts
    <2>5. End(revision[p]) <= done[p] + 1 /\ done[p] + 1 <= applied' /\ applied' <= Last
      BY <1>1, <1>2, <2>2, <2>3, <2>4
    <2>6. QED
      BY <1>2, <2>1, <2>3, <2>5 DEF Racing, Writing
  <1>13. CASE SetVersion(p)
    <2>1. /\ pc[p] = "running" /\ pc'[p] = "running" /\ revision[p] < Newest
          /\ done'[p] = done[p] /\ done[p] = EndOf[revision[p] + 1]
          /\ revision'[p] = revision[p] + 1 /\ applied' = applied
      BY <1>13 DEF SetVersion, RevisionDone, To, SchemaTypes, SchemaTypeOK
    <2>2. Covered /\ applied <= Last /\ done[p] <= applied
      BY <2>1 DEF Racing, Writing
    <2>3. revision[p] + 1 \in Revisions /\ revision[p] + 1 \in 0 .. Newest /\ revision[p] + 1 # 0
      BY <1>1, <2>1, FollowingRevision, EndOfFacts
    <2>4. End(revision[p] + 1) = done[p] /\ End(revision[p] + 1) <= done[p]
      BY <1>1, <2>1, <2>3 DEF End
    <2>5. revision[p] + 1 < Newest => done[p] <= EndOf[(revision[p] + 1) + 1]
      <3>1. CASE revision[p] + 1 < Newest
        <4>1. (revision[p] + 1) + 1 \in Revisions /\ EndOf[revision[p] + 1] < EndOf[(revision[p] + 1) + 1]
          BY <2>3, <3>1, FollowingRevision
        <4>2. EndOf[(revision[p] + 1) + 1] \in Nat
          BY <4>1, EndOfFacts
        <4>3. QED
          BY <1>1, <2>1, <4>1, <4>2
      <3>2. QED
        BY <3>1
    <2>6. QED
      BY <1>2, <2>1, <2>2, <2>4, <2>5 DEF Racing, Writing
  <1>14. CASE Ready(p)
    <2>1. /\ pc[p] = "running" /\ pc'[p] = "ready" /\ revision[p] = Newest /\ UNCHANGED schema
          /\ known' = known /\ (~disturbed' => ~disturbed)
      BY <1>14 DEF Ready, To, SchemaTypes, SchemaTypeOK
    <2>2. Covered /\ applied <= Last /\ done[p] <= applied /\ End(Newest) <= done[p]
      BY <2>1 DEF Racing, Writing
    <2>3. End(Newest) = Last
      BY NewestFacts DEF End
    <2>4. applied = Last
      BY <1>1, <2>2, <2>3
    <2>5. known
      BY <2>1 DEF ForeignInv, Writing
    <2>6. ~disturbed => AtHead
      BY <2>1, <2>5, NewestFacts DEF ExactInv, Starting, Writing, Alone, AtHead
    <2>7. ~disturbed' => AtHead'
      BY <2>1, <2>6 DEF AtHead, schema
    <2>8. known' /\ applied' = Last
      BY <2>1, <2>4, <2>5 DEF schema
    <2>9. QED
      BY <1>2, <2>1, <2>2, <2>7, <2>8 DEF Racing, Writing
  <1>15. QED
    BY <1>4, <1>5, <1>6, <1>7, <1>8, <1>9, <1>10, <1>11, <1>12, <1>13, <1>14 DEF StartStep

-----------------------------------------------------------------------------
(* What the steps of the deployment leave alone.                            *)

RecoveryOf == <<data, Bundle, job, began, saved, restored, transportVars>>

\* A content is not the mark for none.
LEMMA ContentIsSomething ==
  ASSUME NEW f \in Contents
  PROVE  f # << >>
  <1>1. DOMAIN f = Domains /\ "mysql" \in Domains
    BY DEF Contents, Domains
  <1>2. DOMAIN << >> = {}
    OBVIOUS
  <1>3. QED
    BY <1>1, <1>2

\* Steps of the services and the script over the schema.
LEMMA StartsFrame ==
  ASSUME FastapiBegins \/ FastapiStep \/ BootstrapStep
  PROVE  /\ \E p \in Processes : StartStep(p)
         /\ UNCHANGED RecoveryOf
         /\ ~meddled' => ~meddled
  <1>1. fastapi \in Processes /\ bootstrap \in Processes
    BY DeploymentAssumption
  <1>2. CASE FastapiBegins
    <2>1. StartStep(fastapi) /\ UNCHANGED RecoveryOf
      BY <1>2 DEF FastapiBegins, StartStep, RecoveryOf
    <2>2. ~meddled' => ~meddled
      BY <1>2 DEF FastapiBegins, ByHand
    <2>3. QED
      BY <1>1, <2>1, <2>2
  <1>3. CASE FastapiStep
    BY <1>1, <1>3 DEF FastapiStep, RecoveryOf, recoveryVars, Bundle
  <1>4. CASE BootstrapStep
    <2>1. StartStep(bootstrap) /\ UNCHANGED RecoveryOf
      BY <1>4 DEF BootstrapStep, RecoveryOf
    <2>2. ~meddled' => ~meddled
      BY <1>4 DEF BootstrapStep
    <2>3. QED
      BY <1>1, <2>1, <2>2
  <1>5. QED
    BY <1>2, <1>3, <1>4

\* Tables that are there stay.
LEMMA StartKeepsTables ==
  ASSUME SchemaTypes, NEW p \in Processes, StartStep(p)
  PROVE  /\ applied # 0 => applied' # 0
         /\ versioned => versioned'
         /\ known' = known
  <1>1. known' = known
    BY DEF StartStep, Begin, ListTables, ReadVersions, Compare, CompareLegacy, ReadHeads,
       CreateVersionTable, StampRow, Execute, SetVersion, Ready, Die, Stop, Refuse, Exit, To
  <1>2. versioned => versioned'
    BY DEF StartStep, Begin, ListTables, ReadVersions, Compare, CompareLegacy, ReadHeads,
       CreateVersionTable, StampRow, Execute, SetVersion, Ready, Die, Stop, Refuse, Exit, schema
  <1>3. CASE Execute(p)
    <2>1. done[p] + 1 # 0
      BY DEF SchemaTypes, SchemaTypeOK
    <2>2. QED
      BY <1>1, <1>2, <1>3, <2>1 DEF Execute, Following
  <1>4. CASE ~Execute(p)
    <2>1. applied' = applied
      BY <1>4 DEF StartStep, Begin, ListTables, ReadVersions, Compare, CompareLegacy, ReadHeads,
         CreateVersionTable, StampRow, SetVersion, Ready, Die, Stop, Refuse, Exit, schema
    <2>2. QED
      BY <1>1, <1>2, <2>1
  <1>5. QED
    BY <1>3, <1>4

SchemaSide == SchemaTypes /\ ForeignInv /\ ExactInv /\ RacingInv

\* A step of a start, whoever else starts.
LEMMA StartKeepsSchemaSide ==
  ASSUME SchemaSide, NEW p \in Processes, StartStep(p), ~meddled' => ~meddled
  PROVE  SchemaSide'
  <1>1. SchemaTypes' /\ ForeignInv' /\ ExactInv'
    BY StartKeepsTypes, StartLeavesForeign, StartKeepsExact DEF SchemaSide
  <1>2. ASSUME ~meddled', NEW q \in Processes PROVE Racing(q)'
    <2>1. Racing(p) /\ Racing(q)
      BY <1>2 DEF SchemaSide, RacingInv
    <2>2. q = p => Racing(q)'
      BY <2>1, StartKeepsRacing DEF SchemaSide
    <2>3. q # p => Racing(q)'
      BY <2>1, OthersKeepRacing DEF SchemaSide
    <2>4. QED
      BY <2>2, <2>3
  <1>3. QED
    BY <1>1, <1>2 DEF SchemaSide, RacingInv

\* Nobody who is down relies on the schema.
LEMMA DownIsSafe ==
  ASSUME NEW p \in Processes, pc[p] = "down"
  PROVE  Racing(p)
  BY DEF Racing, Writing

\* Steps of others, which may end a time in which somebody meddled.
LEMMA SchemaSideStill ==
  ASSUME SchemaSide, UNCHANGED schemaVars,
         ~meddled' => ~meddled \/ \A p \in Processes : pc[p] = "down"
  PROVE  SchemaSide'
  <1>1. UNCHANGED <<applied, versioned, versions, pc, revision, done, known, disturbed>>
    BY DEF schemaVars, schema
  <1>2. SchemaTypes'
    BY <1>1 DEF SchemaSide, SchemaTypes, SchemaTypeOK
  <1>3. ForeignInv'
    BY <1>1 DEF SchemaSide, ForeignInv, Identifiable
  <1>4. ExactInv'
    <2>1. (\A p \in Processes : Alone(p) => Alone(p)') /\ (Identifiable => Identifiable')
      BY <1>1, AloneKept, SchemaKept
    <2>2. QED
      BY <1>1, <2>1 DEF SchemaSide, ExactInv, Starting, StartUnderWay
  <1>5. ASSUME ~meddled', NEW p \in Processes PROVE Racing(p)'
    <2>1. Racing(p)
      BY <1>5, DownIsSafe DEF SchemaSide, RacingInv
    <2>2. QED
      BY <1>1, <2>1 DEF Racing, Covered, AtHead
  <1>6. QED
    BY <1>2, <1>3, <1>4, <1>5 DEF SchemaSide, RacingInv

\* With the containers stopped and no script there is nobody on the schema.
LEMMA NobodyUp ==
  ASSUME Types, service = [s \in Services |-> "stopped"], pc[bootstrap] = "down"
  PROVE  \A p \in Processes : pc[p] = "down"
  <1>1. service["fastapi"] # "up"
    BY DEF Services
  <1>2. pc[fastapi] = "down"
    BY <1>1 DEF Types
  <1>3. QED
    BY <1>2, DeploymentAssumption

\* What _require_writers_stopped has seen.
LEMMA AllStopped ==
  ASSUME Types, WritersStopped
  PROVE  service = [s \in Services |-> "stopped"]
  BY DEF Types, WritersStopped

\* A schema that is set up anew, with or without a start under way.
LEMMA SchemaSideReset ==
  ASSUME SchemaSide, UNCHANGED <<pc, revision, done>>,
         applied' \in 0 .. Other, versioned' \in BOOLEAN, versions' \subseteq 1 .. Unknown,
         versions' # {} => versioned', versioned => versioned',
         known' \in BOOLEAN, known' <=> Identifiable' \/ StartUnderWay,
         disturbed' \in BOOLEAN, ~disturbed' => ~StartUnderWay,
         ~meddled' => \A p \in Processes : pc[p] = "down"
  PROVE  SchemaSide'
  <1>1. SchemaTypes'
    BY DEF SchemaSide, SchemaTypes, SchemaTypeOK
  <1>2. ASSUME ~StartUnderWay, NEW p \in Processes
        PROVE  pc'[p] \notin Writing /\ pc'[p] # "comparing" /\ pc'[p] # "legacy" /\ ~Starting(p)'
    BY <1>2 DEF StartUnderWay, Starting, Identifying
  <1>3. ForeignInv'
    BY <1>2 DEF ForeignInv
  <1>4. ExactInv'
    BY <1>2 DEF ExactInv
  <1>5. ASSUME ~meddled', NEW p \in Processes PROVE Racing(p)'
    <2>1. pc'[p] = "down"
      BY <1>5
    <2>2. QED
      BY <2>1 DEF Racing, Writing
  <1>6. QED
    BY <1>1, <1>3, <1>4, <1>5 DEF SchemaSide, RacingInv

\* A restored schema is the head.
LEMMA HeadIsIdentifiable ==
  ASSUME versioned', versions' = {Newest}, applied' = Last
  PROVE  Identifiable'
  BY NewestFacts DEF Identifiable

\* Every step of the deployment keeps the schema side of the invariant.
LEMMA SchemaSideInductive ==
  ASSUME Types, SchemaSide, QuietInv, DeploymentNext
  PROVE  SchemaSide'
  <1>1. CASE FastapiBegins \/ FastapiStep \/ BootstrapStep
    BY <1>1, StartsFrame, StartKeepsSchemaSide
  <1>2. CASE (\E s \in Services : OtherStarts(s) \/ OtherStops(s)) \/ ServiceWrites \/ BootstrapWrites \/ Transport
    <2>1. UNCHANGED schemaVars
      BY <1>2 DEF OtherStarts, OtherStops, ServiceWrites, BootstrapWrites, Transport
    <2>2. ~meddled' => ~meddled
      BY <1>2 DEF OtherStarts, OtherStops, ByHand, ServiceWrites, BootstrapWrites, WriteData, Notes, recoveryVars,
         Transport, TransportStep, PublishBegins, Upload, RetrieveBegins, ListSnapshot, CheckManifest,
         Fetch, ValidateStage, Promote, PublishEnds, TransferStops
    <2>3. QED
      BY <2>1, <2>2, SchemaSideStill
  <1>3. CASE RecoveryStep
    <2>1. UNCHANGED schemaVars
      BY <1>3 DEF RecoveryStep
    <2>2. CASE BackupBegins(WritersStopped, Scripts)
      <3>1. ~meddled' => pc[bootstrap] = "down"
        BY <2>2 DEF BackupBegins, Scripts
      <3>2. service = [s \in Services |-> "stopped"]
        BY <2>2, AllStopped DEF BackupBegins
      <3>3. QED
        BY <2>1, <3>1, <3>2, NobodyUp, SchemaSideStill
    <2>3. CASE RestoreBegins(Scripts \/ StillThere)
      <3>1. ~meddled' => ~meddled \/ \A p \in Processes : pc[p] = "down"
        BY <2>3 DEF RestoreBegins, StillThere
      <3>2. QED
        BY <2>1, <3>1, SchemaSideStill
    <2>4. CASE ~BackupBegins(WritersStopped, Scripts) /\ ~RestoreBegins(Scripts \/ StillThere)
      <3>1. ~meddled' => ~meddled
        BY <1>3, <2>4 DEF RecoveryStep, CheckRuntime, MakeBundle, CheckRevision, CopyDomain, Copy, WriteManifest,
           ValidateBackup, CheckWriters, CheckEmpty, ExtractVolume, Extract, JobStops, AlterBundle, Noted, Notes
      <3>2. QED
        BY <2>1, <3>1, SchemaSideStill
    <2>5. QED
      BY <2>2, <2>3, <2>4
  <1>4. ASSUME RestoreDatabase \/ RestorePart, ~meddled'
        PROVE  \A p \in Processes : pc[p] = "down"
    <2>1. ~meddled /\ job = "load"
      BY <1>4 DEF RestoreDatabase, RestorePart, LoadDatabase, LoadPart, Noted
    <2>2. QED
      BY <2>1, NobodyUp DEF QuietInv
  <1>5. CASE RestoreDatabase
    <2>1. /\ UNCHANGED <<pc, revision, done>> /\ applied' = Last /\ versioned' = TRUE /\ versions' = {Newest}
          /\ known' = TRUE /\ disturbed' = (disturbed \/ StartUnderWay)
      BY <1>5 DEF RestoreDatabase
    <2>2. Identifiable'
      BY <2>1, HeadIsIdentifiable
    <2>3. applied' \in 0 .. Other /\ versions' \subseteq 1 .. Unknown
      BY <2>1, NewestFacts DEF Other, Unknown
    <2>4. disturbed' \in BOOLEAN /\ (~disturbed' => ~StartUnderWay)
      BY <2>1
    <2>5. QED
      BY <1>4, <1>5, <2>1, <2>2, <2>3, <2>4, SchemaSideReset
  <1>6. CASE RestorePart
    <2>1. /\ UNCHANGED <<pc, revision, done>> /\ applied' \in {applied, Last, Other}
          /\ versioned' = TRUE /\ versions' \in {{}, {Newest}}
          /\ known' = (Identifiable' \/ StartUnderWay) /\ disturbed' = (disturbed \/ StartUnderWay)
      BY <1>6 DEF RestorePart
    <2>2. applied' \in 0 .. Other /\ versions' \subseteq 1 .. Unknown
      BY <2>1, NewestFacts DEF Other, Unknown, SchemaSide, SchemaTypes, SchemaTypeOK
    <2>3. /\ disturbed' \in BOOLEAN /\ (~disturbed' => ~StartUnderWay)
          /\ known' \in BOOLEAN /\ (known' <=> Identifiable' \/ StartUnderWay)
      BY <2>1
    <2>4. QED
      BY <1>4, <1>6, <2>1, <2>2, <2>3, SchemaSideReset
  <1>7. CASE NewTarget
    <2>1. /\ UNCHANGED <<pc, revision, done>> /\ applied' = 0 /\ versioned' = FALSE /\ versions' = {}
          /\ known' = TRUE /\ disturbed' = FALSE
      BY <1>7 DEF NewTarget
    <2>2. \A p \in Processes : pc[p] = "down"
      BY <1>7, NobodyUp DEF NewTarget
    <2>3. Identifiable' /\ applied' \in 0 .. Other
      BY <2>1, NewestFacts DEF Identifiable, Other
    <2>4. \A p \in Processes : pc'[p] = "down"
      BY <2>1, <2>2
    <2>5. SchemaTypes'
      BY <2>1, <2>3, <2>4 DEF SchemaSide, SchemaTypes, SchemaTypeOK
    <2>6. ForeignInv' /\ ExactInv' /\ RacingInv'
      BY <2>1, <2>3, <2>4 DEF ForeignInv, ExactInv, Starting, Identifying, Writing, RacingInv, Racing
    <2>7. QED
      BY <2>5, <2>6 DEF SchemaSide
  <1>8. QED
    BY <1>1, <1>2, <1>3, <1>5, <1>6, <1>7 DEF DeploymentNext

ServiceTypes ==
    /\ service \in [Services -> States]
    /\ service["fastapi"] = "up" <=> pc[fastapi] # "down"

TransferTypes ==
    /\ repository \subseteq Snapshots
    /\ anchor = << >> \/ anchor \in Anchors
    /\ transfer = << >> \/ transfer \in Transfers

\* Who starts and stops, as the containers show it.
LEMMA ServicesInductive ==
  ASSUME Types, DeploymentNext
  PROVE  ServiceTypes'
  <1>1. /\ service \in [Services -> States] /\ "fastapi" \in Services
        /\ (service["fastapi"] = "up" <=> pc[fastapi] # "down")
        /\ pc \in [Processes -> {"down", "ready"} \cup Identifying \cup Writing]
        /\ fastapi \in Processes /\ bootstrap \in Processes /\ fastapi # bootstrap
    BY DeploymentAssumption DEF Types, SchemaTypes, SchemaTypeOK, Services
  <1>2. ASSUME pc'[fastapi] = pc[fastapi], UNCHANGED service PROVE ServiceTypes'
    BY <1>1, <1>2 DEF ServiceTypes
  <1>3. CASE FastapiBegins
    BY <1>1, <1>3 DEF FastapiBegins, Begin, To, Enter, ServiceTypes, States
  <1>4. CASE FastapiStep
    <2>1. CASE pc'[fastapi] # "down" /\ UNCHANGED service
      BY <1>1, <1>4, <2>1 DEF FastapiStep, ServiceTypes
    <2>2. CASE pc'[fastapi] = "down" /\ \E state \in {"killed", "crashed"} : Enter("fastapi", state)
      BY <1>1, <2>2 DEF Enter, ServiceTypes, States
    <2>3. CASE Stop(fastapi) /\ Enter("fastapi", "stopped")
      BY <1>1, <2>3 DEF Stop, Exit, Enter, ServiceTypes, States
    <2>4. QED
      BY <1>4, <2>1, <2>2, <2>3 DEF FastapiStep
  <1>5. CASE BootstrapStep
    <2>1. UNCHANGED service
      BY <1>5 DEF BootstrapStep
    <2>2. pc'[fastapi] = pc[fastapi]
      BY <1>1, <1>5 DEF BootstrapStep, StartStep, Begin, ListTables, ReadVersions, Compare, CompareLegacy, ReadHeads,
         CreateVersionTable, StampRow, Execute, SetVersion, Ready, Die, Stop, Refuse, Exit, To
    <2>3. QED
      BY <1>2, <2>1, <2>2
  <1>6. CASE \E s \in Services : OtherStarts(s) \/ OtherStops(s)
    <2>1. PICK s \in Services : s # "fastapi" /\ (\E state \in States : Enter(s, state)) /\ UNCHANGED schemaVars
      BY <1>6 DEF OtherStarts, OtherStops, States
    <2>2. QED
      BY <1>1, <2>1 DEF Enter, schemaVars, ServiceTypes
  <1>7. CASE ServiceWrites \/ BootstrapWrites \/ RecoveryStep \/ RestoreDatabase \/ RestorePart \/ NewTarget
             \/ Transport
    <2>1. UNCHANGED <<pc, service>>
      BY <1>7 DEF ServiceWrites, BootstrapWrites, RecoveryStep, RestoreDatabase, RestorePart, NewTarget, Transport,
         schemaVars
    <2>2. QED
      BY <1>2, <2>1
  <1>8. QED
    BY <1>3, <1>4, <1>5, <1>6, <1>7 DEF DeploymentNext

\* Nothing and something damaged are contents.
LEMMA NothingStored ==
  /\ [d \in Domains |-> 0] \in Contents
  /\ Damaged \in 0 .. MaxWrites + 1 /\ MaxWrites \in Nat
  BY RecoveryAssumption DEF Contents, Damaged

\* Steps of the scripts data_recovery.py keep the types.
LEMMA RecoveryInductive ==
  ASSUME Types, HeldInv, BackupInv, RestoreInv, DeploymentNext
  PROVE  RecoveryTypeOK'
  <1> DEFINE Same == UNCHANGED <<data, copies, manifest, job, began, saved, restored>> /\ meddled' \in BOOLEAN
  <1>1. /\ RecoveryTypeOK /\ data \in Contents /\ Damaged \in 0 .. MaxWrites + 1
        /\ \A d \in Domains : data[d] \in 0 .. MaxWrites + 1
    BY NothingStored DEF Types, RecoveryTypeOK, Contents
  <1>2. ASSUME Same PROVE RecoveryTypeOK'
    BY <1>1, <1>2 DEF RecoveryTypeOK
  <1>3. CASE FastapiBegins \/ FastapiStep \/ BootstrapStep \/ (\E s \in Services : OtherStarts(s) \/ OtherStops(s))
    <2>1. meddled \in BOOLEAN
      BY <1>1 DEF RecoveryTypeOK
    <2>2. Same
      BY <1>3, <2>1 DEF FastapiBegins, FastapiStep, BootstrapStep, OtherStarts, OtherStops, ByHand, Bundle,
         recoveryVars
    <2>3. QED
      BY <1>2, <2>2
  <1>4. CASE ServiceWrites \/ BootstrapWrites
    <2>1. PICK d \in Domains : WriteData(d)
      BY <1>4 DEF ServiceWrites, BootstrapWrites, Domains, Volumes
    <2>2. data' \in Contents
      BY <1>1, <2>1, RecoveryAssumption DEF WriteData, Contents
    <2>3. QED
      BY <1>1, <2>1, <2>2 DEF WriteData, RecoveryTypeOK, Bundle, Notes
  <1>5. CASE RecoveryStep
    <2>1. CASE BackupBegins(WritersStopped, Scripts) \/ RestoreBegins(Scripts \/ StillThere)
      BY <1>1, <2>1 DEF BackupBegins, RestoreBegins, JobTo, RecoveryTypeOK, Bundle, Backing, Restoring,
         Scripts, StillThere
    <2>2. CASE CheckRuntime \/ CheckRevision(AtHead) \/ ValidateBackup \/ CheckWriters(WritersStopped)
               \/ CheckEmpty(NoTables) \/ JobStops
      BY <1>1, <2>2 DEF CheckRuntime, CheckRevision, ValidateBackup, CheckWriters, CheckEmpty, JobStops,
         JobTo, RecoveryTypeOK, Bundle, Noted, Backing, Restoring
    <2>3. CASE MakeBundle
      BY <1>1, <2>3, NothingStored DEF MakeBundle, JobTo, RecoveryTypeOK, Noted, Backing
    <2>4. CASE CopyDomain
      <3>1. PICK d \in Domains, n \in 0 .. MaxWrites + 1, next \in {"none", "tar_langgraph", "tar_managed", "manifest"} :
               copies' = [copies EXCEPT ![d] = n] /\ JobTo(next)
               /\ UNCHANGED <<data, manifest, Noted, restored>>
        BY <1>1, <2>4 DEF CopyDomain, Copy, Domains, Volumes
      <3>2. copies \in Contents
        BY <1>1, <2>4 DEF CopyDomain, Copy, RecoveryTypeOK
      <3>3. copies' \in Contents
        BY <3>1, <3>2 DEF Contents
      <3>4. QED
        BY <1>1, <3>1, <3>3 DEF JobTo, RecoveryTypeOK, Noted, Backing
    <2>5. CASE WriteManifest
      <3>1. copies \in Contents
        BY <1>1, <2>5 DEF WriteManifest, RecoveryTypeOK
      <3>2. QED
        BY <1>1, <2>5, <3>1 DEF WriteManifest, JobTo, RecoveryTypeOK, Backing
    <2>6. CASE ExtractVolume
      <3>1. copies # << >>
        BY <2>6 DEF ExtractVolume, Extract
      <3>2. copies \in Contents
        BY <1>1, <3>1 DEF RecoveryTypeOK
      <3>3. PICK d \in Domains, n \in 0 .. MaxWrites + 1, next \in {"none", "extract_managed"} :
               /\ data' = [data EXCEPT ![d] = n] /\ JobTo(next)
               /\ restored' \in {saved, << >>} /\ UNCHANGED <<Bundle, Noted>>
        BY <1>1, <2>6, <3>2 DEF ExtractVolume, Extract, Domains, Volumes, Contents
      <3>4. data' \in Contents
        BY <1>1, <3>3 DEF Contents
      <3>5. QED
        BY <1>1, <3>3, <3>4 DEF JobTo, RecoveryTypeOK, Noted, Bundle, Restoring
    <2>7. CASE AlterBundle
      <3>1. PICK c \in Contents : copies = c
        BY <1>1, <2>7 DEF AlterBundle, RecoveryTypeOK
      <3>2. \A d \in Domains : [copies EXCEPT ![d] = Damaged] \in Contents
        BY <1>1, <3>1 DEF Contents
      <3>3. manifest # << >> => [manifest EXCEPT !.release = "theirs"] \in
                                   [files : Contents, release : {"ours", "theirs"}]
        BY <1>1 DEF RecoveryTypeOK
      <3>4. /\ copies' = << >> \/ copies' \in Contents
            /\ manifest' = << >> \/ manifest' \in [files : Contents, release : {"ours", "theirs"}]
        BY <1>1, <2>7, <3>2, <3>3 DEF AlterBundle, RecoveryTypeOK
      <3>5. meddled' \in BOOLEAN /\ UNCHANGED <<data, job, began, saved, restored>>
        BY <1>1, <2>7 DEF AlterBundle, RecoveryTypeOK
      <3>6. QED
        BY <1>1, <3>4, <3>5 DEF RecoveryTypeOK
    <2>8. QED
      BY <1>5, <2>1, <2>2, <2>3, <2>4, <2>5, <2>6, <2>7 DEF RecoveryStep
  <1>6. CASE RestoreDatabase \/ RestorePart
    <2>1. copies # << >>
      BY <1>6 DEF RestoreDatabase, RestorePart, LoadDatabase, LoadPart
    <2>2. copies["mysql"] \in 0 .. MaxWrites + 1
      BY <1>1, <2>1 DEF RecoveryTypeOK, Contents, Domains
    <2>3. data' \in Contents
      BY <1>1, <1>6, <2>2 DEF RestoreDatabase, RestorePart, LoadDatabase, LoadPart, Contents, Domains
    <2>4. QED
      BY <1>1, <1>6, <2>3 DEF RestoreDatabase, RestorePart, LoadDatabase, LoadPart, JobTo, RecoveryTypeOK, Noted,
         Bundle, Restoring
  <1>7. CASE NewTarget
    BY <1>1, <1>7, NothingStored DEF NewTarget, RecoveryTypeOK, Notes, Bundle
  <1>8. CASE Transport
    <2>1. CASE Promote
      <3>1. transfer # << >> /\ transfer \in Transfers /\ transfer.step = "promote" /\ transfer.purpose = "retrieve"
        BY <2>1 DEF Promote, Doing, Types
      <3>2. transfer.stage \in Contents /\ transfer.snapshot.manifest \in Manifests
        BY <3>1 DEF Transfers, HeldInv, Snapshots
      <3>3. anchor.held \in Contents \cup {<< >>}
        BY <3>1 DEF HeldInv, Types, Anchors
      <3>4. QED
        BY <1>1, <2>1, <3>2, <3>3 DEF Promote, Place, RecoveryTypeOK, Manifests
    <2>2. CASE ~Promote
      <3>1. Same
        BY <1>1, <1>8, <2>2 DEF Transport, TransportStep, PublishBegins, Upload, RetrieveBegins, ListSnapshot,
           CheckManifest, Fetch, ValidateStage, PublishEnds, TransferStops, recoveryVars, RecoveryTypeOK
      <3>2. QED
        BY <1>2, <3>1
    <2>3. QED
      BY <2>1, <2>2
  <1>9. QED
    BY <1>3, <1>4, <1>5, <1>6, <1>7, <1>8 DEF DeploymentNext

\* Steps of verify_backup_transport.py keep the types.
LEMMA TransfersInductive ==
  ASSUME Types, HeldInv, DeploymentNext
  PROVE  TransferTypes'
  <1>1. TransferTypes
    BY DEF Types, TransferTypes
  <1>2. CASE UNCHANGED transportVars
    BY <1>1, <1>2 DEF transportVars, TransferTypes
  <1>3. CASE PublishBegins
    <2>1. /\ manifest \in Manifests /\ saved \in Contents \cup {<< >>}
      BY <1>3 DEF PublishBegins, Valid, Types, RecoveryTypeOK, Manifests
    <2>2. [manifest |-> manifest, held |-> saved] \in Anchors
      BY <2>1 DEF Anchors
    <2>3. transfer' \in Transfers
      BY <1>3, <2>2 DEF PublishBegins, Transfers, Steps
    <2>4. QED
      BY <1>1, <1>3, <2>3 DEF PublishBegins, TransferTypes
  <1>4. CASE Upload
    <2>1. transfer \in Transfers /\ copies \in Contents /\ manifest \in Manifests
      BY <1>4 DEF Upload, Doing, Types, HeldInv, RecoveryTypeOK, Manifests
    <2>2. [copies |-> copies, manifest |-> manifest] \in Snapshots
      BY <2>1 DEF Snapshots
    <2>3. transfer' \in Transfers
      BY <1>4, <2>1, <2>2 DEF Upload, Transfers, Steps
    <2>4. repository' \subseteq Snapshots
      BY <1>1, <1>4, <2>2 DEF Upload, TransferTypes
    <2>5. QED
      BY <1>1, <1>4, <2>3, <2>4 DEF Upload, TransferTypes
  <1>5. CASE RetrieveBegins
    <2>1. PICK snapshot \in repository :
           transfer' = [purpose |-> "retrieve", step |-> "list", expected |-> anchor,
                        snapshot |-> snapshot, stage |-> << >>]
      BY <1>5 DEF RetrieveBegins
    <2>2. anchor \in Anchors /\ snapshot \in Snapshots
      BY <1>1, <1>5 DEF RetrieveBegins, TransferTypes
    <2>3. transfer' \in Transfers
      BY <2>1, <2>2 DEF Transfers, Steps
    <2>4. QED
      BY <1>1, <1>5, <2>3 DEF RetrieveBegins, TransferTypes
  <1>6. CASE ListSnapshot \/ CheckManifest \/ ValidateStage
    <2>1. transfer \in Transfers
      BY <1>1, <1>6 DEF ListSnapshot, CheckManifest, ValidateStage, Doing, TransferTypes
    <2>2. transfer' = << >> \/ \E step \in Steps : transfer' = [transfer EXCEPT !.step = step]
      BY <1>6 DEF ListSnapshot, CheckManifest, ValidateStage, ContinueAt, Steps
    <2>3. transfer' = << >> \/ transfer' \in Transfers
      BY <2>1, <2>2 DEF Transfers
    <2>4. QED
      BY <1>1, <1>6, <2>3 DEF ListSnapshot, CheckManifest, ValidateStage, TransferTypes
  <1>7. CASE Fetch
    <2>1. transfer \in Transfers /\ transfer.snapshot \in Snapshots
      BY <1>1, <1>7 DEF Fetch, Doing, TransferTypes, HeldInv, Transfers
    <2>2. PICK arrived : /\ arrived \in {transfer.snapshot.copies}
                                        \cup {[transfer.snapshot.copies EXCEPT ![d] = Damaged] : d \in Domains}
                         /\ transfer' = [transfer EXCEPT !.stage = arrived, !.step = "validate"]
      BY <1>7 DEF Fetch
    <2>3. arrived \in Contents
      BY <2>1, <2>2, NothingStored DEF Snapshots, Contents
    <2>4. transfer' \in Transfers
      BY <2>1, <2>2, <2>3 DEF Transfers, Steps
    <2>5. QED
      BY <1>1, <1>7, <2>4 DEF Fetch, TransferTypes
  <1>8. CASE Promote \/ PublishEnds \/ TransferStops
    <2>1. PublishEnds => transfer.expected \in Anchors
      BY <1>1 DEF PublishEnds, Doing, TransferTypes, Transfers
    <2>2. QED
      BY <1>1, <1>8, <2>1 DEF Promote, PublishEnds, TransferStops, TransferTypes
  <1>9. UNCHANGED transportVars \/ TransportStep
    BY DEF DeploymentNext, FastapiBegins, FastapiStep, BootstrapStep, OtherStarts, OtherStops, ServiceWrites,
       BootstrapWrites, RecoveryStep, RestoreDatabase, RestorePart, NewTarget, Transport
  <1>10. QED
    BY <1>2, <1>3, <1>4, <1>5, <1>6, <1>7, <1>8, <1>9 DEF TransportStep

\* Nobody starts beside a script that nobody meddled with.
LEMMA QuietInductive ==
  ASSUME Types, QuietInv, DeploymentNext
  PROVE  QuietInv'
  <1> SUFFICES ASSUME ~meddled', job' # "none"
               PROVE  /\ pc'[bootstrap] = "down"
                      /\ job' # "writers" => service' = [s \in Services |-> "stopped"]
    BY DEF QuietInv
  <1>1. /\ fastapi \in Processes /\ bootstrap \in Processes /\ fastapi # bootstrap
        /\ pc \in [Processes -> {"down", "ready"} \cup Identifying \cup Writing]
    BY DeploymentAssumption DEF Types, SchemaTypes, SchemaTypeOK
  <1>2. ASSUME UNCHANGED <<pc, service>>, ~meddled, job # "none", job' = "writers" \/ job # "writers" 
        PROVE  /\ pc'[bootstrap] = "down"
               /\ job' # "writers" => service' = [s \in Services |-> "stopped"]
    BY <1>2 DEF QuietInv
  <1>3. CASE FastapiBegins \/ FastapiStep
    <2>1. /\ ~meddled /\ job # "none" /\ job' = job /\ pc[bootstrap] = "down"
          /\ job # "writers" => service = [s \in Services |-> "stopped"]
      <3>1. (~meddled' => ~meddled) /\ job' = job
        BY <1>3, StartsFrame DEF RecoveryOf
      <3>2. QED
        BY <3>1 DEF QuietInv
    <2>2. pc'[bootstrap] = pc[bootstrap]
      BY <1>1, <1>3 DEF FastapiBegins, FastapiStep, StartStep, Begin, ListTables, ReadVersions, Compare,
         CompareLegacy, ReadHeads, CreateVersionTable, StampRow, Execute, SetVersion, Ready, Die, Stop, Refuse,
         Exit, To
    <2>3. job = "writers"
      <3>1. CASE FastapiBegins
        BY <1>3, <2>1, <3>1 DEF FastapiBegins, ByHand, Services
      <3>2. CASE FastapiStep
        BY <2>1, <3>2 DEF FastapiStep, Types, Services
      <3>3. QED
        BY <1>3, <3>1, <3>2
    <2>4. QED
      BY <2>1, <2>2, <2>3
  <1>4. CASE BootstrapStep
    <2>1. ~meddled /\ job = "none" /\ job' = job
      BY <1>4 DEF BootstrapStep
    <2>2. QED
      BY <2>1
  <1>5. CASE \E s \in Services : OtherStarts(s) \/ OtherStops(s)
    <2>1. PICK s \in Services : OtherStarts(s) \/ OtherStops(s)
      BY <1>5
    <2>2. /\ ~meddled /\ job # "none" /\ job' = job /\ pc[bootstrap] = "down" /\ pc' = pc
          /\ job # "writers" => service = [t \in Services |-> "stopped"]
      <3>1. job' = job /\ pc' = pc
        BY <2>1 DEF OtherStarts, OtherStops, recoveryVars, schemaVars
      <3>2. ~meddled
        <4>1. CASE OtherStarts(s)
          BY <4>1 DEF OtherStarts, ByHand
        <4>2. CASE OtherStops(s)
          BY <4>2 DEF OtherStops, recoveryVars
        <4>3. QED
          BY <2>1, <4>1, <4>2
      <3>3. QED
        BY <3>1, <3>2 DEF QuietInv
    <2>3. job = "writers"
      BY <2>1, <2>2 DEF OtherStarts, OtherStops, ByHand
    <2>4. QED
      BY <2>2, <2>3
  <1>6. CASE ServiceWrites \/ BootstrapWrites \/ Transport
    <2>1. UNCHANGED <<pc, service, job, meddled>>
      BY <1>6 DEF ServiceWrites, BootstrapWrites, WriteData, Notes, schemaVars, Transport, TransportStep,
         PublishBegins, Upload, RetrieveBegins, ListSnapshot, CheckManifest, Fetch, ValidateStage, Promote,
         PublishEnds, TransferStops, recoveryVars
    <2>2. QED
      BY <2>1 DEF QuietInv
  <1>7. CASE RecoveryStep
    <2>1. UNCHANGED <<pc, service>>
      BY <1>7 DEF RecoveryStep, schemaVars
    <2>2. CASE BackupBegins(WritersStopped, Scripts)
      BY <2>1, <2>2, AllStopped DEF BackupBegins, Scripts
    <2>3. CASE RestoreBegins(Scripts \/ StillThere)
      BY <2>1, <2>3 DEF RestoreBegins, JobTo, Scripts
    <2>4. CASE CheckWriters(WritersStopped)
      <3>1. ~meddled /\ job = "writers" /\ (job' # "none" => WritersStopped)
        BY <2>4 DEF CheckWriters, JobTo, Noted
      <3>2. QED
        BY <2>1, <3>1, AllStopped DEF QuietInv
    <2>5. CASE CheckRuntime \/ MakeBundle \/ CheckRevision(AtHead) \/ CopyDomain \/ WriteManifest \/ ValidateBackup
               \/ CheckEmpty(NoTables) \/ ExtractVolume \/ JobStops
      <3>1. ~meddled /\ job # "none" /\ job # "writers"
        BY <2>5 DEF CheckRuntime, MakeBundle, CheckRevision, CopyDomain, Copy, WriteManifest, ValidateBackup,
           CheckEmpty, ExtractVolume, Extract, JobStops, JobTo, Noted
      <3>2. QED
        BY <1>2, <2>1, <3>1
    <2>6. CASE AlterBundle
      BY <2>6 DEF AlterBundle
    <2>7. QED
      BY <1>7, <2>2, <2>3, <2>4, <2>5, <2>6 DEF RecoveryStep
  <1>8. CASE RestoreDatabase \/ RestorePart
    <2>1. UNCHANGED <<pc, service>> /\ ~meddled /\ job = "load"
      BY <1>8 DEF RestoreDatabase, RestorePart, LoadDatabase, LoadPart, Noted
    <2>2. QED
      BY <1>2, <2>1
  <1>9. CASE NewTarget
    BY <1>9 DEF NewTarget
  <1>10. QED
    BY <1>3, <1>4, <1>5, <1>6, <1>7, <1>8, <1>9 DEF DeploymentNext

\* Services that write are up, so no script works that nobody meddled with.
LEMMA WritersAreUp ==
  ASSUME Types, QuietInv, ServiceWrites \/ BootstrapWrites
  PROVE  /\ \E d \in Domains : WriteData(d)
         /\ meddled \/ job \in {"none", "writers"}
         /\ pc[fastapi] = "ready" \/ service["langgraph"] = "up" \/ pc[bootstrap] = "ready"
  <1>1. \E d \in Domains : WriteData(d)
    BY DEF ServiceWrites, BootstrapWrites, Domains, Volumes
  <1>2. pc[fastapi] = "ready" \/ service["langgraph"] = "up" \/ pc[bootstrap] = "ready"
    BY DEF ServiceWrites, BootstrapWrites
  <1>3. pc[fastapi] = "ready" => service["fastapi"] = "up"
    BY DEF Types
  <1>4. meddled \/ job \in {"none", "writers"}
    <2>1. ~meddled /\ job \notin {"none", "writers"} =>
             pc[bootstrap] = "down" /\ service = [s \in Services |-> "stopped"]
      BY DEF QuietInv
    <2>2. service = [s \in Services |-> "stopped"] => service["fastapi"] # "up" /\ service["langgraph"] # "up"
      BY DEF Services
    <2>3. QED
      BY <1>2, <1>3, <2>1, <2>2
  <1>5. QED
    BY <1>1, <1>2, <1>4

\* Steps that keep the bundle and the scripts as they are.
LEMMA ServicesFrame ==
  ASSUME (\E s \in Services : OtherStarts(s) \/ OtherStops(s))
  PROVE  UNCHANGED RecoveryOf /\ UNCHANGED schemaVars /\ (~meddled' => ~meddled)
  <1>1. PICK s \in Services : OtherStarts(s) \/ OtherStops(s)
    OBVIOUS
  <1>2. UNCHANGED RecoveryOf /\ UNCHANGED schemaVars
    BY <1>1 DEF OtherStarts, OtherStops, RecoveryOf, recoveryVars, Bundle
  <1>3. CASE OtherStarts(s)
    BY <1>2, <1>3 DEF OtherStarts, ByHand
  <1>4. CASE OtherStops(s)
    BY <1>2, <1>4 DEF OtherStops, recoveryVars
  <1>5. QED
    BY <1>1, <1>3, <1>4

\* What a transfer does to a bundle: it puts one where there is none.
LEMMA TransportFrame ==
  ASSUME Transport
  PROVE  /\ UNCHANGED <<data, job, began, meddled, restored, schemaVars, service>>
         /\ copies # << >> => UNCHANGED <<copies, manifest, saved>>
         /\ ~Promote => UNCHANGED <<copies, manifest, saved>>
  BY DEF Transport, TransportStep, PublishBegins, Upload, RetrieveBegins, ListSnapshot, CheckManifest, Fetch,
     ValidateStage, Promote, PublishEnds, TransferStops, recoveryVars

\* A backup that nobody meddles with keeps copying one moment.
LEMMA BackupInductive ==
  ASSUME Types, QuietInv, BackupInv, DeploymentNext
  PROVE  BackupInv'
  <1>1. CASE FastapiBegins \/ FastapiStep \/ BootstrapStep \/ (\E s \in Services : OtherStarts(s) \/ OtherStops(s))
    <2>1. UNCHANGED <<data, copies, job, began>> /\ (~meddled' => ~meddled)
      BY <1>1, StartsFrame, ServicesFrame DEF RecoveryOf, Bundle
    <2>2. QED
      BY <2>1 DEF BackupInv
  <1>2. CASE ServiceWrites \/ BootstrapWrites
    <2>1. /\ UNCHANGED <<copies, job, began, meddled>> /\ (meddled \/ job \in {"none", "writers"})
      BY <1>2, WritersAreUp DEF WriteData, Bundle, Notes
    <2>2. meddled \/ job \notin Backing
      BY <2>1 DEF Backing
    <2>3. QED
      BY <2>1, <2>2 DEF BackupInv, Backing
  <1>3. CASE RecoveryStep
    <2>1. CASE BackupBegins(WritersStopped, Scripts)
      <3>1. data \in Contents /\ data # << >>
        BY ContentIsSomething DEF Types, RecoveryTypeOK
      <3>2. QED
        BY <2>1, <3>1 DEF BackupBegins, BackupInv
    <2>2. CASE CheckRuntime
      BY <2>2 DEF CheckRuntime, JobTo, Bundle, Noted, BackupInv, Backing
    <2>3. CASE MakeBundle
      <3>1. [d \in Domains |-> 0] # << >>
        BY NothingStored, ContentIsSomething
      <3>2. QED
        BY <2>3, <3>1 DEF MakeBundle, JobTo, Noted, BackupInv, Backing
    <2>4. CASE CheckRevision(AtHead)
      BY <2>4 DEF CheckRevision, JobTo, Bundle, Noted, BackupInv, Backing
    <2>5. CASE CopyDomain
      <3>1. /\ UNCHANGED <<data, meddled>> /\ job \in Backing \ {"runtime", "destination"}
        BY <2>5 DEF CopyDomain, Copy, Noted, Backing
      <3>2. copies \in Contents
        BY <2>5 DEF CopyDomain, Copy, Types, RecoveryTypeOK
      <3>3. ASSUME NEW d \in Domains, NEW n PROVE [copies EXCEPT ![d] = n] # << >>
        <4>1. DOMAIN [copies EXCEPT ![d] = n] = Domains /\ DOMAIN << >> = {} /\ Domains # {}
          BY <3>2 DEF Contents, Domains
        <4>2. QED
          BY <4>1
      <3>4. /\ DOMAIN copies = Domains /\ "mysql" \in Domains /\ "langgraph" \in Domains /\ "managed" \in Domains
        BY <3>2 DEF Contents, Domains, Volumes
      <3>5. CASE Copy("dump", "mysql", "tar_langgraph")
        BY <3>1, <3>3, <3>4, <3>5 DEF Copy, JobTo, BackupInv, Backing
      <3>6. CASE Copy("tar_langgraph", "langgraph", "tar_managed")
        BY <3>1, <3>3, <3>4, <3>6 DEF Copy, JobTo, BackupInv, Backing
      <3>7. CASE Copy("tar_managed", "managed", "manifest")
        BY <3>1, <3>3, <3>4, <3>7 DEF Copy, JobTo, BackupInv, Backing
      <3>8. QED
        BY <2>5, <3>5, <3>6, <3>7 DEF CopyDomain
    <2>6. CASE WriteManifest
      BY <2>6 DEF WriteManifest, JobTo, BackupInv, Backing
    <2>7. CASE ValidateBackup \/ JobStops \/ AlterBundle
      <3>1. job' = "none" \/ (meddled' /\ UNCHANGED <<job, began>>)
        BY <2>7 DEF ValidateBackup, JobStops, AlterBundle, JobTo
      <3>2. QED
        BY <3>1 DEF BackupInv, Backing
    <2>8. CASE RestoreBegins(Scripts \/ StillThere) \/ CheckWriters(WritersStopped) \/ CheckEmpty(NoTables)
               \/ ExtractVolume
      <3>1. job' \in {"none"} \cup Restoring
        BY <2>8 DEF RestoreBegins, CheckWriters, CheckEmpty, ExtractVolume, Extract, JobTo, Restoring
      <3>2. QED
        BY <3>1 DEF BackupInv, Backing, Restoring
    <2>9. QED
      BY <1>3, <2>1, <2>2, <2>3, <2>4, <2>5, <2>6, <2>7, <2>8 DEF RecoveryStep
  <1>4. CASE RestoreDatabase \/ RestorePart \/ NewTarget
    <2>1. job' \in {"none", "extract_langgraph"}
      BY <1>4 DEF RestoreDatabase, RestorePart, LoadDatabase, LoadPart, NewTarget, JobTo
    <2>2. QED
      BY <2>1 DEF BackupInv, Backing
  <1>5. CASE Transport
    <2>1. UNCHANGED <<data, job, began, meddled>> /\ (copies # << >> => UNCHANGED copies)
      BY <1>5, TransportFrame
    <2>2. QED
      BY <2>1 DEF BackupInv, Backing
  <1>6. QED
    BY <1>1, <1>2, <1>3, <1>4, <1>5 DEF DeploymentNext

\* Neither is a snapshot.
LEMMA SnapshotIsSomething ==
  ASSUME NEW s \in Snapshots
  PROVE  s # << >>
  <1>1. DOMAIN s = {"copies", "manifest"}
    BY DEF Snapshots
  <1>2. DOMAIN << >> = {} /\ "copies" \in {"copies", "manifest"}
    OBVIOUS
  <1>3. QED
    BY <1>1, <1>2

\* Whose manifest the bundle has, and what the anchor remembers of it.
BundleHeld ==
    /\ copies = << >> => manifest = << >>
    /\ Honest(manifest, saved)
AnchorHeld == anchor # << >> => Honest(anchor.manifest, anchor.held)
TransferHeld ==
    transfer # << >> =>
        /\ Honest(transfer.expected.manifest, transfer.expected.held)
        /\ transfer.purpose = "retrieve" => transfer.expected = anchor /\ anchor # << >>
        /\ transfer.step \notin {"upload"} => transfer.snapshot # << >>
        /\ transfer.step \in {"fetch", "validate", "promote"} =>
              transfer.snapshot.manifest = transfer.expected.manifest
        /\ transfer.step \in {"validate", "promote"} => transfer.stage # << >>
        /\ transfer.step = "promote" => transfer.stage = transfer.snapshot.manifest.files

\* A manifest that is ours lists what the domains held, wherever the bundle came from.
LEMMA BundleHeldInductive ==
  ASSUME Types, BackupInv, HeldInv, DeploymentNext
  PROVE  BundleHeld'
  <1>1. BundleHeld
    BY DEF HeldInv, BundleHeld
  <1>2. ASSUME UNCHANGED <<copies, manifest, saved>> PROVE BundleHeld'
    BY <1>1, <1>2 DEF BundleHeld, Honest
  <1>3. CASE FastapiBegins \/ FastapiStep \/ BootstrapStep \/ (\E s \in Services : OtherStarts(s) \/ OtherStops(s))
    BY <1>2, <1>3, StartsFrame, ServicesFrame DEF RecoveryOf, Bundle
  <1>4. CASE ServiceWrites \/ BootstrapWrites \/ RestoreDatabase \/ RestorePart \/ NewTarget
    BY <1>2, <1>4 DEF ServiceWrites, BootstrapWrites, WriteData, RestoreDatabase, RestorePart, LoadDatabase, LoadPart,
       NewTarget, Bundle, Notes, Noted
  <1>5. CASE RecoveryStep
    <2>1. CASE BackupBegins(WritersStopped, Scripts) \/ CheckRuntime \/ CheckRevision(AtHead) \/ ValidateBackup
               \/ RestoreBegins(Scripts \/ StillThere) \/ CheckWriters(WritersStopped) \/ CheckEmpty(NoTables)
               \/ ExtractVolume \/ JobStops
      BY <1>2, <2>1 DEF BackupBegins, CheckRuntime, CheckRevision, ValidateBackup, RestoreBegins, CheckWriters,
         CheckEmpty, ExtractVolume, Extract, JobStops, Bundle, Noted
    <2>2. CASE MakeBundle
      <3>1. [d \in Domains |-> 0] # << >>
        BY NothingStored, ContentIsSomething
      <3>2. copies' = << >> => manifest' = << >>
        BY <1>1, <2>2, <3>1 DEF MakeBundle, BundleHeld
      <3>3. QED
        BY <1>1, <2>2, <3>2 DEF MakeBundle, BundleHeld, Noted, Honest
    <2>3. CASE CopyDomain
      <3>1. copies # << >> /\ copies \in Contents
        BY <2>3 DEF CopyDomain, Copy, BackupInv, Backing, Types, RecoveryTypeOK
      <3>2. ASSUME NEW d \in Domains, NEW n PROVE [copies EXCEPT ![d] = n] # << >>
        <4>1. DOMAIN [copies EXCEPT ![d] = n] = Domains /\ DOMAIN << >> = {} /\ Domains # {}
          BY <3>1 DEF Contents, Domains
        <4>2. QED
          BY <4>1
      <3>3. copies' # << >> /\ UNCHANGED <<manifest, saved>>
        BY <2>3, <3>2 DEF CopyDomain, Copy, Noted, Domains, Volumes
      <3>4. QED
        BY <1>1, <3>3 DEF BundleHeld, Honest
    <2>4. CASE WriteManifest
      <3>1. copies # << >> /\ copies \in Contents /\ copies' = copies
        BY <2>4 DEF WriteManifest, Types, RecoveryTypeOK
      <3>2. ~meddled => copies = began
        <4>1. ~meddled => /\ copies["mysql"] = began["mysql"]
                          /\ copies["langgraph"] = began["langgraph"]
                          /\ copies["managed"] = began["managed"]
          BY <2>4 DEF WriteManifest, BackupInv
        <4>2. began \in Contents
          BY <2>4 DEF WriteManifest, BackupInv, Backing, Types, RecoveryTypeOK
        <4>3. QED
          BY <3>1, <4>1, <4>2 DEF Contents, Domains, Volumes
      <3>3. manifest'.files = copies /\ saved' = IF meddled THEN << >> ELSE began
        BY <2>4 DEF WriteManifest
      <3>4. QED
        BY <3>1, <3>2, <3>3 DEF BundleHeld, Honest
    <2>5. CASE AlterBundle
      <3>1. copies \in Contents /\ saved' = saved
        BY <2>5 DEF AlterBundle, Types, RecoveryTypeOK
      <3>2. CASE \E d \in Domains : copies' = [copies EXCEPT ![d] = Damaged] /\ UNCHANGED manifest
        <4>1. copies' \in Contents
          BY <3>1, <3>2, NothingStored DEF Contents
        <4>2. QED
          BY <1>1, <3>1, <3>2, <4>1, ContentIsSomething DEF BundleHeld, Honest
      <3>3. CASE copies' = << >> /\ manifest' = << >>
        BY <3>3 DEF BundleHeld, Honest
      <3>4. CASE /\ manifest # << >> /\ manifest' = [manifest EXCEPT !.release = "theirs"]
                 /\ UNCHANGED copies
        <4>1. manifest'.release = "theirs"
          BY <3>4 DEF Types, RecoveryTypeOK
        <4>2. copies' # << >>
          BY <3>1, <3>4, ContentIsSomething
        <4>3. QED
          BY <4>1, <4>2 DEF BundleHeld, Honest
      <3>5. QED
        BY <2>5, <3>2, <3>3, <3>4 DEF AlterBundle
    <2>6. QED
      BY <1>5, <2>1, <2>2, <2>3, <2>4, <2>5 DEF RecoveryStep
  <1>6. CASE Transport
    <2>1. CASE Promote /\ copies = << >>
      <3>1. transfer # << >> /\ transfer.step = "promote" /\ transfer.purpose = "retrieve"
        BY <2>1 DEF Promote, Doing
      <3>2. /\ copies' = transfer.stage /\ manifest' = anchor.manifest /\ saved' = anchor.held
            /\ transfer.stage # << >> /\ anchor # << >>
        BY <2>1, <3>1 DEF Promote, Place, HeldInv
      <3>3. Honest(anchor.manifest, anchor.held)
        BY <3>2 DEF HeldInv
      <3>4. QED
        BY <3>2, <3>3 DEF BundleHeld, Honest
    <2>2. CASE ~(Promote /\ copies = << >>)
      BY <1>2, <1>6, <2>2, TransportFrame
    <2>3. QED
      BY <2>1, <2>2
  <1>7. QED
    BY <1>3, <1>4, <1>5, <1>6 DEF DeploymentNext

\* And so do the anchor and whatever a transfer carries.
LEMMA TransferHeldInductive ==
  ASSUME Types, HeldInv, DeploymentNext
  PROVE  AnchorHeld' /\ TransferHeld'
  <1>1. AnchorHeld /\ TransferHeld /\ BundleHeld
    BY DEF HeldInv, AnchorHeld, TransferHeld, BundleHeld
  <1>2. ASSUME UNCHANGED anchor PROVE AnchorHeld'
    BY <1>1, <1>2 DEF AnchorHeld, Honest
  <1>3. ASSUME transfer' = << >> PROVE TransferHeld'
    BY <1>3 DEF TransferHeld
  <1>4. CASE UNCHANGED transportVars
    BY <1>1, <1>4 DEF transportVars, AnchorHeld, TransferHeld, Honest
  <1>5. CASE PublishBegins
    <2>1. /\ transfer'.expected.manifest = manifest /\ transfer'.expected.held = saved
          /\ transfer'.purpose = "publish" /\ transfer'.step = "upload"
      BY <1>5 DEF PublishBegins
    <2>2. TransferHeld'
      BY <1>1, <2>1 DEF BundleHeld, TransferHeld, Honest
    <2>3. QED
      BY <1>2, <1>5, <2>2 DEF PublishBegins
  <1>6. CASE Upload
    <2>1. transfer \in Transfers /\ transfer # << >> /\ transfer.step = "upload"
      BY <1>6 DEF Upload, Doing, Types
    <2>2. [copies |-> copies, manifest |-> manifest] \in Snapshots
      BY <1>6 DEF Upload, Types, HeldInv, RecoveryTypeOK, Snapshots, Manifests
    <2>3. /\ transfer'.snapshot = [copies |-> copies, manifest |-> manifest] /\ transfer'.step = "list"
          /\ transfer'.expected = transfer.expected /\ transfer'.purpose = transfer.purpose
      BY <1>6, <2>1 DEF Upload, Transfers
    <2>4. transfer'.snapshot # << >> /\ anchor' = anchor
      BY <1>6, <2>2, <2>3, SnapshotIsSomething DEF Upload
    <2>5. TransferHeld'
      BY <1>1, <2>1, <2>3, <2>4 DEF TransferHeld, Honest
    <2>6. QED
      BY <1>2, <2>4, <2>5
  <1>7. CASE RetrieveBegins
    <2>1. PICK snapshot \in repository :
           transfer' = [purpose |-> "retrieve", step |-> "list", expected |-> anchor,
                        snapshot |-> snapshot, stage |-> << >>]
      BY <1>7 DEF RetrieveBegins
    <2>2. snapshot # << >>
      BY SnapshotIsSomething DEF Types
    <2>3. /\ transfer'.expected = anchor /\ transfer'.snapshot # << >>
          /\ transfer'.purpose = "retrieve" /\ transfer'.step = "list" /\ anchor # << >> /\ anchor' = anchor
      BY <1>7, <2>1, <2>2 DEF RetrieveBegins
    <2>4. TransferHeld'
      BY <1>1, <2>3 DEF AnchorHeld, TransferHeld, Honest
    <2>5. QED
      BY <1>2, <2>3, <2>4
  <1>8. CASE ListSnapshot \/ CheckManifest \/ ValidateStage
    <2>1. transfer \in Transfers /\ transfer # << >> /\ anchor' = anchor
      BY <1>8 DEF ListSnapshot, CheckManifest, ValidateStage, Doing, Types
    <2>2. CASE transfer' = << >>
      BY <1>2, <1>3, <2>1, <2>2
    <2>3. CASE transfer' # << >>
      <3>1. PICK step \in {"manifest", "fetch", "promote"} :
               /\ transfer' = [transfer EXCEPT !.step = step]
               /\ step = "manifest" => transfer.step = "list"
               /\ step = "fetch" => transfer.step = "manifest"
                                    /\ transfer.snapshot.manifest = transfer.expected.manifest
               /\ step = "promote" => transfer.step = "validate"
                                      /\ transfer.stage = transfer.snapshot.manifest.files
        BY <1>8, <2>3 DEF ListSnapshot, CheckManifest, ValidateStage, ContinueAt, Doing
      <3>2. /\ transfer'.step = step /\ transfer'.expected = transfer.expected
            /\ transfer'.purpose = transfer.purpose /\ transfer'.snapshot = transfer.snapshot
            /\ transfer'.stage = transfer.stage
        BY <2>1, <3>1 DEF Transfers
      <3>3. TransferHeld'
        BY <1>1, <2>1, <3>1, <3>2 DEF TransferHeld, Honest
      <3>4. QED
        BY <1>2, <2>1, <3>3
    <2>4. QED
      BY <2>2, <2>3
  <1>9. CASE Fetch
    <2>1. /\ transfer \in Transfers /\ transfer # << >> /\ transfer.step = "fetch" /\ anchor' = anchor
          /\ transfer.snapshot \in Snapshots
      BY <1>1, <1>9 DEF Fetch, Doing, Types, TransferHeld, Transfers
    <2>2. PICK arrived : /\ arrived \in {transfer.snapshot.copies}
                                        \cup {[transfer.snapshot.copies EXCEPT ![d] = Damaged] : d \in Domains}
                         /\ transfer' = [transfer EXCEPT !.stage = arrived, !.step = "validate"]
      BY <1>9 DEF Fetch
    <2>3. arrived \in Contents /\ arrived # << >>
      <3>1. arrived \in Contents
        BY <2>1, <2>2, NothingStored DEF Snapshots, Contents
      <3>2. QED
        BY <3>1, ContentIsSomething
    <2>4. /\ transfer'.step = "validate" /\ transfer'.expected = transfer.expected
          /\ transfer'.purpose = transfer.purpose /\ transfer'.snapshot = transfer.snapshot
          /\ transfer'.stage # << >>
      BY <2>1, <2>2, <2>3 DEF Transfers
    <2>5. TransferHeld'
      BY <1>1, <2>1, <2>4 DEF TransferHeld, Honest
    <2>6. QED
      BY <1>2, <2>1, <2>5
  <1>10. CASE Promote \/ TransferStops
    BY <1>2, <1>3, <1>10 DEF Promote, TransferStops
  <1>11. CASE PublishEnds
    <2>1. transfer' = << >> /\ anchor' = transfer.expected /\ transfer # << >>
      BY <1>11 DEF PublishEnds, Doing
    <2>2. AnchorHeld'
      BY <1>1, <2>1 DEF AnchorHeld, TransferHeld, Honest
    <2>3. QED
      BY <1>3, <2>1, <2>2
  <1>12. UNCHANGED transportVars \/ TransportStep
    BY DEF DeploymentNext, FastapiBegins, FastapiStep, BootstrapStep, OtherStarts, OtherStops, ServiceWrites,
       BootstrapWrites, RecoveryStep, RestoreDatabase, RestorePart, NewTarget, Transport
  <1>13. QED
    BY <1>4, <1>5, <1>6, <1>7, <1>8, <1>9, <1>10, <1>11, <1>12 DEF TransportStep

\* Both together.
LEMMA HeldInductive ==
  ASSUME Types, BackupInv, HeldInv, DeploymentNext
  PROVE  HeldInv'
  BY BundleHeldInductive, TransferHeldInductive DEF HeldInv, BundleHeld, AnchorHeld, TransferHeld

\* A valid bundle stays where it is while a restore reads it, and a restore fills
\* what was empty.
LEMMA RestoreInductive ==
  ASSUME Types, ForeignInv, QuietInv, HeldInv, RestoreInv, DeploymentNext
  PROVE  RestoreInv'
  <1>1. /\ data \in Contents /\ applied \in Nat /\ (Valid => copies \in Contents /\ copies # << >>)
        /\ MaxWrites \in Nat
    <2>1. Valid => copies \in Contents
      BY DEF Valid, Types, RecoveryTypeOK
    <2>2. applied \in Nat
      BY NewestFacts DEF Types, SchemaTypes, SchemaTypeOK, Other
    <2>3. QED
      BY <2>1, <2>2, ContentIsSomething, RecoveryAssumption DEF Types, RecoveryTypeOK
  <1>2. ASSUME UNCHANGED <<copies, manifest>>, Valid PROVE Valid'
    BY <1>2 DEF Valid
  <1>3. ASSUME UNCHANGED <<data, copies, manifest, job, restored>>, ~meddled' => ~meddled, known' = known,
               applied # 0 => applied' # 0, versioned => versioned'
        PROVE  RestoreInv'
    BY <1>2, <1>3 DEF RestoreInv
  <1>4. CASE FastapiBegins \/ FastapiStep \/ BootstrapStep
    <2>1. PICK p \in Processes : StartStep(p)
      BY <1>4, StartsFrame
    <2>2. UNCHANGED <<data, copies, manifest, job, restored>> /\ (~meddled' => ~meddled)
      BY <1>4, StartsFrame DEF RecoveryOf, Bundle
    <2>3. (applied # 0 => applied' # 0) /\ (versioned => versioned') /\ known' = known
      BY <2>1, StartKeepsTables DEF Types
    <2>4. QED
      BY <1>3, <2>2, <2>3
  <1>5. CASE \E s \in Services : OtherStarts(s) \/ OtherStops(s)
    BY <1>3, <1>5, ServicesFrame DEF RecoveryOf, Bundle, schemaVars, schema
  <1>6. CASE ServiceWrites \/ BootstrapWrites
    <2>1. PICK d \in Domains : WriteData(d)
      BY <1>6, WritersAreUp
    <2>2. /\ UNCHANGED <<copies, manifest, job, meddled, applied, versioned, known>> /\ restored' = << >>
          /\ meddled \/ job \in {"none", "writers"}
      BY <1>6, <2>1, WritersAreUp DEF WriteData, ServiceWrites, BootstrapWrites, Bundle, Notes, schemaVars, schema
    <2>3. data'["mysql"] # 0 => applied # 0 \/ versioned
      <3>1. CASE applied = Last
        BY <3>1, NewestFacts
      <3>2. CASE applied # Last
        <4>1. WriteData("langgraph")
          BY <1>6, <3>2 DEF ServiceWrites, BootstrapWrites
        <4>2. data'["mysql"] = data["mysql"]
          BY <1>1, <4>1 DEF WriteData, Contents, Domains, Volumes
        <4>3. QED
          BY <4>2 DEF RestoreInv
      <3>3. QED
        BY <3>1, <3>2
    <2>4. ~meddled /\ job \in Restoring => Valid'
      BY <1>2, <2>2 DEF RestoreInv
    <2>5. QED
      BY <2>2, <2>3, <2>4 DEF RestoreInv
  <1>7. CASE RecoveryStep
    <2>0. UNCHANGED <<applied, versioned, known>>
      BY <1>7 DEF RecoveryStep, schemaVars, schema
    <2>1. ASSUME UNCHANGED <<data, restored>>, job' \notin Restoring PROVE RestoreInv'
      BY <2>0, <2>1 DEF RestoreInv, Restoring
    <2>2. CASE BackupBegins(WritersStopped, Scripts) \/ CheckRuntime \/ MakeBundle \/ CheckRevision(AtHead) \/ CopyDomain
               \/ WriteManifest \/ ValidateBackup \/ JobStops
      BY <2>1, <2>2 DEF BackupBegins, CheckRuntime, MakeBundle, CheckRevision, CopyDomain, Copy, WriteManifest,
         ValidateBackup, JobStops, JobTo, Restoring
    <2>3. CASE RestoreBegins(Scripts \/ StillThere)
      BY <1>2, <2>0, <2>3 DEF RestoreBegins, JobTo, Bundle, RestoreInv, Restoring
    <2>4. CASE CheckWriters(WritersStopped)
      BY <1>2, <2>0, <2>4 DEF CheckWriters, JobTo, Bundle, Noted, RestoreInv, Restoring
    <2>5. CASE CheckEmpty(NoTables)
      <3>1. CASE job' = "none"
        BY <2>1, <2>5, <3>1 DEF CheckEmpty, Restoring
      <3>2. CASE job' # "none"
        <4>1. /\ job = "empty" /\ job' = "load" /\ applied = 0 /\ ~versioned
              /\ data["langgraph"] = 0 /\ data["managed"] = 0
              /\ UNCHANGED <<data, copies, manifest, meddled, restored>>
          BY <2>5, <3>2 DEF CheckEmpty, JobTo, NoTables, Volumes, Bundle, Noted
        <4>2. data["mysql"] = 0 /\ restored = << >> /\ (~meddled => Valid)
          BY <4>1 DEF RestoreInv, Restoring
        <4>3. known
          BY <4>1 DEF ForeignInv, Identifiable
        <4>4. ~meddled => Valid'
          BY <1>2, <4>1, <4>2
        <4>5. QED
          BY <2>0, <4>1, <4>2, <4>3, <4>4 DEF RestoreInv
      <3>3. QED
        BY <3>1, <3>2
    <2>6. CASE ExtractVolume
      <3>1. /\ UNCHANGED <<copies, manifest, saved, meddled>> /\ (~meddled => Valid) /\ versioned
            /\ copies \in Contents /\ job \in {"extract_langgraph", "extract_managed"}
        BY <1>1, <2>6 DEF ExtractVolume, Extract, Bundle, Noted, RestoreInv, Restoring, Types, RecoveryTypeOK
      <3>2. ~meddled => Valid'
        BY <1>2, <3>1
      <3>3. CASE job = "extract_langgraph"
        <4>1. /\ restored' = << >>
              /\ \/ data' = [data EXCEPT !["langgraph"] = copies["langgraph"]] /\ job' = "extract_managed"
                 \/ job' = "none"
          BY <2>6, <3>3 DEF ExtractVolume, Extract, JobTo
        <4>2. CASE job' = "none"
          BY <2>0, <3>1, <4>1, <4>2 DEF RestoreInv, Restoring
        <4>3. CASE job' # "none"
          <5>1. /\ data' = [data EXCEPT !["langgraph"] = copies["langgraph"]] /\ job' = "extract_managed"
            BY <4>1, <4>3
          <5>2. /\ data'["langgraph"] = copies["langgraph"] /\ data'["mysql"] = data["mysql"]
                /\ data'["managed"] = data["managed"]
            BY <1>1, <5>1 DEF Contents, Domains, Volumes
          <5>3. ~meddled => data["mysql"] = copies["mysql"] /\ data["managed"] = 0
            BY <3>3 DEF RestoreInv
          <5>4. QED
            BY <2>0, <3>1, <3>2, <4>1, <5>1, <5>2, <5>3 DEF RestoreInv
        <4>4. QED
          BY <4>2, <4>3
      <3>4. CASE job = "extract_managed"
        <4>1. job' = "none"
              /\ \/ /\ data' = [data EXCEPT !["managed"] = copies["managed"]]
                    /\ restored' = IF ~meddled THEN saved ELSE << >>
                 \/ restored' = << >>
          BY <2>6, <3>4 DEF ExtractVolume, Extract, JobTo
        <4>2. restored' # << >> => data' = restored'
          <5>1. SUFFICES ASSUME restored' # << >> PROVE data' = restored'
            OBVIOUS
          <5>2. /\ data' = [data EXCEPT !["managed"] = copies["managed"]] /\ ~meddled
                /\ restored' = saved /\ saved # << >>
            BY <4>1, <5>1
          <5>3. copies = saved
            BY <3>1, <5>2 DEF Valid, HeldInv, Honest
          <5>4. data["mysql"] = copies["mysql"] /\ data["langgraph"] = copies["langgraph"]
            BY <3>4, <5>2 DEF RestoreInv
          <5>5. \A d \in Domains : data'[d] = copies[d]
            BY <1>1, <5>2, <5>4 DEF Contents, Domains, Volumes
          <5>6. data' = copies
            BY <1>1, <3>1, <5>2, <5>5 DEF Contents
          <5>7. QED
            BY <5>2, <5>3, <5>6
        <4>3. QED
          BY <2>0, <3>1, <4>1, <4>2 DEF RestoreInv, Restoring
      <3>5. QED
        BY <3>1, <3>3, <3>4
    <2>7. CASE AlterBundle
      <3>1. (~meddled' => job \notin Restoring) /\ UNCHANGED <<data, job, restored>>
        BY <2>7 DEF AlterBundle, Restoring
      <3>2. QED
        BY <2>0, <3>1 DEF RestoreInv, Restoring
    <2>8. QED
      BY <1>7, <2>2, <2>3, <2>4, <2>5, <2>6, <2>7 DEF RecoveryStep
  <1>8. CASE RestoreDatabase
    <2>1. /\ job = "load" /\ data' = [data EXCEPT !["mysql"] = copies["mysql"]] /\ job' = "extract_langgraph"
          /\ UNCHANGED <<copies, manifest, saved, meddled, restored>> /\ versioned' = TRUE
      BY <1>8 DEF RestoreDatabase, LoadDatabase, JobTo, Bundle, Noted
    <2>2. restored = << >> /\ (~meddled => Valid /\ data["langgraph"] = 0 /\ data["managed"] = 0)
      BY <2>1 DEF RestoreInv, Restoring
    <2>3. /\ data'["mysql"] = copies["mysql"] /\ data'["langgraph"] = data["langgraph"]
          /\ data'["managed"] = data["managed"]
      BY <1>1, <2>1 DEF Contents, Domains, Volumes
    <2>4. ~meddled => Valid'
      BY <1>2, <2>1, <2>2
    <2>5. QED
      BY <2>1, <2>2, <2>3, <2>4 DEF RestoreInv
  <1>9. CASE RestorePart
    <2>1. job = "load" /\ job' = "none" /\ restored' = restored /\ versioned' = TRUE
      BY <1>9 DEF RestorePart, LoadPart, JobTo
    <2>2. restored' = << >>
      BY <2>1 DEF RestoreInv
    <2>3. QED
      BY <2>1, <2>2 DEF RestoreInv, Restoring
  <1>10. CASE NewTarget
    <2>1. job' = "none" /\ data'["mysql"] = 0 /\ restored' = << >>
      BY <1>10 DEF NewTarget, Domains
    <2>2. QED
      BY <2>1 DEF RestoreInv, Restoring
  <1>11. CASE Transport
    <2>1. /\ UNCHANGED <<data, job, meddled, restored, applied, versioned, known>>
          /\ copies # << >> => UNCHANGED <<copies, manifest>>
      BY <1>11, TransportFrame DEF schemaVars, schema
    <2>2. CASE job \in Restoring
      <3>1. ~meddled => UNCHANGED <<copies, manifest>>
        BY <1>1, <2>1, <2>2 DEF RestoreInv
      <3>2. ~meddled => Valid'
        BY <1>2, <2>2, <3>1 DEF RestoreInv
      <3>3. QED
        BY <2>1, <2>2, <3>1, <3>2 DEF RestoreInv
    <2>3. CASE job \notin Restoring
      BY <2>1, <2>3 DEF RestoreInv, Restoring
    <2>4. QED
      BY <2>2, <2>3
  <1>12. QED
    BY <1>4, <1>5, <1>6, <1>7, <1>8, <1>9, <1>10, <1>11 DEF DeploymentNext

-----------------------------------------------------------------------------
(* The theorems.                                                            *)

\* The invariant holds before anything has started.
LEMMA Initially ==
  ASSUME DeploymentInit
  PROVE  DeploymentInv
  <1>1. /\ SchemaInit /\ RecoveryInit /\ TransportInit /\ service = [s \in Services |-> "stopped"]
    BY DEF DeploymentInit
  <1>2. \A p \in Processes : pc[p] = "down" /\ ~Starting(p)
    BY <1>1 DEF SchemaInit, Starting, Identifying, Writing
  <1>3. SchemaTypes
    <2>1. /\ 0 \in 0 .. Newest /\ 0 \in 0 .. Last
          /\ \A k \in 1 .. Unknown : {k} \subseteq 1 .. Unknown
      BY NewestFacts
    <2>2. Identifiable \in BOOLEAN
      BY DEF Identifiable
    <2>3. QED
      BY <1>1, <1>2, <2>1, <2>2 DEF SchemaInit, SchemaTypes, SchemaTypeOK
  <1>4. RecoveryTypeOK
    BY <1>1, NothingStored DEF RecoveryInit, RecoveryTypeOK
  <1>5. /\ repository \subseteq Snapshots
        /\ anchor = << >> /\ transfer = << >>
    <2>1. Earlier \in Snapshots
      BY NothingStored DEF Earlier, Snapshots, Manifests
    <2>2. QED
      BY <1>1, <2>1 DEF TransportInit
  <1>6. service \in [Services -> States] /\ (service["fastapi"] = "up" <=> pc[fastapi] # "down")
    BY <1>1, <1>2, DeploymentAssumption DEF Services, States
  <1>7. Types
    BY <1>3, <1>4, <1>5, <1>6 DEF Types
  <1>8. ForeignInv /\ ExactInv /\ RacingInv
    BY <1>1, <1>2 DEF SchemaInit, ForeignInv, ExactInv, RacingInv, Racing, Writing
  <1>9. QuietInv /\ BackupInv
    BY <1>1 DEF RecoveryInit, QuietInv, BackupInv, Backing
  <1>10. HeldInv
    BY <1>1, <1>5 DEF RecoveryInit, HeldInv, Honest
  <1>11. RestoreInv
    BY <1>1 DEF RecoveryInit, RestoreInv, Restoring, Domains
  <1>12. QED
    BY <1>7, <1>8, <1>9, <1>10, <1>11 DEF DeploymentInv

\* Every step keeps the invariant.
LEMMA Inductive ==
  ASSUME DeploymentInv, [DeploymentNext]_deploymentVars
  PROVE  DeploymentInv'
  <1>1. CASE DeploymentNext
    <2>1. SchemaSide
      BY DEF DeploymentInv, SchemaSide, Types
    <2>2. SchemaSide'
      BY <1>1, <2>1, SchemaSideInductive DEF DeploymentInv
    <2>3. ServiceTypes' /\ RecoveryTypeOK' /\ TransferTypes'
      BY <1>1, ServicesInductive, RecoveryInductive, TransfersInductive DEF DeploymentInv
    <2>4. Types'
      BY <2>2, <2>3 DEF Types, SchemaSide, ServiceTypes, TransferTypes
    <2>5. QuietInv' /\ BackupInv' /\ HeldInv' /\ RestoreInv'
      BY <1>1, QuietInductive, BackupInductive, HeldInductive, RestoreInductive DEF DeploymentInv
    <2>6. QED
      BY <2>2, <2>4, <2>5 DEF DeploymentInv, SchemaSide
  <1>2. CASE UNCHANGED deploymentVars
    <2>1. UNCHANGED <<schemaVars, recoveryVars, transportVars, service>>
      BY <1>2 DEF deploymentVars
    <2>2. SchemaSide'
      <3>1. SchemaSide
        BY DEF DeploymentInv, SchemaSide, Types
      <3>2. meddled' = meddled
        BY <2>1 DEF recoveryVars
      <3>3. QED
        BY <2>1, <3>1, <3>2, SchemaSideStill
    <2>3. UNCHANGED <<applied, versioned, known, pc, data, copies, manifest, job, began, saved, meddled, restored,
                      repository, anchor, transfer, service>>
      BY <2>1 DEF schemaVars, schema, recoveryVars, transportVars
    <2>4. Types'
      BY <2>2, <2>3 DEF DeploymentInv, Types, SchemaSide, RecoveryTypeOK
    <2>5. QuietInv' /\ BackupInv'
      BY <2>3 DEF DeploymentInv, QuietInv, BackupInv
    <2>6. HeldInv'
      BY <2>3 DEF DeploymentInv, HeldInv, Honest
    <2>7. RestoreInv'
      BY <2>3 DEF DeploymentInv, RestoreInv, Valid
    <2>8. QED
      BY <2>2, <2>4, <2>5, <2>6, <2>7 DEF DeploymentInv, SchemaSide
  <1>3. QED
    BY <1>1, <1>2

\* The invariant holds in every reachable state, however many starts, backups,
\* restores and retrievals there are.
THEOREM InvariantHolds == DeploymentSpec => []DeploymentInv
  <1>1. DeploymentInit => DeploymentInv
    BY Initially
  <1>2. DeploymentInv /\ [DeploymentNext]_deploymentVars => DeploymentInv'
    BY Inductive
  <1>3. QED
    BY <1>1, <1>2, PTL DEF DeploymentSpec

\* _prepare_database: a database that could be identified can be again, unless a
\* start was cut short while it wrote or two overlapped.
THEOREM AlwaysIdentifiable == DeploymentSpec => []StaysIdentifiable
  <1>1. DeploymentInv => StaysIdentifiable
    BY DEF DeploymentInv, ExactInv, StartUnderWay, StaysIdentifiable
  <1>2. QED
    BY <1>1, InvariantHolds, PTL

\* _prepare_database and _check_migration: who is up works on the tables of the head,
\* if nobody meddled with a script; and its version is the one readiness asks for, if
\* moreover no starts overlapped and none was cut short.
THEOREM ReadyMeansHead == DeploymentSpec => []UpMeansHead
  <1>1. DeploymentInv => UpMeansHead
    BY DEF DeploymentInv, RacingInv, Racing, UpMeansHead
  <1>2. QED
    BY <1>1, InvariantHolds, PTL

\* data_recovery.py: a restore that completes leaves what the services held when
\* the backup began, if nobody started a service by hand or altered the bundle while
\* either ran.
THEOREM RestoresAreFaithful == DeploymentSpec => []RestoredIsTheBackup
  <1>1. DeploymentInv => RestoredIsTheBackup
    BY DEF DeploymentInv, RestoreInv, RestoredIsTheBackup
  <1>2. QED
    BY <1>1, InvariantHolds, PTL

\* Steps on a database that nothing recognises.
LEMMA ForeignStep ==
  ASSUME DeploymentInv, [DeploymentNext]_deploymentVars, ~known
  PROVE  UNCHANGED schema \/ NewTarget
  <1>1. CASE FastapiBegins \/ FastapiStep \/ BootstrapStep
    BY <1>1, StartsFrame, StartLeavesForeign DEF DeploymentInv, Types
  <1>2. CASE (\E s \in Services : OtherStarts(s) \/ OtherStops(s)) \/ ServiceWrites \/ BootstrapWrites
             \/ RecoveryStep \/ Transport \/ UNCHANGED deploymentVars
    <2>1. UNCHANGED schemaVars
      BY <1>2, ServicesFrame DEF ServiceWrites, BootstrapWrites, RecoveryStep, Transport, deploymentVars
    <2>2. QED
      BY <2>1 DEF schemaVars
  <1>3. CASE RestoreDatabase \/ RestorePart
    BY <1>3 DEF RestoreDatabase, RestorePart, LoadDatabase, LoadPart, DeploymentInv, RestoreInv
  <1>4. QED
    BY <1>1, <1>2, <1>3 DEF DeploymentNext

\* _prepare_database and restore: what no start recognises is left as it is.
THEOREM ForeignKept == DeploymentSpec => ForeignUntouched
  <1>1. DeploymentInv /\ [DeploymentNext]_deploymentVars =>
           [~known => UNCHANGED schema \/ NewTarget]_deploymentVars
    BY ForeignStep
  <1>2. QED
    BY <1>1, InvariantHolds, PTL DEF DeploymentSpec, ForeignUntouched

\* A restore writes only where there was nothing.
LEMMA RestoreStep ==
  ASSUME DeploymentInv, DeploymentNext, job \in Restoring \ {"writers"}, ~meddled',
         NEW d \in Domains, data[d] # 0
  PROVE  data'[d] = data[d]
  <1>1. data \in Contents /\ d \in {"mysql", "langgraph", "managed"}
    BY DEF DeploymentInv, Types, RecoveryTypeOK, Domains, Volumes
  <1>2. CASE FastapiBegins \/ FastapiStep \/ BootstrapStep \/ (\E s \in Services : OtherStarts(s) \/ OtherStops(s))
    BY <1>2, StartsFrame, ServicesFrame DEF RecoveryOf
  <1>3. CASE ServiceWrites \/ BootstrapWrites
    <2>1. meddled \/ job \in {"none", "writers"}
      BY <1>3, WritersAreUp DEF DeploymentInv
    <2>2. meddled' = meddled
      BY <1>3 DEF ServiceWrites, BootstrapWrites, WriteData, Notes
    <2>3. QED
      BY <2>1, <2>2 DEF Restoring
  <1>4. CASE RecoveryStep
    <2>1. CASE ExtractVolume
      <3>1. ~meddled
        BY <2>1 DEF ExtractVolume, Extract, Noted
      <3>2. CASE job = "extract_langgraph"
        <4>1. \E n : data' = [data EXCEPT !["langgraph"] = n]
          BY <2>1, <3>2 DEF ExtractVolume, Extract
        <4>2. data["langgraph"] = 0
          BY <3>1, <3>2 DEF DeploymentInv, RestoreInv
        <4>3. QED
          BY <1>1, <4>1, <4>2 DEF Contents
      <3>3. CASE job = "extract_managed"
        <4>1. \E n : data' = [data EXCEPT !["managed"] = n]
          BY <2>1, <3>3 DEF ExtractVolume, Extract
        <4>2. data["managed"] = 0
          BY <3>1, <3>3 DEF DeploymentInv, RestoreInv
        <4>3. QED
          BY <1>1, <4>1, <4>2 DEF Contents
      <3>4. QED
        BY <2>1, <3>2, <3>3 DEF ExtractVolume, Extract
    <2>2. CASE ~ExtractVolume
      BY <1>4, <2>2 DEF RecoveryStep, BackupBegins, CheckRuntime, MakeBundle, CheckRevision, CopyDomain, Copy,
         WriteManifest, ValidateBackup, RestoreBegins, CheckWriters, CheckEmpty, JobStops, AlterBundle
    <2>3. QED
      BY <2>1, <2>2
  <1>5. CASE RestoreDatabase \/ RestorePart
    <2>1. job = "load" /\ ~meddled /\ \E n : data' = [data EXCEPT !["mysql"] = n]
      BY <1>5 DEF RestoreDatabase, RestorePart, LoadDatabase, LoadPart, Noted
    <2>2. data["mysql"] = 0
      BY <2>1 DEF DeploymentInv, RestoreInv
    <2>3. QED
      BY <1>1, <2>1, <2>2 DEF Contents
  <1>6. CASE NewTarget
    BY <1>6 DEF NewTarget, Restoring
  <1>7. CASE Transport
    BY <1>7, TransportFrame
  <1>8. QED
    BY <1>2, <1>3, <1>4, <1>5, <1>6, <1>7 DEF DeploymentNext

\* data_recovery.py and verify_backup_transport.py: from its look at the containers on
\* a restore writes only into what is empty, if nobody meddles with it, and a retrieval
\* only where there is no bundle.
THEOREM NothingIsOverwritten == DeploymentSpec => NothingOverwritten
  <1>1. DeploymentInv /\ [DeploymentNext]_deploymentVars =>
           [/\ (job \in Restoring \ {"writers"} /\ ~meddled') =>
                  \A d \in Domains : data[d] # 0 => data'[d] = data[d]
            /\ (Transport /\ copies # << >>) => UNCHANGED Bundle]_deploymentVars
    <2>1. ASSUME DeploymentInv, DeploymentNext, job \in Restoring \ {"writers"}, ~meddled'
          PROVE  \A d \in Domains : data[d] # 0 => data'[d] = data[d]
      BY <2>1, RestoreStep
    <2>2. Transport /\ copies # << >> => UNCHANGED Bundle
      BY TransportFrame DEF Bundle
    <2>3. QED
      BY <2>1, <2>2
  <1>2. QED
    BY <1>1, InvariantHolds, PTL DEF DeploymentSpec, NothingOverwritten
=============================================================================
