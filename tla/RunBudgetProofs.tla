--------------------------- MODULE RunBudgetProofs ---------------------------
(***************************************************************************)
(* Proofs about RunBudget: its type invariant, the inductive LedgerInv and *)
(* what follows from it for any number of runs, branches and any limits.   *)
(***************************************************************************)
EXTENDS RunBudget, FiniteSetTheorems, TLAPS

-----------------------------------------------------------------------------
(* Type correctness.                                                        *)

LEMMA BudgetInitType == BudgetInit => BudgetTypeOK
  BY BudgetAssumption
  DEF BudgetInit, BudgetTypeOK, Ledger, NewLedger, Place, Blemishes

LEMMA MovesType ==
  ASSUME BudgetTypeOK, NEW r \in Runs, NEW b \in Branches,
         NEW place \in Place, Moves(r, b, place)
  PROVE  branch' \in [Runs -> [Branches -> Place]]
  BY DEF BudgetTypeOK, Moves

LEMMA NoTries == 0 \in 0..MaxTries
  BY BudgetAssumption

LEMMA TriesType ==
  ASSUME BudgetTypeOK, NEW r \in Runs, NEW b \in Branches,
         NEW n \in 0..MaxTries, tries' = [tries EXCEPT ![r][b] = n]
  PROVE  tries' \in [Runs -> [Branches -> 0..MaxTries]]
  BY DEF BudgetTypeOK

LEMMA MarksType ==
  ASSUME BudgetTypeOK, NEW r \in Runs, NEW what \in Blemishes, Marks(r, what)
  PROVE  blemish' \in [Runs -> SUBSET Blemishes]
  BY DEF BudgetTypeOK, Marks

LEMMA LedgerType ==
  ASSUME BudgetTypeOK, NEW r \in Runs, NEW l \in Ledger,
         ledger' = [ledger EXCEPT ![r] = l]
  PROVE  ledger' \in [Runs -> Ledger]
  BY DEF BudgetTypeOK

LEMMA FieldType ==
  ASSUME NEW l \in Ledger, NEW n \in Nat, NEW v \in BOOLEAN, NEW w \in BOOLEAN,
         NEW f \in {"none", "model", "tool"}
  PROVE  /\ [l EXCEPT !.model = n] \in Ledger
         /\ [l EXCEPT !.tool = n] \in Ledger
         /\ [l EXCEPT !.failure = f] \in Ledger
         /\ [l EXCEPT !.safe = v] \in Ledger
         /\ [l EXCEPT !.completed = v] \in Ledger
         /\ [l EXCEPT !.observed = v, !.safe = w] \in Ledger
  <1>1. [l EXCEPT !.model = n] \in Ledger
    BY DEF Ledger
  <1>2. [l EXCEPT !.tool = n] \in Ledger
    BY DEF Ledger
  <1>3. [l EXCEPT !.failure = f] \in Ledger
    BY DEF Ledger
  <1>4. [l EXCEPT !.safe = v] \in Ledger
    BY DEF Ledger
  <1>5. [l EXCEPT !.completed = v] \in Ledger
    BY DEF Ledger
  <1>6. [l EXCEPT !.observed = v, !.safe = w] \in Ledger
    BY DEF Ledger
  <1>7. QED
    BY <1>1, <1>2, <1>3, <1>4, <1>5, <1>6

LEMMA GrantedType ==
  ASSUME BudgetTypeOK, NEW r \in Runs, NEW kind \in {"model", "tool"},
         NEW limit \in Nat, ReserveGranted(r, kind, limit)
  PROVE  ledger' \in [Runs -> Ledger]
  <1>1. ledger[r] \in Ledger
    BY DEF BudgetTypeOK
  <1>2. CASE kind = "model"
    <2>1. ledger[r].model + 1 \in Nat
      BY <1>1 DEF Ledger
    <2>2. ledger' = [ledger EXCEPT ![r] = [ledger[r] EXCEPT !.model = ledger[r].model + 1]]
      BY <1>2 DEF ReserveGranted
    <2>3. QED
      BY <1>1, <2>1, <2>2, FieldType, LedgerType
  <1>3. CASE kind = "tool"
    <2>1. ledger[r].tool + 1 \in Nat
      BY <1>1 DEF Ledger
    <2>2. ledger' = [ledger EXCEPT ![r] = [ledger[r] EXCEPT !.tool = ledger[r].tool + 1]]
      BY <1>3 DEF ReserveGranted
    <2>3. QED
      BY <1>1, <2>1, <2>2, FieldType, LedgerType
  <1>4. QED
    BY <1>2, <1>3

LEMMA RefusedType ==
  ASSUME BudgetTypeOK, NEW r \in Runs, NEW kind \in {"model", "tool"},
         NEW limit \in Nat, ReserveRefused(r, kind, limit)
  PROVE  /\ ledger' \in [Runs -> Ledger]
         /\ blemish' \in [Runs -> SUBSET Blemishes]
  <1> DEFINE F == IF Refused(r) THEN ledger[r].failure ELSE kind
  <1>1. ledger[r] \in Ledger /\ F \in {"none", "model", "tool"}
    BY DEF BudgetTypeOK, Ledger
  <1>2. ledger' = [ledger EXCEPT ![r] = [ledger[r] EXCEPT !.failure = F]]
    BY DEF ReserveRefused
  <1>3. ledger' \in [Runs -> Ledger]
    BY <1>1, <1>2, FieldType, LedgerType
  <1>4. blemish' \in [Runs -> SUBSET Blemishes]
    BY MarksType DEF ReserveRefused, Blemishes
  <1>5. QED
    BY <1>3, <1>4

LEMMA BranchType ==
  ASSUME BudgetTypeOK, NEW r \in Runs, NEW b \in Branches, BranchStep(r, b)
  PROVE  BudgetTypeOK'
  <1> USE BudgetAssumption, MovesType, MarksType, GrantedType, RefusedType
      DEF BudgetTypeOK
  <1> DEFINE T == tries[r][b]
  <1>0. T \in 0..MaxTries
    OBVIOUS
  <1>1. CASE CallModel(r, b)
    <2>1. tries' \in [Runs -> [Branches -> 0..MaxTries]]
      BY <1>1, TriesType DEF CallModel
    <2>2. QED
      BY <1>1, <2>1 DEF CallModel, Place
  <1>2. CASE ReserveAttempt(r, b)
    BY <1>2 DEF ReserveAttempt, Place
  <1>3. CASE RefuseAttempt(r, b)
    BY <1>3 DEF RefuseAttempt, Place
  <1>4. CASE Transmit(r, b)
    BY <1>4 DEF Transmit, Place
  <1>5. CASE AttemptFails(r, b)
    BY <1>5 DEF AttemptFails, Place
  <1>6. CASE Retry(r, b)
    <2>1. T + 1 \in 0..MaxTries /\ tries' = [tries EXCEPT ![r][b] = T + 1]
      BY <1>6, <1>0 DEF Retry
    <2>2. tries' \in [Runs -> [Branches -> 0..MaxTries]]
      BY <2>1, TriesType
    <2>3. QED
      BY <1>6, <2>2 DEF Retry, Place
  <1>7. CASE GiveUp(r, b)
    <2>1. tries' \in [Runs -> [Branches -> 0..MaxTries]]
      BY <1>7, NoTries, TriesType DEF GiveUp
    <2>2. ledger' \in [Runs -> Ledger]
      BY <1>7, FieldType, LedgerType DEF GiveUp
    <2>3. QED
      BY <1>7, <2>1, <2>2 DEF GiveUp, Place, Blemishes
  <1>8. ASSUME NEW complete \in BOOLEAN, ModelAnswers(r, b, complete)
        PROVE  BudgetTypeOK'
    <2>1. tries' \in [Runs -> [Branches -> 0..MaxTries]]
      BY <1>8, TriesType DEF ModelAnswers
    <2>2. ledger' \in [Runs -> Ledger]
      <3> DEFINE Safe == ledger[r].safe /\ complete
      <3>1. Safe \in BOOLEAN /\ TRUE \in BOOLEAN /\ ledger[r] \in Ledger
        OBVIOUS
      <3>2. ledger' = [ledger EXCEPT ![r] =
                          [ledger[r] EXCEPT !.observed = TRUE, !.safe = Safe]]
        BY <1>8 DEF ModelAnswers
      <3> HIDE DEF Safe
      <3>3. QED
        BY <3>1, <3>2, FieldType, LedgerType
    <2>3. QED
      BY <1>8, <2>1, <2>2 DEF ModelAnswers, Place, Blemishes
  <1>9. CASE ReserveTool(r, b)
    BY <1>9 DEF ReserveTool, Place
  <1>10. CASE RefuseTool(r, b)
    BY <1>10 DEF RefuseTool, Place
  <1>11. CASE EnterTool(r, b)
    <2>1. ran' \in [Runs -> Nat]
      BY <1>11 DEF EnterTool
    <2>2. branch' \in [Runs -> [Branches -> Place]]
      BY <1>11 DEF EnterTool, Place
    <2>3. blemish' \in [Runs -> SUBSET Blemishes]
      BY <1>11 DEF EnterTool, Blemishes
    <2>4. QED
      BY <1>11, <2>1, <2>2, <2>3 DEF EnterTool
  <1>12. CASE LeaveTool(r, b)
    BY <1>12 DEF LeaveTool, Place
  <1>13. CASE Swallow(r, b)
    BY <1>13 DEF Swallow, Place
  <1>14. QED
    BY <1>1, <1>2, <1>3, <1>4, <1>5, <1>6, <1>7, <1>8, <1>9, <1>10, <1>11,
       <1>12, <1>13 DEF BranchStep

LEMMA BodyType ==
  ASSUME BudgetTypeOK, NEW r \in Runs,
         BodyStep(r) \/ \E interrupts \in BOOLEAN : Open(r, interrupts)
  PROVE  BudgetTypeOK'
  <1> USE MarksType DEF BudgetTypeOK
  <1>1. ASSUME NEW interrupts \in BOOLEAN, Open(r, interrupts)
        PROVE  BudgetTypeOK'
    <2>1. [NewLedger EXCEPT !.safe = ~interrupts] \in Ledger
      BY DEF NewLedger, Ledger
    <2>2. ledger' \in [Runs -> Ledger]
      BY <1>1, <2>1, LedgerType DEF Open
    <2>3. QED
      BY <1>1, <2>2 DEF Open, Blemishes
  <1>2. CASE Return(r)
    BY <1>2 DEF Return, Leaves
  <1>3. CASE Escape(r)
    BY <1>3 DEF Escape, Leaves
  <1>4. CASE Checkpoint(r)
    BY <1>4 DEF Checkpoint, Leaves
  <1>5. CASE Cancel(r)
    BY <1>5 DEF Cancel, Leaves
  <1>6. CASE FinishBudget(r)
    <2> DEFINE Success == (outcome[r] = "success")
    <2>1. Success \in BOOLEAN /\ ledger[r] \in Ledger
      OBVIOUS
    <2>2. ledger' \in [Runs -> Ledger]
      <3>1. ledger' = [ledger EXCEPT ![r] = [ledger[r] EXCEPT !.completed = Success]]
        BY <1>6 DEF FinishBudget
      <3> HIDE DEF Success
      <3>2. QED
        BY <2>1, <3>1, FieldType, LedgerType
    <2>3. QED
      BY <1>6, <2>2 DEF FinishBudget
  <1>7. QED
    BY <1>1, <1>2, <1>3, <1>4, <1>5, <1>6 DEF BodyStep

LEMMA BudgetNextType == BudgetTypeOK /\ [BudgetNext]_budgetVars => BudgetTypeOK'
  <1> SUFFICES ASSUME BudgetTypeOK, [BudgetNext]_budgetVars PROVE BudgetTypeOK'
    OBVIOUS
  <1>1. CASE BudgetNext
    BY <1>1, BranchType, BodyType DEF BudgetNext
  <1>2. CASE UNCHANGED budgetVars
    BY <1>2 DEF BudgetTypeOK, budgetVars
  <1>3. QED
    BY <1>1, <1>2

\* Every variable keeps its type, for any runs, branches and limits.
THEOREM BudgetTypeCorrect == BudgetSpec => []BudgetTypeOK
  BY BudgetInitType, BudgetNextType, PTL DEF BudgetSpec
-----------------------------------------------------------------------------
(* The branches that hold an unused reservation.                            *)

LEMMA AtFinite ==
  ASSUME NEW r \in Runs, NEW place
  PROVE  /\ IsFiniteSet(At(r, place))
         /\ Cardinality(At(r, place)) \in Nat
  <1>1. At(r, place) \subseteq Branches
    BY DEF At
  <1>2. QED
    BY <1>1, BudgetAssumption, FS_Subset, FS_CardinalityType

\* A branch that comes to a place adds one to those that are there ...
LEMMA Arrives ==
  ASSUME BudgetTypeOK, NEW r \in Runs, NEW b \in Branches, NEW place,
         branch[r][b] # place, Moves(r, b, place)
  PROVE  Cardinality(At(r, place)') = Cardinality(At(r, place)) + 1
  <1>1. At(r, place)' = At(r, place) \cup {b} /\ b \notin At(r, place)
    BY DEF At, Moves, BudgetTypeOK
  <1>2. QED
    BY <1>1, AtFinite, FS_AddElement

\* ... and one that leaves it takes one away.
LEMMA Departs ==
  ASSUME BudgetTypeOK, NEW r \in Runs, NEW b \in Branches, NEW place,
         NEW next, branch[r][b] = place, place # next, Moves(r, b, next)
  PROVE  Cardinality(At(r, place)') = Cardinality(At(r, place)) - 1
  <1>1. At(r, place)' = At(r, place) \ {b} /\ b \in At(r, place)
    BY DEF At, Moves, BudgetTypeOK
  <1>2. QED
    BY <1>1, AtFinite, FS_RemoveElement

LEMMA Elsewhere ==
  ASSUME BudgetTypeOK, NEW r \in Runs, NEW b \in Branches, NEW place,
         NEW next, Moves(r, b, next), NEW q \in Runs,
         q # r \/ (branch[r][b] # place /\ next # place)
  PROVE  At(q, place)' = At(q, place)
  BY DEF At, Moves, BudgetTypeOK

LEMMA Nowhere ==
  ASSUME NEW r \in Runs, AllIdle(r), NEW place, place # "idle"
  PROVE  Cardinality(At(r, place)) = 0
  <1>1. At(r, place) = {}
    BY DEF At, AllIdle
  <1>2. QED
    BY <1>1, FS_EmptySet
-----------------------------------------------------------------------------
(* The inductive invariant: another run's part of it is never touched.      *)

RunInv(q) == Accounted(q) /\ Settled(q) /\ Evident(q)

LEMMA OthersKept ==
  ASSUME BudgetTypeOK, LedgerInv, NEW r \in Runs, NEW q \in Runs, q # r,
         \/ \E b \in Branches : BranchStep(r, b)
         \/ BodyStep(r)
         \/ \E interrupts \in BOOLEAN : Open(r, interrupts)
  PROVE  RunInv(q)'
  <1>1. /\ ledger'[q] = ledger[q] /\ body'[q] = body[q]
        /\ outcome'[q] = outcome[q] /\ branch'[q] = branch[q]
        /\ sent'[q] = sent[q] /\ ran'[q] = ran[q] /\ blemish'[q] = blemish[q]
    <2>1. CASE \E b \in Branches : BranchStep(r, b)
      BY <2>1 DEF BudgetTypeOK, BranchStep, Moves, Marks, CallModel,
         ReserveAttempt, ReserveGranted, RefuseAttempt, ReserveRefused,
         Transmit, AttemptFails, Retry, GiveUp, ModelAnswers, ReserveTool,
         RefuseTool, EnterTool, LeaveTool, Swallow
    <2>2. CASE BodyStep(r)
      BY <2>2 DEF BudgetTypeOK, BodyStep, Leaves, Return, Escape, Checkpoint,
         Cancel, FinishBudget
    <2>3. CASE \E interrupts \in BOOLEAN : Open(r, interrupts)
      BY <2>3 DEF BudgetTypeOK, Open, Marks
    <2>4. QED
      BY <2>1, <2>2, <2>3
  <1>2. At(q, "reserved")' = At(q, "reserved") /\ At(q, "admitted")' = At(q, "admitted")
    BY <1>1 DEF At
  <1>3. RunInv(q)
    BY DEF LedgerInv, RunInv
  <1>4. QED
    BY <1>1, <1>2, <1>3
    DEF RunInv, Accounted, Settled, Evident, AllIdle, Refused
-----------------------------------------------------------------------------
(* One lemma per part of the invariant, one step per action.                *)

\* What Accounted needs of a step: the ledger grows with every reservation and
\* a reservation is moved, never copied, into sent or ran.
LEMMA AccountedKept ==
  ASSUME BudgetTypeOK, LedgerInv, NEW r \in Runs, NEW b \in Branches,
         BranchStep(r, b)
  PROVE  Accounted(r)'
  <1> DEFINE R == Cardinality(At(r, "reserved"))
             A == Cardinality(At(r, "admitted"))
  <1>0. /\ Accounted(r)
        /\ R \in Nat /\ A \in Nat /\ sent[r] \in Nat /\ ran[r] \in Nat
        /\ ledger[r] \in Ledger /\ ledger[r].model \in Nat /\ ledger[r].tool \in Nat
        /\ ModelLimit \in Nat /\ ToolLimit \in Nat
    BY AtFinite, BudgetAssumption DEF LedgerInv, BudgetTypeOK, Ledger
  <1>a. ASSUME NEW next, next \notin {"reserved", "admitted"},
               Moves(r, b, next), branch[r][b] \notin {"reserved", "admitted"},
               ledger'[r].model = ledger[r].model, ledger'[r].tool = ledger[r].tool,
               UNCHANGED <<sent, ran>>
        PROVE  Accounted(r)'
    <2>1. At(r, "reserved")' = At(r, "reserved") /\ At(r, "admitted")' = At(r, "admitted")
      BY <1>a, Elsewhere
    <2>2. QED
      BY <1>a, <1>0, <2>1 DEF Accounted
  <1>1. CASE CallModel(r, b)
    BY <1>1, <1>a DEF CallModel
  <1>2. CASE ReserveAttempt(r, b)
    <2>1. Cardinality(At(r, "reserved")') = R + 1
      BY <1>2, Arrives DEF ReserveAttempt
    <2>2. At(r, "admitted")' = At(r, "admitted")
      BY <1>2, Elsewhere DEF ReserveAttempt
    <2>3. /\ ledger'[r].model = ledger[r].model + 1 /\ ledger[r].model < ModelLimit
          /\ ledger'[r].tool = ledger[r].tool
      BY <1>2, <1>0 DEF ReserveAttempt, ReserveGranted, Grants, BudgetTypeOK, Ledger
    <2>4. sent' = sent /\ ran' = ran
      BY <1>2 DEF ReserveAttempt
    <2>5. QED
      BY <1>0, <2>1, <2>2, <2>3, <2>4 DEF Accounted
  <1>3. CASE RefuseAttempt(r, b)
    BY <1>3, <1>a DEF RefuseAttempt, ReserveRefused, BudgetTypeOK, Ledger
  <1>4. CASE Transmit(r, b)
    <2>1. Cardinality(At(r, "reserved")') = R - 1
      BY <1>4, Departs DEF Transmit
    <2>2. At(r, "admitted")' = At(r, "admitted")
      BY <1>4, Elsewhere DEF Transmit
    <2>3. sent'[r] = sent[r] + 1 /\ ran' = ran /\ ledger' = ledger
      BY <1>4 DEF Transmit, BudgetTypeOK
    <2>4. QED
      BY <1>0, <2>1, <2>2, <2>3 DEF Accounted
  <1>5. CASE AttemptFails(r, b)
    <2>1. At(r, "admitted")' = At(r, "admitted")
      BY <1>5, Elsewhere DEF AttemptFails
    <2>2. Cardinality(At(r, "reserved")') \in {R - 1, R}
      <3>1. CASE branch[r][b] = "reserved"
        BY <1>5, <3>1, Departs DEF AttemptFails
      <3>2. CASE branch[r][b] = "wire"
        BY <1>5, <3>2, Elsewhere DEF AttemptFails
      <3>3. QED
        BY <1>5, <3>1, <3>2 DEF AttemptFails
    <2>3. sent' = sent /\ ran' = ran /\ ledger' = ledger
      BY <1>5 DEF AttemptFails
    <2>4. QED
      BY <1>0, <2>1, <2>2, <2>3 DEF Accounted
  <1>6. CASE Retry(r, b)
    BY <1>6, <1>a DEF Retry
  <1>7. CASE GiveUp(r, b)
    BY <1>7, <1>a DEF GiveUp, BudgetTypeOK, Ledger
  <1>8. ASSUME NEW complete \in BOOLEAN, ModelAnswers(r, b, complete)
        PROVE  Accounted(r)'
    BY <1>8, <1>a DEF ModelAnswers, BudgetTypeOK, Ledger
  <1>9. CASE ReserveTool(r, b)
    <2>1. Cardinality(At(r, "admitted")') = A + 1
      BY <1>9, Arrives DEF ReserveTool
    <2>2. At(r, "reserved")' = At(r, "reserved")
      BY <1>9, Elsewhere DEF ReserveTool
    <2>3. /\ ledger'[r].tool = ledger[r].tool + 1 /\ ledger[r].tool < ToolLimit
          /\ ledger'[r].model = ledger[r].model
      BY <1>9, <1>0 DEF ReserveTool, ReserveGranted, Grants, BudgetTypeOK, Ledger
    <2>4. sent' = sent /\ ran' = ran
      BY <1>9 DEF ReserveTool
    <2>5. QED
      BY <1>0, <2>1, <2>2, <2>3, <2>4 DEF Accounted
  <1>10. CASE RefuseTool(r, b)
    BY <1>10, <1>a DEF RefuseTool, ReserveRefused, BudgetTypeOK, Ledger
  <1>11. CASE EnterTool(r, b)
    <2>1. Cardinality(At(r, "admitted")') = A - 1
      BY <1>11, Departs DEF EnterTool
    <2>2. At(r, "reserved")' = At(r, "reserved")
      BY <1>11, Elsewhere DEF EnterTool
    <2>3. ran'[r] = ran[r] + 1 /\ sent' = sent /\ ledger' = ledger
      BY <1>11 DEF EnterTool, BudgetTypeOK
    <2>4. QED
      BY <1>0, <2>1, <2>2, <2>3 DEF Accounted
  <1>12. CASE LeaveTool(r, b)
    BY <1>12, <1>a DEF LeaveTool
  <1>13. CASE Swallow(r, b)
    BY <1>13, <1>a DEF Swallow
  <1>14. QED
    BY <1>1, <1>2, <1>3, <1>4, <1>5, <1>6, <1>7, <1>8, <1>9, <1>10, <1>11,
       <1>12, <1>13 DEF BranchStep

\* A branch that moves shows that the run is neither off nor a success.
LEMMA SettledKept ==
  ASSUME BudgetTypeOK, LedgerInv, NEW r \in Runs, NEW b \in Branches,
         BranchStep(r, b)
  PROVE  Settled(r)'
  <1>1. Settled(r) /\ ledger[r] \in Ledger
    BY DEF LedgerInv, BudgetTypeOK
  <1>2. body' = body /\ outcome' = outcome
    BY DEF BranchStep, CallModel, ReserveAttempt, RefuseAttempt, Transmit,
       AttemptFails, Retry, GiveUp, ModelAnswers, ReserveTool, RefuseTool,
       EnterTool, LeaveTool, Swallow
  <1>3. body[r] = "running" \/ branch[r][b] # "idle"
    BY DEF BranchStep, CallModel, ReserveAttempt, RefuseAttempt, Transmit,
       AttemptFails, Retry, GiveUp, ModelAnswers, ReserveTool, RefuseTool,
       EnterTool, LeaveTool, Swallow
  <1>4. body[r] # "off" /\ outcome[r] # "success"
    BY <1>1, <1>3 DEF Settled, AllIdle
  <1>5. ledger'[r].completed = ledger[r].completed
    <2>1. CASE ReserveAttempt(r, b)
      BY <2>1 DEF ReserveAttempt, ReserveGranted, BudgetTypeOK, Ledger
    <2>2. CASE ReserveTool(r, b)
      BY <2>2 DEF ReserveTool, ReserveGranted, BudgetTypeOK, Ledger
    <2>3. CASE RefuseAttempt(r, b) \/ RefuseTool(r, b)
      BY <2>3 DEF RefuseAttempt, RefuseTool, ReserveRefused, BudgetTypeOK, Ledger
    <2>4. CASE GiveUp(r, b)
      BY <2>4 DEF GiveUp, BudgetTypeOK, Ledger
    <2>5. ASSUME NEW complete \in BOOLEAN, ModelAnswers(r, b, complete)
          PROVE  ledger'[r].completed = ledger[r].completed
      BY <2>5 DEF ModelAnswers, BudgetTypeOK, Ledger
    <2>6. CASE ledger' = ledger
      BY <2>6
    <2>7. QED
      BY <2>1, <2>2, <2>3, <2>4, <2>5, <2>6 DEF BranchStep, CallModel,
         Transmit, AttemptFails, Retry, EnterTool, LeaveTool, Swallow
  <1>6. QED
    BY <1>1, <1>2, <1>4, <1>5 DEF Settled

\* Every event that forbids caching leaves its trace in the ledger.
LEMMA EvidentKept ==
  ASSUME BudgetTypeOK, LedgerInv, NEW r \in Runs, NEW b \in Branches,
         BranchStep(r, b)
  PROVE  Evident(r)'
  <1>1. /\ Evident(r) /\ ledger[r] \in Ledger /\ blemish[r] \in SUBSET Blemishes
        /\ ran[r] \in Nat
    BY DEF LedgerInv, BudgetTypeOK
  <1>a. ASSUME ledger'[r].failure = ledger[r].failure, ledger'[r].safe = ledger[r].safe,
               UNCHANGED <<ran, blemish>>
        PROVE  Evident(r)'
    BY <1>1, <1>a DEF Evident, Refused
  <1>2. CASE ReserveAttempt(r, b)
    BY <1>2, <1>a DEF ReserveAttempt, ReserveGranted, BudgetTypeOK, Ledger
  <1>3. CASE ReserveTool(r, b)
    BY <1>3, <1>a DEF ReserveTool, ReserveGranted, BudgetTypeOK, Ledger
  <1>4. CASE RefuseAttempt(r, b) \/ RefuseTool(r, b)
    <2>1. /\ ledger'[r].failure # "none" /\ ledger'[r].safe = ledger[r].safe
          /\ blemish'[r] = blemish[r] \cup {"refused"} /\ ran' = ran
      BY <1>4 DEF RefuseAttempt, RefuseTool, ReserveRefused, Refused, Marks,
         BudgetTypeOK, Ledger
    <2>2. QED
      BY <1>1, <2>1 DEF Evident, Refused
  <1>5. CASE GiveUp(r, b)
    <2>1. /\ ledger'[r].failure = ledger[r].failure /\ ~ledger'[r].safe
          /\ blemish'[r] = blemish[r] \cup {"model failed"} /\ ran' = ran
      BY <1>5 DEF GiveUp, Marks, BudgetTypeOK, Ledger
    <2>2. QED
      BY <1>1, <2>1 DEF Evident, Refused
  <1>6. ASSUME NEW complete \in BOOLEAN, ModelAnswers(r, b, complete)
        PROVE  Evident(r)'
    <2>1. /\ ledger'[r].failure = ledger[r].failure
          /\ ledger'[r].safe = (ledger[r].safe /\ complete) /\ ran' = ran
      BY <1>6 DEF ModelAnswers, BudgetTypeOK, Ledger
    <2>2. blemish'[r] = IF complete THEN blemish[r] ELSE blemish[r] \cup {"incomplete"}
      BY <1>6 DEF ModelAnswers, Marks, BudgetTypeOK
    <2>3. CASE complete
      BY <1>1, <2>1, <2>2, <2>3 DEF Evident, Refused
    <2>4. CASE ~complete
      <3>1. ~ledger'[r].safe /\ blemish'[r] = blemish[r] \cup {"incomplete"}
        BY <2>1, <2>2, <2>4
      <3>2. QED
        BY <1>1, <2>1, <3>1 DEF Evident, Refused
    <2>5. QED
      BY <2>3, <2>4
  <1>7. CASE EnterTool(r, b)
    <2>1. /\ ledger' = ledger /\ ran'[r] = ran[r] + 1
          /\ blemish'[r] = blemish[r] \cup {"tool"}
      BY <1>7 DEF EnterTool, Marks, BudgetTypeOK
    <2>2. ran'[r] > 0
      BY <1>1, <2>1
    <2>3. QED
      BY <1>1, <2>1, <2>2 DEF Evident, Refused
  <1>8. CASE UNCHANGED <<ledger, ran, blemish>>
    BY <1>8, <1>a
  <1>9. QED
    BY <1>2, <1>3, <1>4, <1>5, <1>6, <1>7, <1>8 DEF BranchStep, CallModel,
       Transmit, AttemptFails, Retry, LeaveTool, Swallow

\* The with-statement opens a fresh ledger and closes it once.
LEMMA OpenKept ==
  ASSUME BudgetTypeOK, LedgerInv, NEW r \in Runs, NEW interrupts \in BOOLEAN,
         Open(r, interrupts)
  PROVE  RunInv(r)'
  <1>1. /\ Settled(r) /\ body[r] = "off" /\ outcome[r] = "none"
        /\ AllIdle(r) /\ sent[r] = 0 /\ ran[r] = 0 /\ blemish[r] = {}
    BY DEF LedgerInv, Settled, Open, BudgetTypeOK
  <1>2. /\ body'[r] = "running" /\ UNCHANGED <<outcome, branch, sent, ran>>
        /\ ledger'[r] = [NewLedger EXCEPT !.safe = ~interrupts]
        /\ blemish'[r] = IF interrupts THEN {"interrupt"} ELSE {}
    BY <1>1 DEF Open, Marks, BudgetTypeOK
  <1>3. /\ ledger'[r].model = 0 /\ ledger'[r].tool = 0 /\ ledger'[r].failure = "none"
        /\ ledger'[r].safe = ~interrupts /\ ~ledger'[r].completed
    BY <1>2 DEF NewLedger
  <1>4. Accounted(r)'
    <2>1. At(r, "reserved")' = At(r, "reserved") /\ At(r, "admitted")' = At(r, "admitted")
      BY <1>2 DEF At
    <2>2. Cardinality(At(r, "reserved")) = 0 /\ Cardinality(At(r, "admitted")) = 0
      BY <1>1, Nowhere
    <2>3. QED
      BY <1>1, <1>2, <1>3, <2>1, <2>2, BudgetAssumption DEF Accounted
  <1>5. Settled(r)'
    BY <1>1, <1>2, <1>3 DEF Settled
  <1>6. Evident(r)'
    BY <1>2, <1>3 DEF Evident, Refused
  <1>7. QED
    BY <1>4, <1>5, <1>6 DEF RunInv

LEMMA BodyKept ==
  ASSUME BudgetTypeOK, LedgerInv, NEW r \in Runs, BodyStep(r)
  PROVE  RunInv(r)'
  <1>1. /\ Accounted(r) /\ Settled(r) /\ Evident(r) /\ ledger[r] \in Ledger
    BY DEF LedgerInv, BudgetTypeOK
  <1>2. UNCHANGED <<branch, sent, ran, blemish>>
    BY DEF BodyStep, Return, Escape, Checkpoint, Cancel, FinishBudget, Leaves
  <1>3. /\ ledger'[r].model = ledger[r].model /\ ledger'[r].tool = ledger[r].tool
        /\ ledger'[r].failure = ledger[r].failure /\ ledger'[r].safe = ledger[r].safe
    BY DEF BodyStep, Return, Escape, Checkpoint, Cancel, FinishBudget, Leaves,
       BudgetTypeOK, Ledger
  <1>4. At(r, "reserved")' = At(r, "reserved") /\ At(r, "admitted")' = At(r, "admitted")
    BY <1>2 DEF At
  <1>5. Accounted(r)'
    BY <1>1, <1>2, <1>3, <1>4 DEF Accounted
  <1>6. Evident(r)'
    BY <1>1, <1>2, <1>3 DEF Evident, Refused
  <1>7. Settled(r)'
    <2>1. CASE FinishBudget(r)
      <3>1. /\ body'[r] = "over" /\ outcome' = outcome
            /\ ledger'[r].completed = (outcome[r] = "success")
        BY <2>1 DEF FinishBudget, BudgetTypeOK, Ledger
      <3>2. QED
        BY <1>1, <1>2, <1>3, <3>1 DEF Settled, AllIdle, Refused
    <2>2. CASE Return(r) \/ Escape(r) \/ Checkpoint(r) \/ Cancel(r)
      <3>1. body'[r] = "leaving" /\ ledger' = ledger /\ body[r] = "running"
        BY <2>2 DEF Return, Escape, Checkpoint, Cancel, Leaves, BudgetTypeOK
      <3>2. outcome[r] = "none" /\ ~ledger[r].completed
        BY <1>1, <3>1 DEF Settled
      <3>3. outcome'[r] = "success" => AllIdle(r) /\ ~Refused(r)
        BY <2>2 DEF Return, Escape, Checkpoint, Cancel, Leaves, AllIdle, BudgetTypeOK
      <3>4. QED
        BY <1>2, <3>1, <3>2, <3>3 DEF Settled, AllIdle, Refused
    <2>3. QED
      BY <2>1, <2>2 DEF BodyStep
  <1>8. QED
    BY <1>5, <1>6, <1>7 DEF RunInv
-----------------------------------------------------------------------------
LEMMA LedgerInit == BudgetInit => LedgerInv
  <1> SUFFICES ASSUME BudgetInit, NEW r \in Runs
               PROVE  Accounted(r) /\ Settled(r) /\ Evident(r)
    BY DEF LedgerInv
  <1>1. AllIdle(r) /\ ledger[r] = NewLedger
    BY DEF BudgetInit, AllIdle
  <1>2. Cardinality(At(r, "reserved")) = 0 /\ Cardinality(At(r, "admitted")) = 0
    BY <1>1, Nowhere
  <1>3. Accounted(r)
    BY <1>1, <1>2, BudgetAssumption DEF BudgetInit, Accounted, NewLedger
  <1>4. Settled(r)
    BY <1>1 DEF BudgetInit, Settled, NewLedger
  <1>5. Evident(r)
    BY DEF BudgetInit, Evident
  <1>6. QED
    BY <1>3, <1>4, <1>5

LEMMA LedgerNext == BudgetTypeOK /\ LedgerInv /\ [BudgetNext]_budgetVars => LedgerInv'
  <1> SUFFICES ASSUME BudgetTypeOK, LedgerInv, [BudgetNext]_budgetVars,
                      NEW q \in Runs
               PROVE  RunInv(q)'
    BY DEF LedgerInv, RunInv
  <1>1. ASSUME NEW r \in Runs, NEW b \in Branches, BranchStep(r, b)
        PROVE  RunInv(q)'
    <2>1. CASE q = r
      BY <1>1, <2>1, AccountedKept, SettledKept, EvidentKept DEF RunInv
    <2>2. CASE q # r
      BY <1>1, <2>2, OthersKept
    <2>3. QED
      BY <2>1, <2>2
  <1>2. ASSUME NEW r \in Runs, BodyStep(r)
        PROVE  RunInv(q)'
    BY <1>2, BodyKept, OthersKept
  <1>3. ASSUME NEW r \in Runs, NEW interrupts \in BOOLEAN, Open(r, interrupts)
        PROVE  RunInv(q)'
    BY <1>3, OpenKept, OthersKept
  <1>4. CASE UNCHANGED budgetVars
    <2>1. RunInv(q) /\ At(q, "reserved")' = At(q, "reserved")
                    /\ At(q, "admitted")' = At(q, "admitted")
      BY <1>4 DEF LedgerInv, RunInv, At, budgetVars
    <2>2. QED
      BY <1>4, <2>1 DEF RunInv, Accounted, Settled, Evident, AllIdle, Refused,
         budgetVars
  <1>5. QED
    BY <1>1, <1>2, <1>3, <1>4 DEF BudgetNext

\* The ledger accounts for what its branches did or may still do, knows how
\* the run ended and remembers what forbids caching.
THEOREM LedgerInvariant == BudgetSpec => []LedgerInv
  BY BudgetInitType, BudgetNextType, LedgerInit, LedgerNext, PTL DEF BudgetSpec

\* No run sends more model requests or enters more tools than its limits.
THEOREM BudgetHolds == BudgetSpec => []WithinBudget
  <1>1. BudgetTypeOK /\ LedgerInv => WithinBudget
    <2> SUFFICES ASSUME BudgetTypeOK, LedgerInv, NEW r \in Runs
                 PROVE  sent[r] <= ModelLimit /\ ran[r] <= ToolLimit
      BY DEF WithinBudget
    <2>1. /\ sent[r] \in Nat /\ ran[r] \in Nat /\ ledger[r].model \in Nat
          /\ ledger[r].tool \in Nat /\ Accounted(r)
      BY DEF BudgetTypeOK, LedgerInv, Ledger
    <2>2. QED
      BY <2>1, AtFinite, BudgetAssumption DEF Accounted
  <1>2. QED
    BY <1>1, BudgetTypeCorrect, LedgerInvariant, PTL

\* A run in which anything was refused is never reported as a success.
THEOREM RefusalNeverHidden == BudgetSpec => []NoHiddenRefusal
  <1>1. LedgerInv => NoHiddenRefusal
    BY DEF LedgerInv, NoHiddenRefusal, Settled, Evident
  <1>2. QED
    BY <1>1, LedgerInvariant, PTL

\* Only an answer nothing speaks against is admitted to the cache.
THEOREM CacheIsEvidenced == BudgetSpec => []CacheEvidence
  <1>1. BudgetTypeOK /\ LedgerInv => CacheEvidence
    <2> SUFFICES ASSUME BudgetTypeOK, LedgerInv, NEW r \in Runs, AllowsAnswerCache(r)
                 PROVE  outcome[r] = "success" /\ blemish[r] = {}
      BY DEF CacheEvidence
    <2>1. Accounted(r) /\ Settled(r) /\ Evident(r)
      BY DEF LedgerInv
    <2>2. outcome[r] = "success"
      BY <2>1 DEF AllowsAnswerCache, Settled
    <2>3. ran[r] = 0
      <3>1. ran[r] \in Nat /\ ledger[r].tool = 0
        BY DEF BudgetTypeOK, AllowsAnswerCache
      <3>2. QED
        BY <3>1, <2>1, AtFinite DEF Accounted
    <2>4. blemish[r] \in SUBSET Blemishes
      BY DEF BudgetTypeOK
    <2>5. blemish[r] = {}
      <3>1. ~(ran[r] > 0)
        BY <2>3
      <3>2. ledger[r].safe /\ ~Refused(r)
        BY DEF AllowsAnswerCache
      <3>3. "tool" \notin blemish[r] /\ "refused" \notin blemish[r]
        BY <2>1, <3>1, <3>2 DEF Evident
      <3>4. \A b \in {"interrupt", "incomplete", "model failed"} : b \notin blemish[r]
        BY <2>1, <3>2 DEF Evident
      <3>5. QED
        BY <2>4, <3>3, <3>4 DEF Blemishes
    <2>6. QED
      BY <2>2, <2>5
  <1>2. QED
    BY <1>1, BudgetTypeCorrect, LedgerInvariant, PTL

\* After a refusal nothing more is reserved.
THEOREM RefusalFinal == BudgetSpec => RefusalIsFinal
  <1>1. BudgetTypeOK /\ LedgerInv /\ [BudgetNext]_budgetVars =>
          [\A r \in Runs : Refused(r) =>
             /\ ledger'[r].failure = ledger[r].failure
             /\ ledger'[r].model = ledger[r].model
             /\ ledger'[r].tool = ledger[r].tool]_budgetVars
    <2> SUFFICES ASSUME BudgetTypeOK, LedgerInv, BudgetNext, NEW q \in Runs, Refused(q)
                 PROVE  /\ ledger'[q].failure = ledger[q].failure
                        /\ ledger'[q].model = ledger[q].model
                        /\ ledger'[q].tool = ledger[q].tool
      OBVIOUS
    <2>1. ASSUME NEW r \in Runs, NEW interrupts \in BOOLEAN, Open(r, interrupts)
          PROVE  ledger'[q] = ledger[q]
      <3>1. q # r
        BY <2>1 DEF Open, LedgerInv, Settled, Refused, NewLedger
      <3>2. QED
        BY <2>1, <3>1 DEF Open, BudgetTypeOK
    <2>2. ASSUME NEW r \in Runs, BodyStep(r)
          PROVE  /\ ledger'[q].failure = ledger[q].failure
                 /\ ledger'[q].model = ledger[q].model
                 /\ ledger'[q].tool = ledger[q].tool
      <3>1. CASE q = r
        BY <2>2, <3>1 DEF BodyStep, Return, Escape, Checkpoint, Cancel,
           FinishBudget, Leaves, BudgetTypeOK, Ledger
      <3>2. CASE q # r
        BY <2>2, <3>2 DEF BodyStep, Return, Escape, Checkpoint, Cancel,
           FinishBudget, Leaves, BudgetTypeOK
      <3>3. QED
        BY <3>1, <3>2
    <2>3. ASSUME NEW r \in Runs, NEW b \in Branches, BranchStep(r, b)
          PROVE  /\ ledger'[q].failure = ledger[q].failure
                 /\ ledger'[q].model = ledger[q].model
                 /\ ledger'[q].tool = ledger[q].tool
      <3>1. CASE ReserveAttempt(r, b) \/ ReserveTool(r, b)
        BY <3>1 DEF ReserveAttempt, ReserveTool, ReserveGranted, Grants, BudgetTypeOK
      <3>2. CASE RefuseAttempt(r, b) \/ RefuseTool(r, b)
        <4>1. CASE q = r
          BY <3>2, <4>1 DEF RefuseAttempt, RefuseTool, ReserveRefused,
             BudgetTypeOK, Ledger
        <4>2. CASE q # r
          BY <3>2, <4>2 DEF RefuseAttempt, RefuseTool, ReserveRefused, BudgetTypeOK
        <4>3. QED
          BY <4>1, <4>2
      <3>3. CASE GiveUp(r, b)
        BY <3>3 DEF GiveUp, BudgetTypeOK, Ledger
      <3>4. ASSUME NEW complete \in BOOLEAN, ModelAnswers(r, b, complete)
            PROVE  /\ ledger'[q].failure = ledger[q].failure
                   /\ ledger'[q].model = ledger[q].model
                   /\ ledger'[q].tool = ledger[q].tool
        BY <3>4 DEF ModelAnswers, BudgetTypeOK, Ledger
      <3>5. CASE ledger' = ledger
        BY <3>5
      <3>6. QED
        BY <2>3, <3>1, <3>2, <3>3, <3>4, <3>5 DEF BranchStep, CallModel,
           Transmit, AttemptFails, Retry, EnterTool, LeaveTool, Swallow
    <2>4. QED
      BY <2>1, <2>2, <2>3 DEF BudgetNext
  <1>2. QED
    BY <1>1, BudgetTypeCorrect, LedgerInvariant, PTL DEF BudgetSpec, RefusalIsFinal
=============================================================================
