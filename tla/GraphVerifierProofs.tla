--------------------------- MODULE GraphVerifierProofs ---------------------------
(***************************************************************************)
(* Proofs about StreamPump (its type invariant, the inductive PumpInv and  *)
(* the safety properties that follow, for any number of chunks) and about  *)
(* everything around it: the bodies of uploads, who sees and changes what, *)
(* in whose name a run acts, for any clients, users and threads, with the  *)
(* scripts or without; and what the scripts say at the end.                *)
(***************************************************************************)
EXTENDS GraphVerifier, TLAPS

-----------------------------------------------------------------------------
(* Type correctness.                                                        *)

LEMMA EndsType ==
  ASSUME PumpTypeOK, NEW how \in {"ok", "error", "timeout", "cancelled"}, Ends(how)
  PROVE  /\ prod' \in Place /\ due' \in BOOLEAN /\ held' \in BOOLEAN
         /\ result' \in {"none", "ok", "error", "timeout", "cancelled"}
         /\ queue' \in Seq(Nat) /\ Len(queue') <= 1
         /\ UNCHANGED <<requests, raising>>
  <1>1. <<Finished>> \in Seq(Nat) /\ Len(<<Finished>>) = 1
    BY DEF Finished
  <1>2. queue' \in Seq(Nat) /\ Len(queue') <= 1
    BY <1>1 DEF Ends, PumpTypeOK
  <1>3. QED
    BY <1>2 DEF Ends, Place

LEMMA VerdictType == Verdict \in {"timeout", "cancelled"}
  BY DEF Verdict

LEMMA LeaveType ==
  ASSUME PumpTypeOK, NEW why \in {"none", "ok", "error", "timeout", "cancelled", "closed"},
         Leave(why)
  PROVE  /\ cons' = "cleaning" /\ answer' = why /\ due' \in BOOLEAN
         /\ requests' \in SUBSET {"deadline", "consumer"}
         /\ UNCHANGED <<prod, raising, result, held, produced, accepted, again>>
  BY DEF Leave, PumpTypeOK

LEMMA PumpInitType == PumpInit => PumpTypeOK
  <1>1. <<>> \in Seq(Nat) /\ Len(<<>>) <= 1
    OBVIOUS
  <1>2. {} \in SUBSET {"deadline", "consumer"}
    OBVIOUS
  <1>3. PumpInit => queue \in Seq(Nat) /\ Len(queue) <= 1 /\ delivered \in Seq(Nat)
    BY <1>1 DEF PumpInit
  <1>4. PumpInit => /\ prod \in Place /\ due \in BOOLEAN /\ held \in BOOLEAN
                    /\ again \in BOOLEAN /\ requests \in SUBSET {"deadline", "consumer"}
    BY <1>2 DEF PumpInit, Place
  <1>5. QED
    BY <1>3, <1>4 DEF PumpInit, PumpTypeOK

LEMMA PumpNextType == PumpTypeOK /\ [PumpNext]_pumpVars => PumpTypeOK'
  <1> SUFFICES ASSUME PumpTypeOK, [PumpNext]_pumpVars PROVE PumpTypeOK'
    OBVIOUS
  <1> USE PumpAssumption DEF PumpTypeOK, Place
  <1>1. CASE LeaseGranted
    BY <1>1 DEF LeaseGranted, At, task, generator, Finished
  <1>2. CASE LeaseRefused
    BY <1>2, EndsType DEF LeaseRefused, generator
  <1>3. CASE Chunk
    BY <1>3 DEF Chunk, At, task, generator, Finished
  <1>4. CASE ChunkRefused
    BY <1>4 DEF ChunkRefused, At, task, generator, Finished
  <1>5. CASE Put
    BY <1>5 DEF Put, At, task, generator, Finished
  <1>6. CASE Exhausted
    BY <1>6, EndsType DEF Exhausted, generator
  <1>7. CASE SourceFails
    BY <1>7, EndsType DEF SourceFails, generator
  <1>8. CASE Deadline
    BY <1>8 DEF Deadline, task, generator, Finished
  <1>9. CASE Interrupted
    <2>1. CASE prod = "waiting"
      BY <1>9, <2>1, EndsType, VerdictType DEF Interrupted, generator
    <2>2. CASE prod # "waiting"
      BY <1>9, <2>2 DEF Interrupted, generator
    <2>3. QED
      BY <2>1, <2>2
  <1>10. CASE Closed
    BY <1>10, EndsType, VerdictType DEF Closed, generator
  <1>11. CASE Start
    BY <1>11 DEF Start, task, generator, Finished
  <1>12. CASE Resume
    <2>1. CASE prod = "done" /\ queue = <<>>
      BY <1>12, <2>1, LeaveType DEF Resume
    <2>2. CASE ~(prod = "done" /\ queue = <<>>)
      <3>1. cons' = "getting" /\ UNCHANGED <<queue, delivered>>
            /\ UNCHANGED <<task, produced, accepted, again, answer>>
        BY <1>12, <2>2 DEF Resume
      <3>2. QED
        BY <3>1 DEF task
    <2>3. QED
      BY <2>1, <2>2
  <1>13. CASE GetChunk
    BY <1>13 DEF GetChunk, task, generator, Finished
  <1>14. CASE GetFinished
    <2>1. Tail(queue) \in Seq(Nat) /\ Len(Tail(queue)) <= 1
      BY <1>14 DEF GetFinished
    <2>2. QED
      BY <1>14, <2>1, LeaveType DEF GetFinished
  <1>15. CASE CallerCancels
    BY <1>15 DEF CallerCancels, Leave, task, generator, Finished
  <1>16. CASE CallerCancelsAgain
    BY <1>16 DEF CallerCancelsAgain, task, generator, Finished
  <1>17. CASE CallerCloses
    BY <1>17 DEF CallerCloses, Leave, task, generator, Finished
  <1>18. CASE CallerClosesUnstarted
    BY <1>18 DEF CallerClosesUnstarted, task, generator, Finished
  <1>19. CASE Cleaned
    BY <1>19 DEF Cleaned, task, generator, Finished
  <1>20. CASE UNCHANGED pumpVars
    BY <1>20 DEF pumpVars, task, generator
  <1>21. QED
    BY <1>1, <1>2, <1>3, <1>4, <1>5, <1>6, <1>7, <1>8, <1>9, <1>10, <1>11, <1>12, <1>13, <1>14, <1>15, <1>16, <1>17, <1>18, <1>19, <1>20 DEF PumpNext, Producer, Consumer

LEMMA TogetherKept == PumpTypeOK /\ PumpInv /\ [PumpNext]_pumpVars => Together'
  <1> SUFFICES ASSUME PumpTypeOK, PumpInv, [PumpNext]_pumpVars PROVE Together'
    OBVIOUS
  <1> USE DEF PumpTypeOK, PumpInv, Together, Counted, Reported, QueueEmptyOfChunks, Finished
  <1>1. CASE LeaseGranted
    BY <1>1 DEF LeaseGranted, At, task, generator
  <1>2. CASE LeaseRefused
    BY <1>2 DEF LeaseRefused, Ends, At, task, generator
  <1>3. CASE Chunk
    BY <1>3 DEF Chunk, At, task, generator
  <1>4. CASE ChunkRefused
    BY <1>4 DEF ChunkRefused, At, task, generator
  <1>5. CASE Put
    BY <1>5 DEF Put, At, task, generator
  <1>6. CASE Exhausted
    BY <1>6 DEF Exhausted, Ends, At, task, generator
  <1>7. CASE SourceFails
    BY <1>7 DEF SourceFails, Ends, At, task, generator
  <1>8. CASE Deadline
    BY <1>8 DEF Deadline, task, generator
  <1>9. CASE Interrupted
    BY <1>9 DEF Interrupted, Ends, Verdict, task, generator
  <1>10. CASE Closed
    BY <1>10 DEF Closed, Ends, Verdict, At, task, generator
  <1>11. CASE Start
    BY <1>11 DEF Start, task, generator
  <1>12. CASE Resume
    BY <1>12 DEF Resume, Leave, task, generator
  <1>13. CASE GetChunk
    BY <1>13 DEF GetChunk, task, generator
  <1>14. CASE GetFinished
    BY <1>14 DEF GetFinished, Leave, task, generator
  <1>15. CASE CallerCancels
    BY <1>15 DEF CallerCancels, Leave, task, generator
  <1>16. CASE CallerCancelsAgain
    BY <1>16 DEF CallerCancelsAgain, task, generator
  <1>17. CASE CallerCloses
    BY <1>17 DEF CallerCloses, Leave, task, generator
  <1>18. CASE CallerClosesUnstarted
    BY <1>18 DEF CallerClosesUnstarted, task, generator
  <1>19. CASE Cleaned
    BY <1>19 DEF Cleaned, task, generator
  <1>20. CASE UNCHANGED pumpVars
    BY <1>20 DEF pumpVars, task, generator
  <1>21. QED
    BY <1>1, <1>2, <1>3, <1>4, <1>5, <1>6, <1>7, <1>8, <1>9, <1>10, <1>11, <1>12, <1>13, <1>14, <1>15, <1>16, <1>17, <1>18, <1>19, <1>20 DEF PumpNext, Producer, Consumer

LEMMA CountedKept == PumpTypeOK /\ PumpInv /\ [PumpNext]_pumpVars => Counted'
  <1> SUFFICES ASSUME PumpTypeOK, PumpInv, [PumpNext]_pumpVars PROVE Counted'
    OBVIOUS
  <1> USE DEF PumpTypeOK, PumpInv, Together, Counted, Reported, QueueEmptyOfChunks, Finished
  <1>1. CASE LeaseGranted
    BY <1>1 DEF LeaseGranted, At, task, generator
  <1>2. CASE LeaseRefused
    BY <1>2 DEF LeaseRefused, Ends, At, task, generator
  <1>3. CASE Chunk
    <2>1. CASE queue = <<>>
      <3>1. queue' = <<produced'>> /\ accepted' = produced' /\ produced' = produced + 1
        BY <1>3, <2>1 DEF Chunk
      <3>2. produced' # Finished
        BY <3>1
      <3>3. prod' = "source" /\ delivered' = delivered /\ result' = "none"
        BY <1>3, <2>1 DEF Chunk, At, generator
      <3>4. Len(delivered) = produced
        BY <1>3, <2>1 DEF Chunk, At
      <3>5. QED
        BY <3>1, <3>2, <3>3, <3>4
    <2>2. CASE queue # <<>>
      BY <1>3, <2>2 DEF Chunk, At, generator
    <2>3. QED
      BY <2>1, <2>2
  <1>4. CASE ChunkRefused
    BY <1>4 DEF ChunkRefused, At, task, generator
  <1>5. CASE Put
    BY <1>5 DEF Put, At, task, generator
  <1>6. CASE Exhausted
    BY <1>6 DEF Exhausted, Ends, At, task, generator
  <1>7. CASE SourceFails
    BY <1>7 DEF SourceFails, Ends, At, task, generator
  <1>8. CASE Deadline
    BY <1>8 DEF Deadline, task, generator
  <1>9. CASE Interrupted
    BY <1>9 DEF Interrupted, Ends, Verdict, task, generator
  <1>10. CASE Closed
    BY <1>10 DEF Closed, Ends, Verdict, At, task, generator
  <1>11. CASE Start
    BY <1>11 DEF Start, task, generator
  <1>12. CASE Resume
    BY <1>12 DEF Resume, Leave, task, generator
  <1>13. CASE GetChunk
    BY <1>13 DEF GetChunk, task, generator
  <1>14. CASE GetFinished
    BY <1>14 DEF GetFinished, Leave, task, generator
  <1>15. CASE CallerCancels
    BY <1>15 DEF CallerCancels, Leave, task, generator
  <1>16. CASE CallerCancelsAgain
    BY <1>16 DEF CallerCancelsAgain, task, generator
  <1>17. CASE CallerCloses
    BY <1>17 DEF CallerCloses, Leave, task, generator
  <1>18. CASE CallerClosesUnstarted
    BY <1>18 DEF CallerClosesUnstarted, task, generator
  <1>19. CASE Cleaned
    BY <1>19 DEF Cleaned, task, generator
  <1>20. CASE UNCHANGED pumpVars
    BY <1>20 DEF pumpVars, task, generator
  <1>21. QED
    BY <1>1, <1>2, <1>3, <1>4, <1>5, <1>6, <1>7, <1>8, <1>9, <1>10, <1>11, <1>12, <1>13, <1>14, <1>15, <1>16, <1>17, <1>18, <1>19, <1>20 DEF PumpNext, Producer, Consumer

LEMMA ReportedKept == PumpTypeOK /\ PumpInv /\ [PumpNext]_pumpVars => Reported'
  <1> SUFFICES ASSUME PumpTypeOK, PumpInv, [PumpNext]_pumpVars PROVE Reported'
    OBVIOUS
  <1> USE DEF PumpTypeOK, PumpInv, Together, Counted, Reported, QueueEmptyOfChunks, Finished
  <1>1. CASE LeaseGranted
    BY <1>1 DEF LeaseGranted, At, task, generator
  <1>2. CASE LeaseRefused
    BY <1>2 DEF LeaseRefused, Ends, At, task, generator
  <1>3. CASE Chunk
    BY <1>3 DEF Chunk, At, task, generator
  <1>4. CASE ChunkRefused
    BY <1>4 DEF ChunkRefused, At, task, generator
  <1>5. CASE Put
    BY <1>5 DEF Put, At, task, generator
  <1>6. CASE Exhausted
    BY <1>6 DEF Exhausted, Ends, At, task, generator
  <1>7. CASE SourceFails
    BY <1>7 DEF SourceFails, Ends, At, task, generator
  <1>8. CASE Deadline
    BY <1>8 DEF Deadline, task, generator
  <1>9. CASE Interrupted
    BY <1>9 DEF Interrupted, Ends, Verdict, task, generator
  <1>10. CASE Closed
    BY <1>10 DEF Closed, Ends, Verdict, At, task, generator
  <1>11. CASE Start
    BY <1>11 DEF Start, task, generator
  <1>12. CASE Resume
    BY <1>12 DEF Resume, Leave, task, generator
  <1>13. CASE GetChunk
    BY <1>13 DEF GetChunk, task, generator
  <1>14. CASE GetFinished
    BY <1>14 DEF GetFinished, Leave, task, generator
  <1>15. CASE CallerCancels
    BY <1>15 DEF CallerCancels, Leave, task, generator
  <1>16. CASE CallerCancelsAgain
    BY <1>16 DEF CallerCancelsAgain, task, generator
  <1>17. CASE CallerCloses
    BY <1>17 DEF CallerCloses, Leave, task, generator
  <1>18. CASE CallerClosesUnstarted
    BY <1>18 DEF CallerClosesUnstarted, task, generator
  <1>19. CASE Cleaned
    BY <1>19 DEF Cleaned, task, generator
  <1>20. CASE UNCHANGED pumpVars
    BY <1>20 DEF pumpVars, task, generator
  <1>21. QED
    BY <1>1, <1>2, <1>3, <1>4, <1>5, <1>6, <1>7, <1>8, <1>9, <1>10, <1>11, <1>12, <1>13, <1>14, <1>15, <1>16, <1>17, <1>18, <1>19, <1>20 DEF PumpNext, Producer, Consumer

-----------------------------------------------------------------------------
LEMMA PumpInvInit == PumpInit => PumpInv
  BY PumpAssumption
  DEF PumpInit, PumpInv, Together, Counted, Reported, QueueEmptyOfChunks

\* Every variable keeps its type, however many chunks the graph yields.
THEOREM PumpTypeCorrect == PumpSpec => []PumpTypeOK
  BY PumpInitType, PumpNextType, PTL DEF PumpSpec

\* Producer, queue and consumer agree at every step; a consumer never waits
\* for a producer that is done and left nothing in the queue.
THEOREM PumpInvariant == PumpSpec => []PumpInv
  <1>1. PumpTypeOK /\ PumpInv /\ [PumpNext]_pumpVars => PumpInv'
    BY TogetherKept, CountedKept, ReportedKept DEF PumpInv
  <1>2. QED
    BY <1>1, PumpInvInit, PumpTypeCorrect, PTL DEF PumpSpec

\* A generator that is over leaves no producer and no lease behind, however
\* often the caller cancelled the cleanup.
THEOREM NothingLeftBehind == PumpSpec => []CleanEnd
  <1>1. PumpInv => CleanEnd
    BY DEF PumpInv, Together, CleanEnd
  <1>2. QED
    BY <1>1, PumpInvariant, PTL

LEMMA OnlyPlace == \A n \in Nat : n <= 1 => \A i \in 1..n : n = 1 /\ i = 1
  OBVIOUS

\* The sentinel is only seen of a producer that is done.
THEOREM SentinelAfterEnd == PumpSpec => []SentinelIsLast
  <1>1. PumpTypeOK /\ PumpInv => SentinelIsLast
    <2> SUFFICES ASSUME PumpTypeOK, PumpInv, NEW i \in 1..Len(queue),
                        queue[i] = Finished
                 PROVE  prod = "done" /\ i = Len(queue)
      BY DEF SentinelIsLast
    <2>0. queue \in Seq(Nat) /\ Len(queue) \in Nat /\ Len(queue) <= 1
      BY DEF PumpTypeOK
    <2>1. Len(queue) = 1 /\ i = 1
      BY <2>0, OnlyPlace
    <2>2. queue = <<Finished>>
      BY <2>1 DEF PumpTypeOK
    <2>3. QED
      BY <2>1, <2>2 DEF PumpInv, Counted
  <1>2. QED
    BY <1>1, PumpTypeCorrect, PumpInvariant, PTL

\* Chunks arrive in order and all of them arrive before an end or an error.
THEOREM ChunksDelivered == PumpSpec => []AllDelivered
  <1>1. PumpTypeOK /\ PumpInv => AllDelivered
    BY DEF PumpTypeOK, PumpInv, Counted, Reported, AllDelivered
  <1>2. QED
    BY <1>1, PumpTypeCorrect, PumpInvariant, PTL

\* A stream that failed never looks complete.
THEOREM ErrorsReported == PumpSpec => []ErrorSurfaces
  <1>1. PumpInv => ErrorSurfaces
    BY DEF PumpInv, Reported, ErrorSurfaces
  <1>2. QED
    BY <1>1, PumpInvariant, PTL

\* Every chunk once, in order, and an end only of a stream that came to one.
THEOREM StreamIsFaithful == PumpSpec => []StreamFaithful
  <1>1. AllDelivered /\ ErrorSurfaces => StreamFaithful
    BY DEF StreamFaithful
  <1>2. QED
    BY <1>1, ChunksDelivered, ErrorsReported, PTL
-----------------------------------------------------------------------------
(* What the scripts ask.                                                    *)

SentCalls == Calls({"sent"})

RequestSteps ==
    [kind : {"request"}, request : SentCalls, wanted : SUBSET Replies, sees : SUBSET (Nat \cup Users)]

\* An upload nothing has arrived of.
NewUploads == {upload \in Uploads : upload.got = 0}

\* Every step of a script is one of these.
Steps ==
    RequestSteps
    \cup [kind : {"upload"}, as : Users, wanted : SUBSET Replies, sees : SUBSET (Nat \cup Users),
          body : NewUploads]
    \cup [kind : {"look", "poll"}, acquired : Nat, released : SUBSET Nat]
    \cup [kind : {"subjects"}, users : SUBSET Users]
    \cup [kind : {"promote"}, user : Users]
    \cup [kind : {"unchanged"}, thread : Nat, owner : Users]
    \cup [kind : {"files"}, owners : SUBSET Users]

Ops == ThreadOps \cup AssistantOps \cup FileOps \cup {"query", "upload"}

LEMMA TokensAreUsers == A \in Users /\ B \in Users /\ D \in Users
  BY VerifierAssumption DEF A, B, D

LEMMA StepIsStep ==
  /\ RequestSteps \subseteq Steps
  /\ \A as \in People, op \in Ops, on \in People \cup Nat, wanted \in SUBSET Replies :
        Step(as, op, on, wanted) \in RequestSteps
  /\ \A step \in RequestSteps :
        /\ Waiting(step) \in RequestSteps
        /\ \A user \in People : Forging(step, user) \in RequestSteps
        /\ \A seen \in SUBSET (Nat \cup Users) : Seeing(step, seen) \in RequestSteps
  <1>1. RequestSteps \subseteq Steps
    BY DEF Steps
  <1>2. ASSUME NEW as \in People, NEW op \in Ops, NEW on \in People \cup Nat,
               NEW wanted \in SUBSET Replies
        PROVE  Step(as, op, on, wanted) \in RequestSteps
    <2>1. Request(as, op, on, as) \in SentCalls
      BY DEF Request, SentCalls, Calls, Ops, People
    <2>2. QED
      BY <2>1 DEF Step, RequestSteps
  <1>3. ASSUME NEW step \in RequestSteps
        PROVE  /\ Waiting(step) \in RequestSteps
               /\ \A user \in People : Forging(step, user) \in RequestSteps
               /\ \A seen \in SUBSET (Nat \cup Users) : Seeing(step, seen) \in RequestSteps
    <2>1. /\ [step.request EXCEPT !.waits = TRUE] \in SentCalls
          /\ \A user \in People :
                [step.request EXCEPT !.owner = user, !.claims = user] \in SentCalls
      BY DEF RequestSteps, SentCalls, Calls
    <2>2. QED
      BY <2>1 DEF Waiting, Forging, Seeing, RequestSteps
  <1>4. QED
    BY <1>1, <1>2, <1>3

LEMMA LooksAreSteps ==
  ASSUME NEW n \in Nat, NEW some \in SUBSET Nat
  PROVE  Leases("look", n, some) \in Steps /\ Leases("poll", n, some) \in Steps
  BY DEF Leases, Steps

LEMMA FilesAreSteps ==
  ASSUME NEW as \in Users, NEW size \in Nat, NEW intact \in BOOLEAN, NEW wanted \in SUBSET Replies
  PROVE  File(as, size, intact, wanted) \in Steps
  <1>1. Upload(size, size, intact) \in NewUploads
    BY DEF Upload, Uploads, NewUploads
  <1>2. QED
    BY <1>1 DEF File, Steps

\* The words the scripts are made of.
LEMMA Words ==
  /\ Nobody \in People /\ A \in People /\ B \in People /\ D \in People
  /\ Ops = ThreadOps \cup AssistantOps \cup FileOps \cup {"query", "upload"}
  /\ {"search", "create", "read", "run", "state", "background", "cancel", "write", "patch",
      "copy", "delete"} \subseteq Ops
  /\ {"assistant_search", "assistant_read", "assistant_create"} \subseteq Ops
  /\ {"file_list", "file_read", "file_delete", "tool_read", "query", "upload"} \subseteq Ops
  /\ Denied \in SUBSET Replies
  /\ {"ok", "answered", "unauthorized", "forbidden", "timeout", "interrupted", "idle", "absent",
      "invalid", "too_large", "conflict"} \subseteq Replies
  /\ \A n \in 0..4 : n \in People \cup Nat
  /\ {1} \in SUBSET (Nat \cup Users) /\ {2} \in SUBSET (Nat \cup Users)
  /\ {A} \in SUBSET (Nat \cup Users) /\ {B} \in SUBSET (Nat \cup Users)
  /\ Denied \cup {"conflict"} \in SUBSET Replies /\ FileMax + 1 \in Nat
  <1>1. Nobody \in People /\ A \in People /\ B \in People /\ D \in People
    BY TokensAreUsers DEF People
  <1>2. Denied \in SUBSET Replies /\ Denied \cup {"conflict"} \in SUBSET Replies
    BY DEF Denied, Replies
  <1>3. FileMax + 1 \in Nat
    BY UploadAssumption
  <1>4. QED
    BY <1>1, <1>2, <1>3, TokensAreUsers DEF Ops, ThreadOps, Reads, Changes, AssistantOps, FileOps, Replies, Statuses

LEMMA HttpPlanSteps ==
  /\ AnsweredPlan \in Seq(Steps)
  /\ CancelledPlan \in Seq(Steps)
  /\ TimeoutPlan \in Seq(Steps)
  <1>1. AnsweredPlan \in Seq(Steps)
    <2>1. /\ Step(Nobody, "search", 0, {"unauthorized", "forbidden"}) \in Steps
          /\ Step(A, "create", 0, {"ok"}) \in Steps
          /\ Step(B, "read", 1, Denied) \in Steps
          /\ Step(D, "read", 1, Denied) \in Steps
      BY Words, StepIsStep
    <2>2. /\ Step(B, "run", 1, Denied) \in Steps
          /\ Step(D, "run", 1, Denied) \in Steps
          /\ Forging(Step(A, "run", 1, {"answered"}), B) \in Steps
          /\ Step(A, "state", 1, {"answered"}) \in Steps
      BY Words, StepIsStep
    <2>3. /\ Step(B, "create", 0, {"ok"}) \in Steps
          /\ Step(B, "run", 2, {"answered"}) \in Steps
      BY Words, StepIsStep
    <2>4. /\ Leases("look", 1, {1}) \in Steps
          /\ Leases("look", 2, {2}) \in Steps
      BY LooksAreSteps
    <2>5. QED
      BY <2>1, <2>2, <2>3, <2>4 DEF AnsweredPlan
  <1>2. CancelledPlan \in Seq(Steps)
    <2>1. /\ Step(A, "create", 0, {"ok"}) \in Steps
          /\ Waiting(Step(A, "background", 3, {"ok"})) \in Steps
          /\ Step(A, "cancel", 3, {"ok"}) \in Steps
          /\ Step(A, "read", 3, {"interrupted"}) \in Steps
      BY Words, StepIsStep
    <2>2. /\ Leases("poll", 3, {2, 3}) \in Steps
          /\ Leases("poll", 3, {3}) \in Steps
      BY LooksAreSteps
    <2>3. QED
      BY <2>1, <2>2 DEF CancelledPlan
  <1>3. TimeoutPlan \in Seq(Steps)
    <2>1. /\ Step(B, "create", 0, {"ok"}) \in Steps
          /\ Waiting(Step(B, "run", 4, {"timeout"})) \in Steps
      BY Words, StepIsStep
    <2>2. Leases("look", 4, {4}) \in Steps
      BY LooksAreSteps
    <2>3. [kind |-> "subjects", users |-> {A, B}] \in Steps
      BY TokensAreUsers DEF Steps
    <2>4. QED
      BY <2>1, <2>2, <2>3 DEF TimeoutPlan
  <1>4. QED
    BY <1>1, <1>2, <1>3

LEMMA SmokePlanSteps ==
  /\ FilePlan \in Seq(Steps)
  /\ ThreadPlan \in Seq(Steps)
  /\ AdminPlan \in Seq(Steps)
  <1>1. FilePlan \in Seq(Steps)
    <2>1. /\ Step(Nobody, "query", 0, {"unauthorized"}) \in Steps
          /\ Step(Nobody, "search", 0, {"unauthorized"}) \in Steps
          /\ Seeing(Step(A, "file_list", A, {"ok"}), {A}) \in Steps
          /\ Step(A, "file_read", A, {"ok"}) \in Steps
      BY Words, StepIsStep
    <2>2. /\ Seeing(Step(B, "file_list", B, {"ok"}), {B}) \in Steps
          /\ Step(B, "file_read", B, {"ok"}) \in Steps
          /\ Step(B, "file_read", A, {"absent"}) \in Steps
          /\ Step(B, "file_delete", A, {"absent"}) \in Steps
      BY Words, StepIsStep
    <2>3. /\ Step(A, "tool_read", A, {"ok"}) \in Steps
          /\ Step(B, "tool_read", A, {"absent"}) \in Steps
      BY Words, StepIsStep
    <2>4. /\ File(A, 1, TRUE, {"ok"}) \in Steps
          /\ File(B, 1, TRUE, {"ok"}) \in Steps
          /\ File(A, 1, FALSE, {"invalid"}) \in Steps
          /\ File(A, FileMax + 1, TRUE, {"too_large"}) \in Steps
      BY Words, TokensAreUsers, FilesAreSteps
    <2>5. \A a, b, c, d, e, f, g, h, i, j, k, l, m, n \in Steps :
             <<a, b, c, d, e, f, g, h, i, j, k, l, m, n>> \in Seq(Steps)
      OBVIOUS
    <2>6. QED
      BY <2>1, <2>2, <2>3, <2>4, <2>5, Zenon DEF FilePlan
  <1>2. ThreadPlan \in Seq(Steps)
    <2>1. /\ Step(A, "assistant_search", 0, {"ok"}) \in Steps
          /\ Step(A, "assistant_read", 0, {"ok"}) \in Steps
          /\ Step(A, "assistant_create", 0, {"forbidden"}) \in Steps
          /\ Seeing(Forging(Step(A, "create", 0, {"ok"}), B), {1}) \in Steps
      BY Words, StepIsStep
    <2>2. /\ Seeing(Forging(Step(B, "create", 0, {"ok"}), A), {2}) \in Steps
          /\ Seeing(Step(A, "search", 0, {"ok"}), {1}) \in Steps
          /\ Seeing(Step(B, "search", 0, {"ok"}), {2}) \in Steps
          /\ Step(B, "read", 1, Denied) \in Steps
      BY Words, StepIsStep
    <2>3. /\ Step(B, "state", 1, Denied) \in Steps
          /\ Step(B, "write", 1, Denied) \in Steps
          /\ Step(B, "patch", 1, Denied) \in Steps
          /\ Step(B, "copy", 1, Denied \cup {"conflict"}) \in Steps
      BY Words, StepIsStep
    <2>4. /\ Step(B, "delete", 1, Denied) \in Steps
          /\ Step(B, "run", 1, Denied) \in Steps
      BY Words, StepIsStep
    <2>5. QED
      BY <2>1, <2>2, <2>3, <2>4 DEF ThreadPlan
  <1>3. AdminPlan \in Seq(Steps)
    <2>1. /\ [kind |-> "promote", user |-> B] \in Steps
          /\ [kind |-> "unchanged", thread |-> 1, owner |-> A] \in Steps
          /\ [kind |-> "files", owners |-> {B}] \in Steps
      BY TokensAreUsers DEF Steps
    <2>2. /\ Step(B, "read", 1, Denied) \in Steps
          /\ Step(B, "file_read", A, {"absent"}) \in Steps
          /\ Step(A, "read", 1, {"idle"}) \in Steps
          /\ Step(A, "file_delete", A, {"ok"}) \in Steps
      BY Words, StepIsStep
    <2>3. QED
      BY <2>1, <2>2 DEF AdminPlan
  <1>4. QED
    BY <1>1, <1>2, <1>3

LEMMA ScriptSteps ==
  ASSUME NEW p \in {"http", "smoke"}, NEW i \in Nat \ {0}, i <= Len(Plan(p))
  PROVE  Plan(p)[i] \in Steps
  <1>1. Plan(p) \in Seq(Steps)
    BY HttpPlanSteps, SmokePlanSteps DEF Plan
  <1>2. QED
    BY <1>1
-----------------------------------------------------------------------------
(* Who sees and changes what.                                               *)

\* A thread that lives belongs to whoever made it.
Owned ==
    \A t \in Ids :
        /\ threads[t].owner \in {Nobody, made[t]}
        /\ threads[t] = Unborn => made[t] = Nobody

\* Who got past authenticate is somebody, what the handler let through names its
\* caller as the owner, and only a run of one's own is cancelled.
Asks(c) ==
    call[c] # NoCall =>
        /\ call[c].phase \in {"authorized", "running", "cancelling"} => call[c].as # Nobody
        /\ call[c].phase = "authorized" => call[c].owner = call[c].as
        /\ call[c].phase = "cancelling" => call[c].on \in Ids /\ made[call[c].on] = call[c].as

Told(c) ==
    \A x \in told[c].seen :
        told[c].as # Nobody /\ (IF x \in Ids THEN made[x] ELSE x) = told[c].as

\* The run at work is its caller's, and its caller still waits for it.
OnItsBehalf ==
    run # NoRun =>
        /\ run.active \in {Nobody, run.user} /\ config.auth \in {Nobody, run.user}
        /\ acted \subseteq {run.user}
        /\ prod # "none" => config.claims = run.user /\ config.budget = "server"
        /\ run.thread # Query => run.thread \in Ids /\ made[run.thread] = run.user
        /\ ~run.background => Phase(run.client, "running") /\ call[run.client].as = run.user

TenantInv ==
    /\ TenantTypeOK
    /\ Owned
    /\ \A c \in Clients : Asks(c) /\ Told(c)

RunInv ==
    /\ RunsTypeOK
    /\ OnItsBehalf
    /\ run = NoRun => prod = "none"

\* A script is at one of its steps.
PlanInv == plan \in {"http", "smoke", "threads", "files"} /\ at \in Nat \ {0}
-----------------------------------------------------------------------------
(* The steps of a run.                                                      *)

\* The pump goes on; only StartRun starts its producer.
GoesOn ==
    /\ run # NoRun
    /\ PumpNext /\ (prod = "none" => prod' = "none")
    /\ UNCHANGED <<tenantVars, runVars>>

LEMMA ProducerSteps ==
  ASSUME Producer
  PROVE  PumpNext /\ (prod = "none" => prod' = "none")
  BY DEF Producer, PumpNext, LeaseGranted, LeaseRefused, Chunk, ChunkRefused, Put, Exhausted,
         SourceFails, Deadline, Interrupted, Closed, At

LEMMA ConsumerSteps ==
  ASSUME \/ Resume \/ GetChunk \/ GetFinished \/ CallerCancels
         \/ CallerCancelsAgain \/ CallerCloses \/ CallerClosesUnstarted \/ Cleaned
  PROVE  PumpNext /\ (prod = "none" => prod' = "none")
  <1>1. PumpNext
    BY DEF PumpNext, Consumer
  <1>2. UNCHANGED prod
    BY DEF Resume, GetChunk, GetFinished, CallerCancels, CallerCancelsAgain, CallerCloses,
           CallerClosesUnstarted, Cleaned, Leave, task
  <1>3. QED
    BY <1>1, <1>2

LEMMA GraphCases ==
  ASSUME GraphSteps
  PROVE  /\ GoesOn \/ StartRun \/ Act \/ RunReturns
         /\ UNCHANGED <<plan, at>>
  <1>1. UNCHANGED <<plan, at>>
    BY DEF GraphSteps, Pumps, Runs, DeadlinePasses
  <1>2. CASE \/ Runs(StartRun) \/ Runs(Act) \/ Runs(RunReturns)
    BY <1>1, <1>2 DEF Runs
  <1>3. CASE DeadlinePasses
    BY <1>1, <1>3, ProducerSteps DEF DeadlinePasses, PumpStep, GoesOn, Producer
  <1>4. CASE \/ Pumps(LeaseGranted) \/ Pumps(LeaseRefused) \/ Pumps(Chunk)
             \/ Pumps(ChunkRefused) \/ Pumps(Put)
    BY <1>1, <1>4, ProducerSteps DEF Pumps, Runs, PumpStep, GoesOn, Producer
  <1>5. CASE \/ Pumps(Exhausted) \/ Pumps(SourceFails) \/ Pumps(Interrupted) \/ Pumps(Closed)
    BY <1>1, <1>5, ProducerSteps DEF Pumps, Runs, PumpStep, GoesOn, Producer
  <1>6. CASE \/ Pumps(Resume) \/ Pumps(GetChunk) \/ Pumps(GetFinished) \/ Pumps(Cleaned)
    BY <1>1, <1>6, ConsumerSteps DEF Pumps, Runs, PumpStep, GoesOn
  <1>7. CASE \/ Pumps(CallerCancels) \/ Pumps(CallerCancelsAgain) \/ Pumps(CallerCloses)
             \/ Pumps(CallerClosesUnstarted)
    BY <1>1, <1>7, ConsumerSteps DEF Pumps, Runs, PumpStep, GoesOn
  <1>8. QED
    BY <1>2, <1>3, <1>4, <1>5, <1>6, <1>7 DEF GraphSteps

\* What moves the pump, and what leaves it alone.
LEMMA PumpMoves ==
  ASSUME VerifierNext
  PROVE  GoesOn \/ StartRun \/ RunReturns \/ UNCHANGED <<pumpVars>>
  <1>1. CASE GraphSteps
    BY <1>1, GraphCases DEF Act
  <1>2. CASE ServerSteps
    BY <1>2 DEF ServerSteps, Runs, BeginRun, QueryRejected, AskCancel, CancelAnswered
  <1>3. CASE ClientSteps
    BY <1>3 DEF ClientSteps
  <1>4. CASE ClientHears \/ ScriptSends \/ ScriptHears
    BY <1>4 DEF ClientHears, ScriptSends, ScriptHears
  <1>5. CASE ScriptLooks \/ ScriptPromotes \/ ScriptTimesOut \/ ScriptGivesUp
    BY <1>5 DEF ScriptLooks, ScriptPromotes, ScriptTimesOut, ScriptGivesUp, graphVars
  <1>6. QED
    BY <1>1, <1>2, <1>3, <1>4, <1>5 DEF VerifierNext

LEMMA PumpKept == PumpTypeOK /\ PumpInv /\ [VerifierNext]_verifierVars => PumpTypeOK' /\ PumpInv'
  <1> SUFFICES ASSUME PumpTypeOK, PumpInv, [VerifierNext]_verifierVars
               PROVE  PumpTypeOK' /\ PumpInv'
    OBVIOUS
  <1>1. CASE [PumpNext]_pumpVars
    BY <1>1, PumpNextType, TogetherKept, CountedKept, ReportedKept DEF PumpInv
  <1>2. CASE PumpInit'
    BY <1>2, PumpInitType, PumpInvInit, PTL
  <1>3. CASE GoesOn \/ StartRun
    BY <1>1, <1>3 DEF GoesOn, StartRun, PumpNext, Consumer
  <1>4. CASE RunReturns
    BY <1>2, <1>4 DEF RunReturns, PumpInit
  <1>5. CASE UNCHANGED pumpVars
    BY <1>1, <1>5
  <1>6. CASE UNCHANGED verifierVars
    BY <1>5, <1>6 DEF verifierVars, graphVars
  <1>7. QED
    BY <1>3, <1>4, <1>5, <1>6, PumpMoves

LEMMA PumpAlways == VerifierSpec => [](PumpTypeOK /\ PumpInv)
  <1>1. VerifierInit => PumpTypeOK /\ PumpInv
    BY PumpInitType, PumpInvInit DEF VerifierInit, RunsInit
  <1>2. QED
    BY <1>1, PumpKept, PTL DEF VerifierSpec

\* The stream of every run of the whole system leaves nothing behind.
THEOREM RunsEndClean == VerifierSpec => []CleanEnd
  <1>1. PumpTypeOK /\ PumpInv => CleanEnd
    BY DEF PumpTypeOK, PumpInv, Together, CleanEnd
  <1>2. QED
    BY <1>1, PumpAlways, PTL

\* Every run of the whole system streams what its graph yields.
THEOREM RunsStreamFaithfully == VerifierSpec => []StreamFaithful
  <1>1. PumpTypeOK /\ PumpInv => AllDelivered
    BY DEF PumpTypeOK, PumpInv, Counted, Reported, AllDelivered
  <1>2. PumpInv => ErrorSurfaces
    BY DEF PumpInv, Reported, ErrorSurfaces
  <1>3. PumpTypeOK /\ PumpInv => StreamFaithful
    BY <1>1, <1>2 DEF StreamFaithful
  <1>4. QED
    BY <1>3, PumpAlways, PTL
-----------------------------------------------------------------------------
(* The steps of a request.                                                  *)

\* Nobody loses what they made.
Stable == \A t \in Ids : made[t] # Nobody => made'[t] = made[t]

\* One client's request moves on; it is not one that waits for its run.
Moves(c) ==
    /\ ~Phase(c, "running")
    /\ TenantTypeOK' /\ Owned' /\ Stable
    /\ \A d \in Clients \ {c} : call'[d] = call[d] /\ told'[d] = told[d]
    /\ Asks(c)' /\ Told(c)'

\* Who waits for a run still does.
StillWait == \A c \in Clients : Phase(c, "running") => call'[c] = call[c]

LEMMA OthersKeep ==
  ASSUME TenantInv, NEW d \in Clients, Stable, call'[d] = call[d], told'[d] = told[d]
  PROVE  Asks(d)' /\ Told(d)'
  <1>1. Asks(d) /\ Told(d)
    BY DEF TenantInv
  <1>2. Asks(d)'
    BY <1>1 DEF Asks, Stable
  <1>3. Told(d)'
    BY <1>1 DEF Told, Stable
  <1>4. QED
    BY <1>2, <1>3

LEMMA MovesKeep ==
  ASSUME TenantInv, NEW c \in Clients, Moves(c)
  PROVE  TenantInv' /\ StillWait
  <1>1. \A d \in Clients \ {c} : Asks(d)' /\ Told(d)'
    BY OthersKeep DEF Moves
  <1>2. \A d \in Clients : Asks(d)' /\ Told(d)'
    BY <1>1 DEF Moves
  <1>3. StillWait
    BY DEF Moves, StillWait
  <1>4. QED
    BY <1>2, <1>3 DEF Moves, TenantInv

LEMMA NothingMoves ==
  ASSUME TenantInv, TenantTypeOK', UNCHANGED <<threads, made, call, told>>
  PROVE  TenantInv' /\ Stable /\ StillWait
  <1>1. Stable /\ StillWait
    BY DEF Stable, StillWait
  <1>2. \A d \in Clients : Asks(d)' /\ Told(d)'
    BY <1>1, OthersKeep
  <1>3. Owned'
    BY DEF TenantInv, Owned
  <1>4. QED
    BY <1>1, <1>2, <1>3 DEF TenantInv

\* An answer changes the call and the answer of its client.
LEMMA AnswerMoves ==
  ASSUME TenantTypeOK, NEW c \in Clients, call[c] # NoCall,
         NEW status \in Replies, NEW seen \in SUBSET (Ids \cup Users), Answer(c, status, seen)
  PROVE  /\ call' \in [Clients ->
               Calls({"sent", "authorized", "running", "cancelling", "uploading"}) \cup {NoCall}]
         /\ told' \in [Clients -> [as : People, status : Replies, seen : SUBSET (Ids \cup Users)]]
         /\ \A d \in Clients \ {c} : call'[d] = call[d] /\ told'[d] = told[d]
         /\ call'[c] = NoCall /\ told'[c].as = call[c].as /\ told'[c].seen = seen
  <1>1. call[c].as \in People
    BY DEF TenantTypeOK, Calls
  <1>2. QED
    BY <1>1 DEF TenantTypeOK, Answer

\* An answer that shows what is its caller's and changes no thread.
LEMMA AnsweredMoves ==
  ASSUME TenantInv, NEW c \in Clients, call[c] # NoCall, call[c].phase # "running",
         NEW status \in Replies, NEW seen \in SUBSET (Ids \cup Users), Answer(c, status, seen),
         \A x \in seen : call[c].as # Nobody /\ (IF x \in Ids THEN made[x] ELSE x) = call[c].as,
         UploadTypeOK', UNCHANGED <<admins, threads, made>>, files' \subseteq Users
  PROVE  Moves(c)
  <1>1. TenantTypeOK'
    BY AnswerMoves DEF TenantInv, TenantTypeOK
  <1>2. Owned' /\ Stable
    BY DEF TenantInv, Owned, Stable
  <1>3. Asks(c)' /\ Told(c)'
    BY AnswerMoves DEF TenantInv, Asks, Told
  <1>4. QED
    BY <1>1, <1>2, <1>3, AnswerMoves DEF Moves, Phase, TenantInv

\* A request that is sent says nothing yet.
LEMMA SentMoves ==
  ASSUME TenantInv, NEW c \in Clients, NEW request \in Calls({"sent", "uploading"}),
         Send(c, request), UploadTypeOK', UNCHANGED <<admins, threads, made, files>>
  PROVE  Moves(c)
  <1>1. Untold \in [as : People, status : Replies, seen : SUBSET (Ids \cup Users)]
    BY DEF Untold, People, Replies, Statuses
  <1>2. request \in Calls({"sent", "authorized", "running", "cancelling", "uploading"})
    BY DEF Calls
  <1>3. TenantTypeOK'
    BY <1>1, <1>2 DEF TenantInv, TenantTypeOK, Send
  <1>4. Owned' /\ Stable
    BY DEF TenantInv, Owned, Stable
  <1>5. call'[c] = request /\ told'[c] = Untold
    BY DEF Send, TenantInv, TenantTypeOK
  <1>6. Asks(c)' /\ Told(c)'
    BY <1>5 DEF Asks, Told, Untold, Calls
  <1>7. QED
    BY <1>3, <1>4, <1>6 DEF Moves, Send, Phase, TenantInv, TenantTypeOK
-----------------------------------------------------------------------------
(* Uploads.                                                                 *)

LEMMA RefusalWords == \A b : Refusal(b) \in {"invalid", "too_large", "none"}
  BY DEF Refusal

LEMMA FittingBody ==
  ASSUME NEW b \in Uploads, Refusal(b) = "none"
  PROVE  b.got <= RequestMax
  BY UploadAssumption DEF Refusal, Uploads

LEMMA ReceiveKeeps ==
  ASSUME UploadTypeOK, NEW c \in Clients, Receive(c)
  PROVE  UploadTypeOK' /\ (UploadsWhole => UploadsWhole')
  <1>1. body[c] \in Uploads /\ body[c].got <= RequestMax
    BY FittingBody DEF Receive, UploadTypeOK
  <1>2. PICK n \in 1..ChunkMax : body' = [body EXCEPT ![c].got = @ + n]
    BY DEF Receive
  <1>3. n \in Nat /\ n <= ChunkMax
    BY UploadAssumption
  <1>4. body[c].got + n \in Nat /\ body[c].got + n <= RequestMax + ChunkMax
    BY <1>1, <1>3, UploadAssumption DEF Uploads
  <1>5. [body[c] EXCEPT !.got = body[c].got + n] \in Uploads
    BY <1>1, <1>4 DEF Uploads
  <1>6. body' = [body EXCEPT ![c] = [body[c] EXCEPT !.got = body[c].got + n]] /\ UNCHANGED handed
    BY <1>2 DEF Receive
  <1>7. UploadTypeOK'
    BY <1>5, <1>6 DEF UploadTypeOK
  <1>8. body'[c].got <= RequestMax + ChunkMax /\ \A d \in Clients \ {c} : body'[d] = body[d]
    BY <1>1, <1>4, <1>6 DEF UploadTypeOK, Uploads
  <1>9. UploadsWhole => UploadsWhole'
    BY <1>6, <1>8 DEF UploadsWhole
  <1>10. QED
    BY <1>7, <1>9

LEMMA BodyEnds ==
  ASSUME UploadTypeOK, NEW c \in Clients, BodyRefused(c) \/ Disconnect(c) \/ Replay(c)
  PROVE  UploadTypeOK' /\ (UploadsWhole => UploadsWhole')
  <1>1. body' = [body EXCEPT ![c] = NoBody]
    BY DEF BodyRefused, Disconnect, Replay, BodyDone
  <1>2. body' \in [Clients -> Uploads \cup {NoBody}]
    BY <1>1 DEF UploadTypeOK
  <1>3. CASE BodyRefused(c) \/ Disconnect(c)
    BY <1>1, <1>2, <1>3 DEF BodyRefused, Disconnect, UploadTypeOK, UploadsWhole
  <1>4. CASE Replay(c)
    <2>1. body[c] \in Uploads /\ body[c].got = body[c].size /\ body[c].got <= RequestMax
      BY <1>4, FittingBody DEF Replay, UploadTypeOK
    <2>2. handed' = [handed EXCEPT ![c] = [bytes |-> body[c].got, size |-> body[c].size]]
      BY <1>4 DEF Replay
    <2>3. UploadTypeOK'
      BY <1>2, <2>1, <2>2 DEF UploadTypeOK, Uploads
    <2>4. UploadsWhole => UploadsWhole'
      BY <1>1, <2>1, <2>2 DEF UploadTypeOK, UploadsWhole
    <2>5. QED
      BY <2>3, <2>4
  <1>5. QED
    BY <1>3, <1>4

LEMMA BodyStarts ==
  ASSUME UploadTypeOK, NEW c \in Clients, NEW b \in NewUploads,
         body' = [body EXCEPT ![c] = b], handed' = [handed EXCEPT ![c] = NoBody]
  PROVE  UploadTypeOK' /\ (UploadsWhole => UploadsWhole')
  <1>1. b \in Uploads /\ b.got <= RequestMax + ChunkMax
    BY UploadAssumption DEF NewUploads
  <1>2. UploadTypeOK'
    BY <1>1 DEF UploadTypeOK
  <1>3. UploadsWhole => UploadsWhole'
    BY <1>1 DEF UploadTypeOK, UploadsWhole
  <1>4. QED
    BY <1>2, <1>3

LEMMA NoUploadMoves ==
  ASSUME UploadTypeOK, UNCHANGED <<body, handed>>
  PROVE  UploadTypeOK' /\ (UploadsWhole => UploadsWhole')
  BY DEF UploadTypeOK, UploadsWhole
-----------------------------------------------------------------------------
(* The server's answers.                                                    *)

\* A caller who got past authenticate sees its own threads.
LEMMA VisibleIsOwn ==
  ASSUME TenantInv, NEW c \in Clients, Phase(c, "authorized"), NEW t \in Visible(call[c])
  PROVE  /\ t \in Ids /\ call[c].as # Nobody /\ call[c].owner = call[c].as
         /\ threads[t].owner = call[c].as /\ made[t] = call[c].as
  <1>1. t \in Ids /\ threads[t].owner = call[c].as
    BY DEF Visible
  <1>2. call[c].as # Nobody /\ call[c].owner = call[c].as
    BY DEF TenantInv, Asks, Phase
  <1>3. QED
    BY <1>1, <1>2 DEF TenantInv, Owned

LEMMA AuthorizeMoves ==
  ASSUME TenantInv, NEW c \in Clients, Authorize(c)
  PROVE  Moves(c)
  <1>1. UploadTypeOK' /\ files' \subseteq Users /\ UNCHANGED <<admins, threads, made>>
    BY NoUploadMoves DEF TenantInv, TenantTypeOK, Authorize
  <1>2. call[c] # NoCall /\ call[c].phase = "sent"
    BY DEF Authorize, Phase
  <1>3. "unauthorized" \in Replies /\ "forbidden" \in Replies
    BY DEF Replies
  <1>4. CASE Answer(c, "unauthorized", {}) \/ Answer(c, "forbidden", {})
    BY <1>1, <1>2, <1>3, <1>4, AnsweredMoves
  <1>5. CASE /\ call[c].as # Nobody
             /\ call' = [call EXCEPT ![c] = Authorized(call[c])] /\ UNCHANGED told
    <2>1. call[c] \in Calls({"sent", "authorized", "running", "cancelling", "uploading"})
      BY <1>2 DEF TenantInv, TenantTypeOK
    <2>2. /\ Authorized(call[c]) \in Calls({"sent", "authorized", "running", "cancelling", "uploading"})
          /\ Authorized(call[c]).owner = call[c].as /\ Authorized(call[c]).as = call[c].as
          /\ Authorized(call[c]).phase = "authorized"
      BY <2>1 DEF Authorized, OwnerForced, Calls
    <2>3. TenantTypeOK' /\ call'[c] = Authorized(call[c])
      BY <1>1, <1>5, <2>2 DEF TenantInv, TenantTypeOK
    <2>4. Owned' /\ Stable
      BY <1>1 DEF TenantInv, Owned, Stable
    <2>5. Asks(c)'
      BY <1>5, <2>2, <2>3 DEF Asks
    <2>6. Told(c)'
      BY <1>1, <1>5 DEF TenantInv, Told
    <2>7. QED
      BY <1>2, <1>5, <2>3, <2>4, <2>5, <2>6 DEF Moves, Phase, TenantInv, TenantTypeOK
  <1>6. QED
    BY <1>4, <1>5 DEF Authorize

LEMMA ReadsMove ==
  ASSUME TenantInv, NEW c \in Clients,
         Searched(c) \/ NotVisible(c) \/ ReadThread(c) \/ ReadAssistant(c)
  PROVE  Moves(c)
  <1>1. UploadTypeOK' /\ files' \subseteq Users /\ UNCHANGED <<admins, threads, made>>
    BY NoUploadMoves DEF TenantInv, TenantTypeOK, Searched, NotVisible, ReadThread, ReadAssistant
  <1>2. call[c] # NoCall /\ call[c].phase = "authorized" /\ Phase(c, "authorized")
    BY DEF Searched, NotVisible, ReadThread, ReadAssistant, Phase
  <1>3. "ok" \in Replies /\ "absent" \in Replies /\ \A t \in Ids : threads[t].status \in Replies
    BY DEF Replies, TenantInv, TenantTypeOK
  <1>4. CASE Answer(c, "ok", {}) \/ Answer(c, "absent", {})
    BY <1>1, <1>2, <1>3, <1>4, AnsweredMoves
  <1>5. CASE Answer(c, "ok", Visible(call[c]))
    <2>1. Visible(call[c]) \in SUBSET (Ids \cup Users)
      BY DEF Visible
    <2>2. \A x \in Visible(call[c]) : call[c].as # Nobody /\ x \in Ids /\ made[x] = call[c].as
      BY <1>2, VisibleIsOwn
    <2>3. QED
      BY <1>1, <1>2, <1>3, <1>5, <2>1, <2>2, AnsweredMoves
  <1>6. CASE ReadThread(c)
    <2>1. call[c].on \in Visible(call[c])
      BY <1>6 DEF ReadThread
    <2>2. call[c].on \in Ids /\ call[c].as # Nobody /\ made[call[c].on] = call[c].as
      BY <1>2, <2>1, VisibleIsOwn
    <2>3. {call[c].on} \in SUBSET (Ids \cup Users) /\ threads[call[c].on].status \in Replies
      BY <1>3, <2>2
    <2>4. Answer(c, threads[call[c].on].status, {call[c].on})
      BY <1>6 DEF ReadThread
    <2>5. QED
      BY <1>1, <1>2, <2>2, <2>3, <2>4, AnsweredMoves
  <1>7. QED
    BY <1>4, <1>5, <1>6 DEF Searched, NotVisible, ReadAssistant

\* A thread that is made or changed stays its owner's.
LEMMA ThreadMoves ==
  ASSUME TenantInv, NEW c \in Clients, Phase(c, "authorized"), NEW t \in Ids,
         NEW thread \in [owner : People, changed : BOOLEAN, status : Statuses], thread # Unborn,
         threads' = [threads EXCEPT ![t] = thread],
         \/ UNCHANGED made /\ thread.owner \in {Nobody, made[t]}
         \/ made' = [made EXCEPT ![t] = call[c].as] /\ made[t] = Nobody /\ thread.owner = call[c].as,
         made'[t] = call[c].as, Answer(c, "ok", {t}), UNCHANGED <<admins, files, body, handed>>
  PROVE  Moves(c)
  <1>1. call[c] # NoCall /\ call[c].phase = "authorized" /\ call[c].as # Nobody
    BY DEF Phase, TenantInv, Asks
  <1>2. call[c].as \in People
    BY <1>1 DEF TenantInv, TenantTypeOK, Calls
  <1>3. "ok" \in Replies /\ {t} \in SUBSET (Ids \cup Users)
    BY DEF Replies
  <1>4. /\ call' \in [Clients ->
               Calls({"sent", "authorized", "running", "cancelling", "uploading"}) \cup {NoCall}]
        /\ told' \in [Clients -> [as : People, status : Replies, seen : SUBSET (Ids \cup Users)]]
        /\ \A d \in Clients \ {c} : call'[d] = call[d] /\ told'[d] = told[d]
        /\ call'[c] = NoCall /\ told'[c].as = call[c].as /\ told'[c].seen = {t}
    BY <1>1, <1>3, AnswerMoves DEF TenantInv
  <1>5. TenantTypeOK'
    BY <1>2, <1>4, NoUploadMoves DEF TenantInv, TenantTypeOK
  <1>6. Stable /\ \A s \in Ids \ {t} : made'[s] = made[s] /\ threads'[s] = threads[s]
    BY DEF Stable, TenantInv, TenantTypeOK
  <1>7. threads'[t] = thread /\ thread.owner \in {Nobody, made'[t]}
    BY DEF TenantInv, TenantTypeOK
  <1>8. Owned'
    BY <1>6, <1>7 DEF TenantInv, Owned
  <1>9. Asks(c)' /\ Told(c)'
    BY <1>1, <1>4 DEF Asks, Told
  <1>10. QED
    BY <1>1, <1>4, <1>5, <1>6, <1>8, <1>9 DEF Moves, Phase

LEMMA CreatedMoves ==
  ASSUME TenantInv, NEW c \in Clients, Created(c)
  PROVE  Moves(c)
  <1>1. PICK t \in Ids : /\ IsNext(t) /\ threads' = [threads EXCEPT ![t] = Fresh(call[c].owner)]
                         /\ made' = [made EXCEPT ![t] = call[c].as] /\ Answer(c, "ok", {t})
    BY DEF Created
  <1>2. Phase(c, "authorized") /\ call[c].owner = call[c].as /\ call[c].as \in People
    BY DEF Created, Phase, TenantInv, Asks, TenantTypeOK, Calls
  <1>3. made[t] = Nobody /\ made'[t] = call[c].as
    BY <1>1 DEF IsNext, TenantInv, Owned, TenantTypeOK
  <1>4. /\ Fresh(call[c].owner) \in [owner : People, changed : BOOLEAN, status : Statuses]
        /\ Fresh(call[c].owner) # Unborn /\ Fresh(call[c].owner).owner = call[c].as
    BY <1>2 DEF Fresh, Unborn, Statuses
  <1>5. UNCHANGED <<admins, files, body, handed>>
    BY DEF Created
  <1>6. QED
    BY <1>1, <1>2, <1>3, <1>4, <1>5, ThreadMoves

LEMMA ChangeMoves ==
  ASSUME TenantInv, NEW c \in Clients, NEW busy, ChangeThread(c, busy)
  PROVE  Moves(c)
  <1> DEFINE t == call[c].on
  <1>1. Phase(c, "authorized") /\ call[c] # NoCall /\ call[c].phase = "authorized"
    BY DEF ChangeThread, Phase
  <1>2. /\ t \in Ids /\ call[c].as # Nobody /\ call[c].owner = call[c].as /\ call[c].as \in People
        /\ threads[t].owner = call[c].as /\ made[t] = call[c].as
    BY <1>1, VisibleIsOwn DEF ChangeThread, TenantInv, TenantTypeOK, Calls
  <1>3. threads[t] \in [owner : People, changed : BOOLEAN, status : Statuses]
    BY <1>2 DEF TenantInv, TenantTypeOK
  <1>4. UNCHANGED <<admins, files, body, handed>>
    BY DEF ChangeThread
  <1>5. CASE Answer(c, "conflict", {}) /\ UNCHANGED <<threads, made>>
    <2>1. UploadTypeOK' /\ files' \subseteq Users
      BY <1>4, NoUploadMoves DEF TenantInv, TenantTypeOK
    <2>2. "conflict" \in Replies
      BY DEF Replies
    <2>3. QED
      BY <1>1, <1>4, <1>5, <2>1, <2>2, AnsweredMoves
  <1>6. CASE /\ threads' = [threads EXCEPT ![t].changed = TRUE, ![t].owner = call[c].owner]
             /\ UNCHANGED made /\ Answer(c, "ok", {t})
    <2> DEFINE new == [threads[t] EXCEPT !.changed = TRUE, !.owner = call[c].owner]
    <2>1. threads' = [threads EXCEPT ![t] = new]
      BY <1>2, <1>3, <1>6 DEF TenantInv, TenantTypeOK
    <2>2. new \in [owner : People, changed : BOOLEAN, status : Statuses] /\ new.owner = call[c].as
      BY <1>2, <1>3
    <2>3. new # Unborn /\ made'[t] = call[c].as
      BY <1>2, <1>6, <2>2 DEF Unborn
    <2>4. QED
      BY <1>1, <1>2, <1>4, <1>6, <2>1, <2>2, <2>3, ThreadMoves
  <1>7. CASE threads' = [threads EXCEPT ![t] = Deleted] /\ UNCHANGED made /\ Answer(c, "ok", {t})
    <2>1. /\ Deleted \in [owner : People, changed : BOOLEAN, status : Statuses]
          /\ Deleted # Unborn /\ Deleted.owner = Nobody
      BY DEF Deleted, Unborn, People, Statuses
    <2>2. QED
      BY <1>1, <1>2, <1>4, <1>7, <2>1, ThreadMoves
  <1>8. ASSUME NEW new \in Ids, IsNext(new), threads' = [threads EXCEPT ![new] = threads[t]],
               made' = [made EXCEPT ![new] = call[c].as], Answer(c, "ok", {new})
        PROVE  Moves(c)
    <2>1. made[new] = Nobody /\ made'[new] = call[c].as
      BY <1>8 DEF IsNext, TenantInv, Owned, TenantTypeOK
    <2>2. threads[t] # Unborn
      BY <1>2 DEF TenantInv, Owned
    <2>3. QED
      BY <1>1, <1>2, <1>3, <1>4, <1>8, <2>1, <2>2, ThreadMoves
  <1>9. QED
    BY <1>5, <1>6, <1>7, <1>8 DEF ChangeThread

LEMMA UsersAreNoThreads == \A u \in Users : u \notin Ids /\ u # Nobody
  <1>1. \A t \in Ids : t \in 0..MaxThreads
    BY TenantAssumption DEF Ids
  <1>2. QED
    BY <1>1, TenantAssumption

LEMMA FileCallMoves ==
  ASSUME TenantInv, NEW c \in Clients, FileCall(c)
  PROVE  Moves(c)
  <1> DEFINE as == call[c].as
             f == call[c].on
  <1>1. call[c] # NoCall /\ call[c].phase = "sent"
    BY DEF FileCall, Phase
  <1>2. files \subseteq Users
    BY DEF TenantInv, TenantTypeOK
  <1>3. UploadTypeOK' /\ UNCHANGED <<admins, threads, made>>
    BY NoUploadMoves DEF FileCall, TenantInv, TenantTypeOK
  <1>4. {"ok", "absent", "unauthorized"} \subseteq Replies
    BY DEF Replies
  <1>5. files' \subseteq Users
    BY <1>2 DEF FileCall
  <1>6. CASE Answer(c, "unauthorized", {}) \/ Answer(c, "absent", {})
    BY <1>1, <1>3, <1>4, <1>5, <1>6, AnsweredMoves
  <1>7. CASE Answer(c, "ok", {g \in files : OwnFile(as, g)})
    <2> DEFINE own == {g \in files : OwnFile(as, g)}
    <2>1. \A x \in own : x \in Users /\ x = as
      BY <1>2 DEF OwnFile
    <2>2. own \in SUBSET (Ids \cup Users)
      BY <2>1
    <2>3. \A x \in own : as # Nobody /\ (IF x \in Ids THEN made[x] ELSE x) = as
      BY <2>1, UsersAreNoThreads
    <2>4. "ok" \in Replies
      BY <1>4
    <2>5. Answer(c, "ok", own)
      BY <1>7
    <2> HIDE DEF own
    <2>6. QED
      BY <1>1, <1>3, <1>5, <2>2, <2>3, <2>4, <2>5, AnsweredMoves
  <1>8. CASE OwnFile(as, f) /\ Answer(c, "ok", {f})
    <2>1. f \in Users /\ f = as
      BY <1>2, <1>8 DEF OwnFile
    <2>2. {f} \in SUBSET (Ids \cup Users) /\ "ok" \in Replies
      BY <1>4, <2>1
    <2>3. \A x \in {f} : as # Nobody /\ (IF x \in Ids THEN made[x] ELSE x) = as
      BY <2>1, UsersAreNoThreads
    <2>4. QED
      BY <1>1, <1>3, <1>5, <1>8, <2>2, <2>3, AnsweredMoves
  <1>9. QED
    BY <1>6, <1>7, <1>8 DEF FileCall

LEMMA UploadEndsMoves ==
  ASSUME TenantInv, NEW c \in Clients, UploadEnds(c) \/ UploadBreaks(c)
  PROVE  Moves(c) /\ (UploadsWhole => UploadsWhole')
  <1> DEFINE as == call[c].as
  <1>1. /\ call[c] # NoCall /\ call[c].phase = "uploading"
        /\ UNCHANGED <<admins, threads, made>>
    BY DEF UploadEnds, UploadBreaks, Phase
  <1>2. UploadTypeOK' /\ (UploadsWhole => UploadsWhole')
    BY BodyEnds DEF UploadEnds, UploadBreaks, TenantInv, TenantTypeOK
  <1>3. files \subseteq Users /\ as \in Users \cup {Nobody}
    BY <1>1 DEF TenantInv, TenantTypeOK, Calls, People
  <1>4. /\ "unauthorized" \in Replies /\ "conflict" \in Replies /\ "ok" \in Replies
        /\ "too_large" \in Replies /\ "invalid" \in Replies
    BY DEF Replies
  <1>5. ASSUME NEW status \in Replies, Answer(c, status, {}), files' = files
        PROVE  Moves(c)
    BY <1>1, <1>2, <1>3, <1>5, AnsweredMoves
  <1>6. CASE UploadBreaks(c)
    BY <1>2, <1>4, <1>5, <1>6 DEF UploadBreaks
  <1>7. CASE BodyRefused(c) /\ Answer(c, Refusal(body[c]), {}) /\ UNCHANGED files
    <2>1. Refusal(body[c]) \in Replies
      BY <1>4, <1>7, RefusalWords DEF BodyRefused
    <2>2. QED
      BY <1>2, <1>5, <1>7, <2>1
  <1>8. CASE /\ as = Nobody /\ Answer(c, "unauthorized", {}) /\ UNCHANGED files
    BY <1>2, <1>4, <1>5, <1>8
  <1>9. CASE Answer(c, FileVerdict(body[c]), {}) /\ FileVerdict(body[c]) # "stored" /\ UNCHANGED files
    <2>1. FileVerdict(body[c]) \in Replies
      BY <1>4, <1>9 DEF FileVerdict
    <2>2. QED
      BY <1>2, <1>5, <1>9, <2>1
  <1>10. CASE Answer(c, "conflict", {}) /\ UNCHANGED files
    BY <1>2, <1>4, <1>5, <1>10
  <1>11. CASE as # Nobody /\ Answer(c, "ok", {as}) /\ files' = files \cup {as}
    <2>1. as \in Users /\ files' \subseteq Users
      BY <1>3, <1>11
    <2>2. {as} \in SUBSET (Ids \cup Users)
      BY <2>1
    <2>3. \A x \in {as} : as # Nobody /\ (IF x \in Ids THEN made[x] ELSE x) = as
      BY <2>1, UsersAreNoThreads
    <2>4. QED
      BY <1>1, <1>2, <1>4, <1>11, <2>1, <2>2, <2>3, AnsweredMoves
  <1>12. QED
    BY <1>6, <1>7, <1>8, <1>9, <1>10, <1>11 DEF UploadEnds

\* What one step means for who owns what, who waits for a run, and the uploads.
StepKeeps ==
    /\ TenantInv' /\ Stable /\ StillWait
    /\ (UploadsWhole => UploadsWhole')

LEMMA TenantStepKeeps ==
  ASSUME TenantInv, NEW c \in Clients, NEW busy, TenantStep(c, busy) \/ UploadBreaks(c)
  PROVE  StepKeeps
  <1>1. CASE \/ Authorize(c) \/ Searched(c) \/ Created(c) \/ NotVisible(c) \/ ReadThread(c)
             \/ ChangeThread(c, busy) \/ ReadAssistant(c) \/ FileCall(c)
    <2>1. Moves(c)
      BY <1>1, AuthorizeMoves, ReadsMove, CreatedMoves, ChangeMoves, FileCallMoves
    <2>2. UNCHANGED <<body, handed>>
      BY <1>1 DEF Authorize, Searched, Created, NotVisible, ReadThread, ChangeThread,
                  ReadAssistant, FileCall
    <2>3. UploadTypeOK /\ Stable
      BY <2>1 DEF TenantInv, TenantTypeOK, Moves
    <2>4. QED
      BY <2>1, <2>2, <2>3, MovesKeep, NoUploadMoves DEF StepKeeps
  <1>2. CASE UploadEnds(c) \/ UploadBreaks(c)
    BY <1>2, UploadEndsMoves, MovesKeep DEF StepKeeps, Moves
  <1>3. CASE UploadContinues(c)
    <2>1. UploadTypeOK' /\ (UploadsWhole => UploadsWhole')
      BY <1>3, ReceiveKeeps DEF UploadContinues, TenantInv, TenantTypeOK
    <2>2. TenantTypeOK' /\ UNCHANGED <<threads, made, call, told>>
      BY <1>3, <2>1 DEF UploadContinues, TenantInv, TenantTypeOK
    <2>3. QED
      BY <2>1, <2>2, NothingMoves DEF StepKeeps
  <1>4. QED
    BY <1>1, <1>2, <1>3 DEF TenantStep

\* A query nobody may make is refused, a cancellation is asked for and answered.
LEMMA CancelStepsKeep ==
  ASSUME TenantInv, NEW c \in Clients, QueryRejected(c) \/ AskCancel(c) \/ CancelAnswered(c)
  PROVE  StepKeeps
  <1>1. /\ UNCHANGED <<admins, threads, made, files, body, handed>>
        /\ UploadTypeOK' /\ files' \subseteq Users /\ (UploadsWhole => UploadsWhole')
    BY NoUploadMoves DEF QueryRejected, AskCancel, CancelAnswered, TenantInv, TenantTypeOK
  <1>2. call[c] # NoCall /\ call[c].phase # "running"
    BY DEF QueryRejected, AskCancel, CancelAnswered, Phase
  <1>3. {"unauthorized", "conflict", "ok"} \subseteq Replies
    BY DEF Replies
  <1>4. CASE Answer(c, "unauthorized", {}) \/ Answer(c, "conflict", {})
    BY <1>1, <1>2, <1>3, <1>4, AnsweredMoves, MovesKeep DEF StepKeeps, Moves
  <1>5. CASE CancelAnswered(c)
    <2>1. call[c].on \in Ids /\ made[call[c].on] = call[c].as /\ call[c].as # Nobody
      BY <1>2, <1>5 DEF CancelAnswered, Phase, TenantInv, Asks
    <2>2. {call[c].on} \in SUBSET (Ids \cup Users) /\ Answer(c, "ok", {call[c].on})
      BY <1>5, <2>1 DEF CancelAnswered
    <2>3. QED
      BY <1>1, <1>2, <1>3, <2>1, <2>2, AnsweredMoves, MovesKeep DEF StepKeeps, Moves
  <1>6. CASE /\ Phase(c, "authorized") /\ call[c].on \in Visible(call[c])
             /\ call' = [call EXCEPT ![c].phase = "cancelling"] /\ UNCHANGED told
    <2>1. call[c].on \in Ids /\ made[call[c].on] = call[c].as /\ call[c].as # Nobody
      BY <1>6, VisibleIsOwn
    <2>2. call[c] \in Calls({"sent", "authorized", "running", "cancelling", "uploading"})
      BY <1>2 DEF TenantInv, TenantTypeOK
    <2> DEFINE q == [call[c] EXCEPT !.phase = "cancelling"]
    <2>3. /\ q \in Calls({"sent", "authorized", "running", "cancelling", "uploading"})
          /\ q.phase = "cancelling" /\ q.as = call[c].as /\ q.on = call[c].on
      BY <2>2 DEF Calls
    <2>4. call' = [call EXCEPT ![c] = q]
      BY <1>6 DEF TenantInv, TenantTypeOK
    <2> HIDE DEF q
    <2>5. TenantTypeOK' /\ call'[c] = q
      BY <1>1, <1>6, <2>3, <2>4 DEF TenantInv, TenantTypeOK
    <2>6. Owned' /\ Stable
      BY <1>1 DEF TenantInv, Owned, Stable
    <2>7. Asks(c)'
      BY <1>1, <2>1, <2>3, <2>5 DEF Asks
    <2>8. Told(c)'
      BY <1>1, <1>6 DEF TenantInv, Told
    <2>9. Moves(c)
      BY <1>2, <1>6, <2>4, <2>5, <2>6, <2>7, <2>8 DEF Moves, Phase, TenantInv, TenantTypeOK
    <2>10. QED
      BY <1>1, <2>6, <2>9, MovesKeep DEF StepKeeps
  <1>7. QED
    BY <1>4, <1>5, <1>6 DEF QueryRejected, AskCancel

\* A run that begins belongs to who asked for it.
LEMMA BeginRunKeeps ==
  ASSUME TenantInv, NEW c \in Clients, BeginRun(c)
  PROVE  StepKeeps
  <1> DEFINE q == call[c]
  <1>1. /\ UNCHANGED <<admins, threads, made, files, body, handed>>
        /\ UploadTypeOK' /\ files' \subseteq Users /\ (UploadsWhole => UploadsWhole')
    BY NoUploadMoves DEF BeginRun, TenantInv, TenantTypeOK
  <1>2. call[c] # NoCall /\ call[c].phase # "running" /\ call[c].as # Nobody
    BY DEF BeginRun, Phase, TenantInv, Asks
  <1>3. CASE q.op = "background" /\ Answer(c, "ok", {q.on})
    <2>1. Phase(c, "authorized") /\ q.on \in Visible(q)
      BY <1>3 DEF BeginRun
    <2>2. q.on \in Ids /\ made[q.on] = q.as
      BY <2>1, VisibleIsOwn
    <2>3. {q.on} \in SUBSET (Ids \cup Users) /\ "ok" \in Replies
      BY <2>2 DEF Replies
    <2>4. QED
      BY <1>1, <1>2, <1>3, <2>2, <2>3, AnsweredMoves, MovesKeep DEF StepKeeps, Moves
  <1>4. CASE /\ call' = [call EXCEPT ![c].phase = "running", ![c].claims = Nobody]
             /\ UNCHANGED told
    <2>1. q \in Calls({"sent", "authorized", "running", "cancelling", "uploading"})
      BY <1>2 DEF TenantInv, TenantTypeOK
    <2> DEFINE new == [q EXCEPT !.phase = "running", !.claims = Nobody]
    <2>2. /\ new \in Calls({"sent", "authorized", "running", "cancelling", "uploading"})
          /\ new.phase = "running" /\ new.as = q.as
      BY <2>1 DEF Calls, People
    <2>3. call' = [call EXCEPT ![c] = new]
      BY <1>4 DEF TenantInv, TenantTypeOK
    <2> HIDE DEF new
    <2>4. TenantTypeOK' /\ call'[c] = new
      BY <1>1, <1>4, <2>2, <2>3 DEF TenantInv, TenantTypeOK
    <2>5. Owned' /\ Stable
      BY <1>1 DEF TenantInv, Owned, Stable
    <2>6. Asks(c)'
      BY <1>2, <2>2, <2>4 DEF Asks
    <2>7. Told(c)'
      BY <1>1, <1>4 DEF TenantInv, Told
    <2>8. Moves(c)
      BY <1>2, <1>4, <2>3, <2>4, <2>5, <2>6, <2>7 DEF Moves, Phase, TenantInv, TenantTypeOK
    <2>9. QED
      BY <1>1, <2>5, <2>8, MovesKeep DEF StepKeeps
  <1>5. QED
    BY <1>3, <1>4 DEF BeginRun
-----------------------------------------------------------------------------
(* The clients.                                                             *)

LEMMA SentKeeps ==
  ASSUME TenantInv, NEW c \in Clients, NEW request \in Calls({"sent"}), Send(c, request),
         UNCHANGED <<admins, threads, made, files, body, handed>>
  PROVE  StepKeeps
  <1>1. request \in Calls({"sent", "uploading"})
    BY DEF Calls
  <1>2. UploadTypeOK' /\ (UploadsWhole => UploadsWhole')
    BY NoUploadMoves DEF TenantInv, TenantTypeOK
  <1>3. QED
    BY <1>1, <1>2, SentMoves, MovesKeep DEF StepKeeps, Moves

LEMMA SendUploadKeeps ==
  ASSUME TenantInv, NEW c \in Clients, NEW as \in People, NEW b \in NewUploads,
         SendUpload(c, as, b)
  PROVE  StepKeeps
  <1> DEFINE request == [Request(as, "upload", as, as) EXCEPT !.phase = "uploading"]
  <1>1. request \in Calls({"sent", "uploading"})
    BY DEF Request, Calls, People
  <1>2. Send(c, request) /\ UNCHANGED <<admins, threads, made, files>>
    BY DEF SendUpload
  <1>3. UploadTypeOK' /\ (UploadsWhole => UploadsWhole')
    BY BodyStarts DEF SendUpload, TenantInv, TenantTypeOK
  <1> HIDE DEF request
  <1>4. QED
    BY <1>1, <1>2, <1>3, SentMoves, MovesKeep DEF StepKeeps, Moves

\* What guests ask for is a request.
LEMMA RequestIsCall ==
  /\ \A as \in People, op \in Ops, on \in People \cup Nat, owner \in People :
        Request(as, op, on, owner) \in Calls({"sent"})
  /\ \A as \in People, op \in Ops, on \in People \cup Nat, claims \in People :
        [Request(as, op, on, as) EXCEPT !.claims = claims] \in Calls({"sent"})
  BY DEF Request, Calls, Ops, People

LEMMA GuestsArePeople ==
  /\ \A u \in Guests : u \in People /\ u \in People \cup Nat
  /\ Nobody \in People
  /\ \A t \in GuestThreads : t \in People \cup Nat
  /\ 0 \in People \cup Nat
  BY VerifierAssumption, TenantAssumption DEF People, Ids

LEMMA AskAboutThreadsKeeps ==
  ASSUME TenantInv, NEW c \in Clients, NEW as \in Guests \cup {Nobody}, AskAboutThreads(c, as),
         UNCHANGED <<admins, threads, made, files, body, handed>>
  PROVE  StepKeeps
  <1>1. as \in People
    BY GuestsArePeople
  <1>2. PICK request \in Calls({"sent"}) : Send(c, request)
    <2>1. /\ ThreadOps \subseteq Ops /\ AssistantOps \cup {"search", "query"} \subseteq Ops
          /\ "create" \in Ops /\ "patch" \in Ops /\ "run" \in Ops
      BY Words DEF Ops
    <2>2. CASE \E op \in ThreadOps \ {"search", "create", "run", "patch"}, t \in GuestThreads :
                  Send(c, Request(as, op, t, as))
      BY <1>1, <2>1, <2>2, RequestIsCall, GuestsArePeople
    <2>3. CASE \E op \in AssistantOps \cup {"search", "query"} : Send(c, Request(as, op, 0, as))
      BY <1>1, <2>1, <2>3, RequestIsCall, GuestsArePeople
    <2>4. CASE \E owner \in Guests : Send(c, Request(as, "create", 0, owner))
      BY <1>1, <2>1, <2>4, RequestIsCall, GuestsArePeople
    <2>5. CASE \E owner \in Guests, t \in GuestThreads : Send(c, Request(as, "patch", t, owner))
      BY <1>1, <2>1, <2>5, RequestIsCall, GuestsArePeople
    <2>6. CASE \E claims \in Guests, t \in GuestThreads :
                  Send(c, [Request(as, "run", t, as) EXCEPT !.claims = claims])
      BY <1>1, <2>1, <2>6, RequestIsCall, GuestsArePeople
    <2>7. QED
      BY <2>2, <2>3, <2>4, <2>5, <2>6 DEF AskAboutThreads
  <1>3. QED
    BY <1>2, SentKeeps

LEMMA AskAboutFilesKeeps ==
  ASSUME TenantInv, NEW c \in Clients, NEW as \in Guests \cup {Nobody}, AskAboutFiles(c, as)
  PROVE  StepKeeps
  <1>1. as \in People
    BY GuestsArePeople
  <1>2. ASSUME NEW op \in FileOps, NEW f \in Guests, Send(c, Request(as, op, f, as)),
               UNCHANGED <<admins, threads, made, files, body, handed>>
        PROVE  StepKeeps
    <2>1. op \in Ops /\ f \in People \cup Nat
      BY GuestsArePeople DEF Ops
    <2>2. QED
      BY <1>1, <1>2, <2>1, RequestIsCall, SentKeeps
  <1>3. ASSUME NEW size \in 0..SizeMax, NEW intact \in BOOLEAN,
               NEW declared \in {Absent, Unreadable, size},
               SendUpload(c, as, Upload(size, declared, intact))
        PROVE  StepKeeps
    <2>1. Upload(size, declared, intact) \in NewUploads
      BY UploadAssumption DEF Upload, NewUploads, Uploads
    <2>2. QED
      BY <1>1, <1>3, <2>1, SendUploadKeeps
  <1>4. QED
    BY <1>2, <1>3 DEF AskAboutFiles

\* Nothing but the roles changes, or the answers are read.
LEMMA QuietStepsKeep ==
  ASSUME TenantInv, admins' \subseteq Users, UNCHANGED <<threads, made, files, call, body, handed>>,
         told' = told \/ \E c \in Clients : told' = [told EXCEPT ![c] = Untold]
  PROVE  StepKeeps
  <1>1. Untold \in [as : People, status : Replies, seen : SUBSET (Ids \cup Users)]
    BY DEF Untold, People, Replies, Statuses
  <1>2. TenantTypeOK' /\ (UploadsWhole => UploadsWhole')
    BY <1>1, NoUploadMoves DEF TenantInv, TenantTypeOK
  <1>3. Owned' /\ Stable /\ StillWait
    BY DEF TenantInv, Owned, Stable, StillWait
  <1>4. ASSUME NEW d \in Clients
        PROVE  Asks(d)' /\ Told(d)'
    <2>1. Asks(d) /\ Told(d) /\ (told'[d] = told[d] \/ told'[d] = Untold)
      BY DEF TenantInv, TenantTypeOK
    <2>2. QED
      BY <2>1 DEF Asks, Told, Untold
  <1>5. QED
    BY <1>2, <1>3, <1>4 DEF StepKeeps, TenantInv

LEMMA ClientHearsKeeps ==
  ASSUME TenantInv, ClientHears
  PROVE  StepKeeps
  <1>1. Untold \in [as : People, status : Replies, seen : SUBSET (Ids \cup Users)]
    BY DEF Untold, People, Replies, Statuses
  <1>2. TenantTypeOK' /\ (UploadsWhole => UploadsWhole')
    BY <1>1 DEF ClientHears, TenantInv, TenantTypeOK, UploadTypeOK, UploadsWhole
  <1>3. Owned' /\ Stable /\ StillWait
    BY DEF ClientHears, TenantInv, Owned, Stable, StillWait
  <1>4. \A d \in Clients : Asks(d)' /\ Told(d)'
    BY DEF ClientHears, TenantInv, Asks, Told, Untold
  <1>5. QED
    BY <1>2, <1>3, <1>4 DEF StepKeeps, TenantInv

LEMMA ClientStepsKeep ==
  ASSUME TenantInv, ClientSteps
  PROVE  StepKeeps
  <1>1. CASE RoleChanges
    <2>1. admins' \subseteq Users
      BY <1>1 DEF RoleChanges, TenantInv, TenantTypeOK
    <2>2. QED
      BY <1>1, <2>1, QuietStepsKeep DEF RoleChanges
  <1>2. QED
    BY <1>1, AskAboutThreadsKeeps, AskAboutFilesKeeps DEF ClientSteps
-----------------------------------------------------------------------------
(* The scripts.                                                             *)

LEMMA NowIsStep ==
  ASSUME PlanInv, Working
  PROVE  Now \in Steps
  BY ScriptSteps DEF PlanInv, Working, Scripted, Now

LEMMA ScriptSendsKeeps ==
  ASSUME TenantInv, PlanInv, ScriptSends
  PROVE  StepKeeps
  <1>1. Now \in Steps /\ script \in Clients
    BY NowIsStep, VerifierAssumption DEF ScriptSends
  <1>2. CASE Now.kind = "request" /\ Send(script, Now.request)
             /\ UNCHANGED <<admins, threads, made, files, body, handed>>
    <2>1. Now.request \in Calls({"sent"})
      BY <1>1, <1>2 DEF Steps, RequestSteps, SentCalls
    <2>2. QED
      BY <1>1, <1>2, <2>1, SentKeeps
  <1>3. CASE Now.kind = "upload" /\ SendUpload(script, Now.as, Now.body)
    <2>1. Now.as \in People /\ Now.body \in NewUploads
      BY <1>1, <1>3 DEF Steps, RequestSteps, People
    <2>2. QED
      BY <1>1, <1>3, <2>1, SendUploadKeeps
  <1>4. QED
    BY <1>2, <1>3 DEF ScriptSends

LEMMA ScriptStepsKeep ==
  ASSUME TenantInv, PlanInv,
         \/ ScriptSends \/ ScriptHears \/ ScriptLooks \/ ScriptPromotes \/ ScriptTimesOut
         \/ ScriptGivesUp
  PROVE  StepKeeps
  <1>1. admins \subseteq Users
    BY DEF TenantInv, TenantTypeOK
  <1>2. CASE ScriptHears
    BY <1>1, <1>2, QuietStepsKeep, VerifierAssumption DEF ScriptHears
  <1>3. CASE ScriptLooks \/ ScriptTimesOut \/ ScriptGivesUp
    BY <1>1, <1>3, QuietStepsKeep
       DEF ScriptLooks, ScriptTimesOut, ScriptGivesUp, graphVars, tenantVars
  <1>4. CASE ScriptPromotes
    <2>1. Now \in Steps /\ Now.kind = "promote"
      BY <1>4, NowIsStep DEF ScriptPromotes
    <2>2. Now.user \in Users
      BY <2>1 DEF Steps, RequestSteps
    <2>3. admins' \subseteq Users
      BY <1>1, <1>4, <2>2 DEF ScriptPromotes
    <2>4. QED
      BY <1>4, <2>3, QuietStepsKeep DEF ScriptPromotes
  <1>5. QED
    BY <1>2, <1>3, <1>4, ScriptSendsKeeps
-----------------------------------------------------------------------------
(* In whose name a run acts.                                                *)

\* A step that leaves the run alone.
LEMMA RunKept ==
  ASSUME RunInv, StepKeeps, PumpTypeOK', UNCHANGED runVars,
         prod = "none" => prod' = "none"
  PROVE  RunInv'
  <1>1. run' = run /\ config' = config /\ acted' = acted
    BY DEF runVars
  <1>2. RunsTypeOK'
    BY <1>1 DEF RunInv, RunsTypeOK, StepKeeps, TenantInv
  <1>3. ASSUME run # NoRun
        PROVE  /\ run.client \in Clients /\ run.user \in Users /\ run.user # Nobody
    BY <1>3, UsersAreNoThreads DEF RunInv, RunsTypeOK
  <1>4. OnItsBehalf'
    BY <1>1, <1>3 DEF RunInv, OnItsBehalf, StepKeeps, Stable, StillWait, Phase
  <1>5. QED
    BY <1>1, <1>2, <1>4 DEF RunInv

LEMMA RequestIsNoNone ==
  ASSUME NEW phases, NEW q \in Calls(phases)
  PROVE  q # NoCall
  <1>1. "as" \in DOMAIN q
    BY DEF Calls
  <1>2. DOMAIN NoCall = {}
    BY DEF NoCall
  <1>3. QED
    BY <1>1, <1>2

LEMMA BeginRunActs ==
  ASSUME TenantInv, RunInv, PumpTypeOK', NEW c \in Clients, BeginRun(c), StepKeeps
  PROVE  RunInv'
  <1> DEFINE q == call[c]
  <1>1. q \in Calls({"sent", "authorized", "running", "cancelling", "uploading"}) /\ q.as # Nobody
    BY DEF BeginRun, Phase, TenantInv, TenantTypeOK, Asks
  <1>2. q.as \in Users /\ q.op # "query" => q.as \in Users /\ q.on \in Ids /\ made[q.on] = q.as
    BY VisibleIsOwn DEF BeginRun
  <1>3. q.as \in Users /\ q.as \in People /\ q.waits \in BOOLEAN /\ q.claims \in People
    BY <1>1 DEF Calls, People
  <1>4. run' = [client |-> c, user |-> q.as, thread |-> IF q.op = "query" THEN Query ELSE q.on,
                active |-> IF q.op = "query" THEN q.as ELSE Nobody,
                background |-> q.op = "background", waits |-> q.waits, cancelled |-> FALSE]
    BY DEF BeginRun
  <1>5. (IF q.op = "query" THEN Query ELSE q.on) \in Nat
    BY <1>2, <1>3 DEF Query, Ids
  <1>6. run' \in [client : Clients, user : Users, thread : Nat, active : People,
                  background : BOOLEAN, waits : BOOLEAN, cancelled : BOOLEAN]
    BY <1>3, <1>4, <1>5 DEF People
  <1>7. PICK claims \in {q.claims, Nobody} : config' = GivenConfig(q, claims)
    BY DEF BeginRun
  <1>8. claims \in People /\ Permissions(q.as) \in SUBSET (SessionPermissions \cup AdminPermissions)
    BY <1>3 DEF Permissions, People
  <1>9. /\ config' \in [auth : People, permissions : SUBSET (SessionPermissions \cup AdminPermissions),
                        claims : People, budget : {"client", "server"}]
        /\ config'.auth \in {Nobody, q.as}
    BY <1>3, <1>7, <1>8 DEF GivenConfig, People
  <1>10. prod' = "none" /\ acted' = {} /\ UNCHANGED made
    BY DEF BeginRun, RunInv, pumpVars, task
  <1>11. RunsTypeOK'
    BY <1>6, <1>9, <1>10 DEF RunsTypeOK, StepKeeps, TenantInv
  <1>12. run'.background \/ (call'[c].phase = "running" /\ call'[c].as = q.as /\ call'[c] # NoCall)
    <2>1. CASE q.op = "background"
      BY <1>4, <2>1
    <2>2. CASE q.op # "background"
      <3> DEFINE new == [q EXCEPT !.phase = "running", !.claims = Nobody]
      <3>1. call'[c] = new
        BY <2>2 DEF BeginRun, TenantInv, TenantTypeOK
      <3>2. new.phase = "running" /\ new.as = q.as
        BY <1>1 DEF Calls
      <3>3. call'[c] # NoCall
        <4>1. new \in Calls({"running"})
          BY <1>1 DEF Calls, People
        <4>2. QED
          BY <3>1, <4>1, RequestIsNoNone
      <3>4. QED
        BY <3>1, <3>2, <3>3
    <2>3. QED
      BY <2>1, <2>2
  <1>13. OnItsBehalf'
    <2>1. /\ run'.client = c /\ run'.user = q.as /\ run'.active \in {Nobody, q.as}
          /\ run'.thread # Query => run'.thread = q.on /\ q.op # "query"
      BY <1>4
    <2>2. QED
      BY <1>2, <1>3, <1>9, <1>10, <1>12, <2>1 DEF OnItsBehalf, Phase
  <1>14. QED
    BY <1>10, <1>11, <1>13 DEF RunInv

\* The configuration astream makes is in the name of the run's user.
LEMMA StartRunActs ==
  ASSUME TenantInv, RunInv, PumpTypeOK', StartRun
  PROVE  StepKeeps /\ RunInv'
  <1>1. UNCHANGED <<tenantVars, run, acted>> /\ run # NoRun
    BY DEF StartRun
  <1>2. StepKeeps
    BY <1>1, NothingMoves, NoUploadMoves DEF StepKeeps, tenantVars, TenantInv, TenantTypeOK
  <1>3. config \in [auth : People, permissions : SUBSET (SessionPermissions \cup AdminPermissions),
                    claims : People, budget : {"client", "server"}]
    BY <1>1 DEF RunInv, RunsTypeOK
  <1>4. /\ Bounded(config) \in
              [auth : People, permissions : SUBSET (SessionPermissions \cup AdminPermissions),
               claims : People, budget : {"client", "server"}]
        /\ Bounded(config).auth = config.auth /\ Bounded(config).budget = "server"
    BY <1>3 DEF Bounded, People
  <1>5. Subject(Bounded(config), run.active) = run.user
    BY <1>1, <1>4 DEF StartRun, Subject, RunInv, OnItsBehalf
  <1>6. run.user \in People /\ run.user \in Users
    BY <1>1 DEF RunInv, RunsTypeOK, People
  <1>7. /\ config' \in
              [auth : People, permissions : SUBSET (SessionPermissions \cup AdminPermissions),
               claims : People, budget : {"client", "server"}]
        /\ config'.auth = config.auth /\ config'.claims = run.user /\ config'.budget = "server"
    BY <1>4, <1>5, <1>6 DEF StartRun, Prepared
  <1>8. RunsTypeOK'
    BY <1>1, <1>2, <1>7 DEF RunInv, RunsTypeOK, StepKeeps, TenantInv
  <1>9. OnItsBehalf'
    BY <1>1, <1>7 DEF RunInv, OnItsBehalf, tenantVars, Phase
  <1>10. QED
    BY <1>1, <1>2, <1>8, <1>9 DEF RunInv

\* Model and tools act in the name of the run's user.
LEMMA ActActs ==
  ASSUME TenantInv, RunInv, PumpTypeOK', Act
  PROVE  StepKeeps /\ RunInv'
  <1>1. UNCHANGED <<pumpVars, tenantVars, run, config>> /\ run # NoRun /\ prod # "none"
    BY DEF Act, At
  <1>2. StepKeeps
    BY <1>1, NothingMoves, NoUploadMoves DEF StepKeeps, tenantVars, TenantInv, TenantTypeOK
  <1>3. config.claims = run.user /\ run.active \in {Nobody, run.user} /\ run.user \in Users
    BY <1>1 DEF RunInv, RunsTypeOK, OnItsBehalf
  <1>4. Bounded(config).claims = Nobody
    BY <1>1 DEF Bounded, RunInv, RunsTypeOK
  <1>5. Identities \subseteq {run.user}
    BY <1>3, <1>4 DEF Identities, ActiveSubject
  <1>6. acted' \subseteq {run.user}
    BY <1>1, <1>5 DEF Act, RunInv, OnItsBehalf
  <1>7. RunsTypeOK'
    BY <1>1, <1>2, <1>3, <1>6 DEF RunInv, RunsTypeOK, StepKeeps, TenantInv, People
  <1>8. OnItsBehalf'
    BY <1>1, <1>6 DEF RunInv, OnItsBehalf, tenantVars, pumpVars, task, Phase
  <1>9. QED
    BY <1>1, <1>2, <1>7, <1>8 DEF RunInv

LEMMA OutcomeIsStatus ==
  ASSUME PumpTypeOK
  PROVE  Outcome \in Statuses /\ Outcome \in Replies /\ Outcome # "unborn"
  BY DEF Outcome, PumpTypeOK, Statuses, Replies

\* What a run leaves is its user's, and so is the answer.
LEMMA RunReturnsKeeps ==
  ASSUME TenantInv, RunInv, PumpTypeOK', RunReturns
  PROVE  TenantInv' /\ RunInv' /\ (UploadsWhole => UploadsWhole')
  <1>1. UNCHANGED <<admins, made, files, body, handed>> /\ run # NoRun
    BY DEF RunReturns
  <1>2. /\ run.client \in Clients /\ run.user \in Users /\ run.user # Nobody /\ run.thread \in Nat
        /\ run.thread # Query => run.thread \in Ids /\ made[run.thread] = run.user
    BY <1>1, UsersAreNoThreads DEF RunInv, RunsTypeOK, OnItsBehalf
  <1>3. Outcome \in Statuses /\ Outcome \in Replies /\ Outcome # "unborn"
    BY OutcomeIsStatus DEF RunInv, RunsTypeOK
  <1>4. \A t \in Ids :
           /\ threads'[t] \in [owner : People, changed : BOOLEAN, status : Statuses]
           /\ threads'[t].owner = threads[t].owner
           /\ threads'[t] = Unborn => threads[t] = Unborn
    BY <1>3 DEF RunReturns, TenantInv, TenantTypeOK, Unborn
  <1>5. threads' \in [Ids -> [owner : People, changed : BOOLEAN, status : Statuses]]
    BY <1>4 DEF RunReturns, TenantInv, TenantTypeOK
  <1>6. UploadTypeOK' /\ (UploadsWhole => UploadsWhole')
    BY <1>1, NoUploadMoves DEF TenantInv, TenantTypeOK
  <1>7. Owned' /\ Stable
    BY <1>1, <1>4 DEF TenantInv, Owned, Stable
  <1>8. TenantInv' => RunInv'
    BY <1>1 DEF RunReturns, RunInv, RunsTypeOK, OnItsBehalf, TenantInv
  <1>9. CASE run.background
    <2>1. UNCHANGED <<call, told>>
      BY <1>9 DEF RunReturns
    <2>2. TenantTypeOK'
      BY <1>1, <1>5, <1>6, <2>1 DEF TenantInv, TenantTypeOK
    <2>3. \A d \in Clients : Asks(d)' /\ Told(d)'
      BY <1>7, <2>1, OthersKeep
    <2>4. QED
      BY <1>6, <1>7, <1>8, <2>2, <2>3 DEF TenantInv
  <1>10. CASE ~run.background
    <2>0. PICK c \in Clients : c = run.client
      BY <1>2
    <2> DEFINE seen == IF run.thread = Query THEN {} ELSE {run.thread}
    <2>1. call[c] # NoCall /\ call[c].as = run.user
      BY <1>1, <1>10, <2>0 DEF RunInv, OnItsBehalf, Phase
    <2>2. Answer(c, Outcome, seen)
      BY <1>10, <2>0 DEF RunReturns
    <2>3. seen \in SUBSET (Ids \cup Users) /\ \A x \in seen : x \in Ids /\ made[x] = run.user
      BY <1>2
    <2> HIDE DEF seen
    <2>4. /\ call' \in [Clients ->
               Calls({"sent", "authorized", "running", "cancelling", "uploading"}) \cup {NoCall}]
          /\ told' \in [Clients -> [as : People, status : Replies, seen : SUBSET (Ids \cup Users)]]
          /\ \A d \in Clients \ {c} : call'[d] = call[d] /\ told'[d] = told[d]
          /\ call'[c] = NoCall /\ told'[c].as = call[c].as /\ told'[c].seen = seen
      BY <1>3, <2>1, <2>2, <2>3, AnswerMoves DEF TenantInv
    <2>5. TenantTypeOK'
      BY <1>1, <1>5, <1>6, <2>4 DEF TenantInv, TenantTypeOK
    <2>6. \A d \in Clients \ {c} : Asks(d)' /\ Told(d)'
      BY <1>7, <2>4, OthersKeep
    <2>7. Asks(c)' /\ Told(c)'
      BY <1>1, <1>2, <2>1, <2>3, <2>4 DEF Asks, Told
    <2>8. QED
      BY <1>6, <1>7, <1>8, <2>5, <2>6, <2>7 DEF TenantInv
  <1>11. QED
    BY <1>9, <1>10
-----------------------------------------------------------------------------
(* Together.                                                                *)

\* What holds throughout.
VerifierInv == PumpTypeOK /\ PumpInv /\ PlanInv /\ TenantInv /\ RunInv /\ UploadsWhole

LEMMA VerifierInvInit == VerifierInit => VerifierInv
  <1> SUFFICES ASSUME VerifierInit PROVE VerifierInv
    OBVIOUS
  <1>1. PumpTypeOK /\ PumpInv /\ prod = "none"
    BY PumpInitType, PumpInvInit DEF VerifierInit, RunsInit, PumpInit
  <1>2. PlanInv
    BY DEF VerifierInit, PlanInv
  <1>3. /\ Unborn \in [owner : People, changed : BOOLEAN, status : Statuses]
        /\ Unborn.owner = Nobody
        /\ Untold \in [as : People, status : Replies, seen : SUBSET (Ids \cup Users)]
    BY DEF Unborn, Untold, People, Replies, Statuses
  <1>4. UploadTypeOK /\ UploadsWhole
    BY DEF VerifierInit, RunsInit, TenantInit, UploadInit, UploadTypeOK, UploadsWhole
  <1>5. TenantTypeOK
    BY <1>3, <1>4 DEF VerifierInit, RunsInit, TenantInit, TenantTypeOK, People
  <1>6. Owned /\ \A c \in Clients : Asks(c) /\ Told(c)
    BY <1>3 DEF VerifierInit, RunsInit, TenantInit, Owned, Asks, Told, Untold
  <1>7. RunInv
    BY <1>1, <1>5 DEF VerifierInit, RunsInit, RunInv, RunsTypeOK, OnItsBehalf
  <1>8. QED
    BY <1>1, <1>2, <1>4, <1>5, <1>6, <1>7 DEF VerifierInv, TenantInv

LEMMA PlanKept == PlanInv /\ [VerifierNext]_verifierVars => PlanInv'
  <1> SUFFICES ASSUME PlanInv, [VerifierNext]_verifierVars PROVE PlanInv'
    OBVIOUS
  <1>1. at + 1 \in Nat \ {0}
    BY DEF PlanInv
  <1>2. CASE UNCHANGED <<plan, at>>
    BY <1>2 DEF PlanInv
  <1>3. CASE UNCHANGED plan /\ at' = at + 1
    BY <1>1, <1>3 DEF PlanInv
  <1>4. CASE ScriptHears \/ ScriptLooks \/ ScriptPromotes \/ ScriptTimesOut \/ ScriptGivesUp
    BY <1>2, <1>3, <1>4 DEF ScriptHears, ScriptLooks, ScriptPromotes, ScriptTimesOut,
                            ScriptGivesUp, Judged, Passes, Fails
  <1>5. CASE ScriptSends \/ ClientHears \/ ClientSteps
    BY <1>2, <1>5 DEF ScriptSends, ClientHears, ClientSteps, scriptVars
  <1>6. CASE GraphSteps
    BY <1>2, <1>6, GraphCases
  <1>7. CASE ServerSteps
    BY <1>2, <1>7 DEF ServerSteps, Runs, scriptVars
  <1>8. CASE UNCHANGED verifierVars
    BY <1>2, <1>8 DEF verifierVars, scriptVars
  <1>9. QED
    BY <1>4, <1>5, <1>6, <1>7, <1>8 DEF VerifierNext

\* A cancellation is noted; the run is its user's as before.
LEMMA AskCancelActs ==
  ASSUME TenantInv, RunInv, PumpTypeOK', StepKeeps, NEW c \in Clients, AskCancel(c)
  PROVE  RunInv'
  <1>1. UNCHANGED <<pumpVars, config, acted>> /\ prod' = prod
    BY DEF AskCancel, pumpVars, task
  <1>2. CASE UNCHANGED run
    BY <1>1, <1>2, RunKept DEF runVars
  <1>3. CASE run # NoRun /\ run' = [run EXCEPT !.cancelled = TRUE]
    <2>1. /\ run' \in [client : Clients, user : Users, thread : Nat, active : People,
                      background : BOOLEAN, waits : BOOLEAN, cancelled : BOOLEAN]
          /\ run'.client = run.client /\ run'.user = run.user /\ run'.thread = run.thread
          /\ run'.active = run.active /\ run'.background = run.background
      BY <1>3 DEF RunInv, RunsTypeOK
    <2>2. run'.user # Nobody /\ run.client \in Clients
      BY <1>3, <2>1, UsersAreNoThreads
    <2>3. run' # NoRun
      <3>1. "client" \in DOMAIN run'
        BY <2>1
      <3>2. DOMAIN NoRun = {}
        BY DEF NoRun
      <3>3. QED
        BY <3>1, <3>2
    <2>4. OnItsBehalf'
      BY <1>1, <1>3, <2>1, <2>2 DEF RunInv, OnItsBehalf, StepKeeps, Stable, StillWait, Phase
    <2>5. QED
      BY <1>1, <1>3, <2>1, <2>3, <2>4 DEF RunInv, RunsTypeOK, StepKeeps, TenantInv
  <1>4. QED
    BY <1>2, <1>3 DEF AskCancel

LEMMA StutterKeeps ==
  ASSUME TenantInv, UNCHANGED tenantVars
  PROVE  StepKeeps
  BY NothingMoves, NoUploadMoves DEF StepKeeps, tenantVars, TenantInv, TenantTypeOK

LEMMA GraphStepsKeep ==
  ASSUME TenantInv, RunInv, PumpTypeOK', GraphSteps
  PROVE  TenantInv' /\ RunInv' /\ (UploadsWhole => UploadsWhole')
  <1>1. CASE GoesOn
    <2>1. StepKeeps /\ UNCHANGED runVars /\ (prod = "none" => prod' = "none")
      BY <1>1, StutterKeeps DEF GoesOn
    <2>2. QED
      BY <2>1, RunKept DEF StepKeeps
  <1>2. CASE StartRun \/ Act
    BY <1>2, StartRunActs, ActActs DEF StepKeeps
  <1>3. CASE RunReturns
    BY <1>3, RunReturnsKeeps
  <1>4. QED
    BY <1>1, <1>2, <1>3, GraphCases

LEMMA ServerStepsKeep ==
  ASSUME TenantInv, RunInv, PumpTypeOK', ServerSteps
  PROVE  TenantInv' /\ RunInv' /\ (UploadsWhole => UploadsWhole')
  <1>1. PICK c \in Clients :
           \/ TenantStep(c, Busy) /\ UNCHANGED <<pumpVars, runVars, scriptVars>>
           \/ ~Scripted /\ UploadBreaks(c) /\ UNCHANGED <<pumpVars, runVars, scriptVars>>
           \/ Runs(BeginRun(c)) \/ Runs(QueryRejected(c)) \/ Runs(AskCancel(c))
           \/ Runs(CancelAnswered(c))
    BY DEF ServerSteps
  <1>2. CASE (TenantStep(c, Busy) \/ UploadBreaks(c)) /\ UNCHANGED <<pumpVars, runVars>>
    BY <1>2, TenantStepKeeps, RunKept DEF StepKeeps, pumpVars, task
  <1>3. CASE QueryRejected(c) \/ CancelAnswered(c)
    <2>1. UNCHANGED runVars /\ prod' = prod
      BY <1>3 DEF QueryRejected, CancelAnswered, pumpVars, task
    <2>2. QED
      BY <1>3, <2>1, CancelStepsKeep, RunKept DEF StepKeeps
  <1>4. CASE AskCancel(c)
    BY <1>4, CancelStepsKeep, AskCancelActs DEF StepKeeps
  <1>5. CASE BeginRun(c)
    BY <1>5, BeginRunKeeps, BeginRunActs DEF StepKeeps
  <1>6. QED
    BY <1>1, <1>2, <1>3, <1>4, <1>5 DEF Runs

LEMMA OtherStepsKeep ==
  ASSUME TenantInv, RunInv, PlanInv, PumpTypeOK',
         \/ ClientHears \/ ClientSteps \/ ScriptSends \/ ScriptHears \/ ScriptLooks
         \/ ScriptPromotes \/ ScriptTimesOut \/ ScriptGivesUp \/ UNCHANGED verifierVars
  PROVE  TenantInv' /\ RunInv' /\ (UploadsWhole => UploadsWhole')
  <1>1. StepKeeps
    BY ClientHearsKeeps, ClientStepsKeep, ScriptStepsKeep, StutterKeeps
       DEF verifierVars, graphVars
  <1>2. UNCHANGED runVars /\ prod' = prod
    BY DEF ClientHears, ClientSteps, ScriptSends, ScriptHears, ScriptLooks, ScriptPromotes,
           ScriptTimesOut, ScriptGivesUp, verifierVars, graphVars, pumpVars, task
  <1>3. QED
    BY <1>1, <1>2, RunKept DEF StepKeeps

LEMMA VerifierInvKept == VerifierInv /\ [VerifierNext]_verifierVars => VerifierInv'
  <1> SUFFICES ASSUME VerifierInv, [VerifierNext]_verifierVars PROVE VerifierInv'
    OBVIOUS
  <1>1. PumpTypeOK' /\ PumpInv' /\ PlanInv'
    BY PumpKept, PlanKept DEF VerifierInv
  <1>2. TenantInv' /\ RunInv' /\ (UploadsWhole => UploadsWhole')
    BY <1>1, GraphStepsKeep, ServerStepsKeep, OtherStepsKeep DEF VerifierInv, VerifierNext
  <1>3. QED
    BY <1>1, <1>2 DEF VerifierInv

\* The invariant of the whole: bodies, threads, files, answers and the run at
\* work, whatever the clients ask and whatever the scripts are at.
THEOREM VerifierInvariant == VerifierSpec => []VerifierInv
  BY VerifierInvInit, VerifierInvKept, PTL DEF VerifierSpec

\* Every variable keeps its type.
THEOREM RunsTypeCorrect == VerifierSpec => []RunsTypeOK
  <1>1. VerifierInv => RunsTypeOK
    BY DEF VerifierInv, RunInv
  <1>2. QED
    BY <1>1, VerifierInvariant, PTL

\* The form parser only sees bodies that are whole and within the limit, for any
\* limits and any sizes of messages.
THEOREM UploadsAreWhole == VerifierSpec => []UploadsWhole
  <1>1. VerifierInv => UploadsWhole
    BY DEF VerifierInv
  <1>2. QED
    BY <1>1, VerifierInvariant, PTL

\* Nobody gets at what belongs to somebody else, neither directly nor by what a
\* run does for them, for any number of users, clients and threads.
THEOREM TenantsAreApart == VerifierSpec => []TenantsApart
  <1>1. VerifierInv => OwnersKeepTheirs
    BY DEF VerifierInv, TenantInv, Owned, Told, OwnersKeepTheirs
  <1>2. VerifierInv => RunsAsItsCaller
    BY DEF VerifierInv, RunInv, OnItsBehalf, RunsAsItsCaller
  <1>3. VerifierInv => TenantsApart
    BY <1>1, <1>2 DEF TenantsApart
  <1>4. QED
    BY <1>3, VerifierInvariant, PTL
-----------------------------------------------------------------------------
(* Where a script is.  Nothing here is a variable: who has made what, how   *)
(* many runs are over and what is counted are functions of the steps done.  *)

\* The steps that are done: the one at hand counts once it is answered.
Done == IF Heard THEN at ELSE at - 1

\* How many threads there are, whose each is, and who has a stored file.
Births(p, d) ==
    IF p = "http"
    THEN IF d < 2 THEN 0 ELSE IF d < 10 THEN 1 ELSE IF d < 13 THEN 2 ELSE IF d < 19 THEN 3 ELSE 4
    ELSE IF d < 18 THEN 0 ELSE IF d < 19 THEN 1 ELSE 2
Maker(t) == IF t \in {1, 3} THEN A ELSE B
Stored(p, d) ==
    IF p = "http" THEN {}
    ELSE {u \in {A} : 3 <= d /\ d < 36} \cup {u \in {B} : 6 <= d}

\* The runs of the first script: one on each thread, at a step of its own; how
\* many are over; and how each must end.
RunStep(t) == IF t = 1 THEN 7 ELSE IF t = 2 THEN 11 ELSE IF t = 3 THEN 14 ELSE 20
Ended(p, d) ==
    IF p # "http" \/ d < 7 THEN 0
    ELSE IF d < 11 THEN 1 ELSE IF d < 16 THEN 2 ELSE IF d < 20 THEN 3 ELSE 4
End(t) == IF t = 3 THEN "interrupted" ELSE IF t = 4 THEN "timeout" ELSE "answered"
Returned ==
    IF run # NoRun THEN run.thread - 1
    ELSE IF Phase(script, "cancelling") THEN 3 ELSE Ended(plan, Done)

\* The script alone speaks.
Alone == \A c \in Clients \ {script} : call[c] = NoCall

\* It asks what its step says, and the server has come so far with it.
Asking ==
    LET q == call[script] IN
    /\ at <= Len(Plan(plan)) /\ ~Heard
    /\ q.phase = "sent" => Now.kind = "request" /\ q = Now.request
    /\ q.phase = "authorized" =>
          /\ Now.kind = "request" /\ q = Authorized(Now.request)
          /\ q.as # Nobody /\ Handled(q.op)
    /\ q.phase = "running" =>
          plan = "http" /\ run # NoRun /\ run.thread # 3 /\ at = RunStep(run.thread)
    /\ q.phase = "cancelling" =>
          /\ plan = "http" /\ at = 16 /\ q.on = 3
          /\ run # NoRun => run.thread = 3 /\ run.cancelled
    /\ q.phase = "uploading" =>
          /\ Now.kind = "upload" /\ q.as = Now.as
          /\ body[script] # NoBody
          /\ body[script].size = Now.body.size /\ body[script].declared = Now.body.declared
          /\ body[script].intact = Now.body.intact /\ body[script].got <= Now.body.size

\* It was told what its step wants.
Answered ==
    /\ at <= Len(Plan(plan)) /\ call[script] = NoCall
    /\ Now.kind \in {"request", "upload"}
    /\ told[script].status \in Now.wanted
    /\ Now.sees = {} \/ told[script].seen = Now.sees

Talking ==
    /\ verdict # "failed" /\ at <= Len(Plan(plan)) + 1
    /\ Alone
    /\ call[script] # NoCall => Asking
    /\ Heard => Answered

\* Threads and files are those the steps made.
World ==
    /\ Births(plan, Done) <= MaxThreads
    /\ \A t \in Ids :
          /\ threads[t].owner = IF t <= Births(plan, Done) THEN Maker(t) ELSE Nobody
          /\ t <= Births(plan, Done) <=> threads[t] # Unborn
          /\ plan = "smoke" /\ t <= Births(plan, Done) => threads[t] = Fresh(Maker(t))
          /\ plan = "http" /\ t <= Returned => threads[t].status = End(t)
    /\ plan = "smoke" => files = Stored(plan, Done)

\* A run is at work exactly while the script waits for it, or lets it wait.
AtWork ==
    /\ run # NoRun =>
          /\ plan = "http" /\ run.client = script
          /\ run.thread \in 1..4 /\ run.user = Maker(run.thread)
          /\ run.background <=> run.thread = 3
          /\ run.waits <=> run.thread \in {3, 4}
          /\ run.thread # 3 => Phase(script, "running")
          /\ run.thread = 3 => Done \in {14, 15}
          /\ run.cancelled => Phase(script, "cancelling")
    /\ plan = "http" /\ Done \in {14, 15} /\ ~Phase(script, "cancelling") => run # NoRun
    /\ run = NoRun =>
          /\ cons = "fresh" /\ requests = {} /\ ~due /\ ~held /\ ~again
          /\ answer = "none" /\ result = "none" /\ raising = "none"

\* The lease was granted, and is kept until the producer is done.
Granted == prod \notin {"none", "waiting"}
Holding ==
    /\ Granted /\ prod # "done" => held
    /\ due \/ cons = "over" => Granted

\* A run that answers is left alone;
LeftAlone ==
    /\ requests = {} /\ ~due /\ raising = "none" /\ prod # "closing"
    /\ result \in {"none", "ok"} /\ answer \in {"none", "ok"} /\ ~again
    /\ cons \in {"cleaning", "over"} => answer = "ok"
    /\ prod = "done" => acted # {}
\* one that is cancelled waits until then;
Cancelled ==
    /\ Done = 15 => Granted
    /\ requests \subseteq {"consumer"} /\ raising \in {"none", "cancelled"}
    /\ prod # "putting"
    /\ prod = "closing" => raising = "cancelled" /\ "consumer" \in requests
    /\ due => "consumer" \in requests
    /\ result \in {"none", "cancelled"} /\ answer \in {"none", "cancelled", "closed"}
    /\ cons \in {"cleaning", "over"} => run.cancelled /\ answer # "none"
\* one that meets its deadline does so with its lease.
Overdue ==
    /\ requests \subseteq {"deadline"}
    /\ "deadline" \in requests => Granted
    /\ due => requests = {"deadline"}
    /\ prod = "closing" => raising = "cancelled" /\ requests = {"deadline"}
    /\ prod # "putting"
    /\ result \in {"none", "timeout"} /\ answer \in {"none", "timeout"} /\ ~again
    /\ cons \in {"cleaning", "over"} => answer = "timeout"

Course ==
    run # NoRun =>
        /\ Holding
        /\ run.thread \in {1, 2} => LeftAlone
        /\ run.thread = 3 => Cancelled
        /\ run.thread = 4 => Overdue

\* What the server recorded.
Counters ==
    plan = "http" =>
        /\ leases.acquired = Returned + (IF run # NoRun /\ Granted THEN 1 ELSE 0)
        /\ leases.released = Returned + (IF run # NoRun /\ prod = "done" THEN 1 ELSE 0)
        /\ leases.subjects \subseteq {A, B} /\ leases.models \subseteq {A, B}
        /\ \A t \in 1..Returned : Maker(t) \in leases.subjects
        /\ \A t \in {1, 2} : t <= Returned => Maker(t) \in leases.models
        /\ run # NoRun => acted \subseteq leases.models /\ (Granted => run.user \in leases.subjects)

\* A script that is not kept waiting is on its way.
OnCourse == Talking /\ World /\ AtWork /\ Course /\ Counters
ScriptInv == Scripted /\ ~late => OnCourse
-----------------------------------------------------------------------------
(* The steps of the scripts, one by one.                                    *)

LEMMA Joined ==
  ASSUME NEW s \in Seq(Steps), NEW t \in Seq(Steps)
  PROVE  /\ s \o t \in Seq(Steps) /\ Len(s \o t) = Len(s) + Len(t)
         /\ \A i \in Nat \ {0} :
               /\ i <= Len(s) => (s \o t)[i] = s[i]
               /\ Len(s) < i /\ i <= Len(s) + Len(t) => (s \o t)[i] = t[i - Len(s)]
  OBVIOUS

LEMMA PartLengths ==
  /\ Len(AnsweredPlan) = 12 /\ Len(CancelledPlan) = 6 /\ Len(TimeoutPlan) = 4
  /\ Len(FilePlan) = 14 /\ Len(ThreadPlan) = 16 /\ Len(AdminPlan) = 7
  BY DEF AnsweredPlan, CancelledPlan, TimeoutPlan, FilePlan, ThreadPlan, AdminPlan

LEMMA HttpPlan ==
  /\ Len(Plan("http")) = 22
  /\ \A i \in 1..12 : Plan("http")[i] = AnsweredPlan[i]
  /\ \A i \in 13..18 : Plan("http")[i] = CancelledPlan[i - 12]
  /\ \A i \in 19..22 : Plan("http")[i] = TimeoutPlan[i - 18]
  <1> DEFINE first == AnsweredPlan \o CancelledPlan
             whole == first \o TimeoutPlan
  <1>1. Plan("http") = whole
    BY DEF Plan
  <1>2. /\ first \in Seq(Steps) /\ Len(first) = Len(AnsweredPlan) + Len(CancelledPlan)
        /\ \A i \in Nat \ {0} :
              /\ i <= Len(AnsweredPlan) => first[i] = AnsweredPlan[i]
              /\ Len(AnsweredPlan) < i /\ i <= Len(AnsweredPlan) + Len(CancelledPlan) =>
                    first[i] = CancelledPlan[i - Len(AnsweredPlan)]
    BY Joined, HttpPlanSteps
  <1> HIDE DEF first
  <1>3. /\ Len(first) = 18
        /\ \A i \in 1..12 : first[i] = AnsweredPlan[i]
        /\ \A i \in 13..18 : first[i] = CancelledPlan[i - 12]
    BY <1>2, PartLengths
  <1>4. /\ Len(whole) = Len(first) + Len(TimeoutPlan)
        /\ \A i \in Nat \ {0} :
              /\ i <= Len(first) => whole[i] = first[i]
              /\ Len(first) < i /\ i <= Len(first) + Len(TimeoutPlan) =>
                    whole[i] = TimeoutPlan[i - Len(first)]
    BY <1>2, Joined, HttpPlanSteps
  <1> HIDE DEF whole
  <1>5. /\ Len(whole) = 22
        /\ \A i \in 1..18 : whole[i] = first[i]
        /\ \A i \in 19..22 : whole[i] = TimeoutPlan[i - 18]
    BY <1>3, <1>4, PartLengths
  <1>6. QED
    BY <1>1, <1>3, <1>5

LEMMA SmokePlan ==
  /\ Len(Plan("smoke")) = 37
  /\ \A i \in 1..14 : Plan("smoke")[i] = FilePlan[i]
  /\ \A i \in 15..30 : Plan("smoke")[i] = ThreadPlan[i - 14]
  /\ \A i \in 31..37 : Plan("smoke")[i] = AdminPlan[i - 30]
  <1> DEFINE first == FilePlan \o ThreadPlan
             whole == first \o AdminPlan
  <1>1. Plan("smoke") = whole
    BY DEF Plan
  <1>2. /\ first \in Seq(Steps) /\ Len(first) = Len(FilePlan) + Len(ThreadPlan)
        /\ \A i \in Nat \ {0} :
              /\ i <= Len(FilePlan) => first[i] = FilePlan[i]
              /\ Len(FilePlan) < i /\ i <= Len(FilePlan) + Len(ThreadPlan) =>
                    first[i] = ThreadPlan[i - Len(FilePlan)]
    BY Joined, SmokePlanSteps
  <1> HIDE DEF first
  <1>3. /\ Len(first) = 30
        /\ \A i \in 1..14 : first[i] = FilePlan[i]
        /\ \A i \in 15..30 : first[i] = ThreadPlan[i - 14]
    BY <1>2, PartLengths, SMTT(40)
  <1>4. /\ Len(whole) = Len(first) + Len(AdminPlan)
        /\ \A i \in Nat \ {0} :
              /\ i <= Len(first) => whole[i] = first[i]
              /\ Len(first) < i /\ i <= Len(first) + Len(AdminPlan) =>
                    whole[i] = AdminPlan[i - Len(first)]
    BY <1>2, Joined, SmokePlanSteps
  <1> HIDE DEF whole
  <1>5. /\ Len(whole) = 37
        /\ \A i \in 1..30 : whole[i] = first[i]
        /\ \A i \in 31..37 : whole[i] = AdminPlan[i - 30]
    BY <1>3, <1>4, PartLengths
  <1>6. QED
    BY <1>1, <1>3, <1>5

LEMMA HttpSteps ==
  /\ Plan("http")[1] = Step(Nobody, "search", 0, {"unauthorized", "forbidden"})
  /\ Plan("http")[2] = Step(A, "create", 0, {"ok"})
  /\ Plan("http")[3] = Step(B, "read", 1, Denied)
  /\ Plan("http")[4] = Step(D, "read", 1, Denied)
  /\ Plan("http")[5] = Step(B, "run", 1, Denied)
  /\ Plan("http")[6] = Step(D, "run", 1, Denied)
  /\ Plan("http")[7] = Forging(Step(A, "run", 1, {"answered"}), B)
  /\ Plan("http")[8] = Leases("look", 1, {1})
  /\ Plan("http")[9] = Step(A, "state", 1, {"answered"})
  /\ Plan("http")[10] = Step(B, "create", 0, {"ok"})
  /\ Plan("http")[11] = Step(B, "run", 2, {"answered"})
  /\ Plan("http")[12] = Leases("look", 2, {2})
  /\ Plan("http")[13] = Step(A, "create", 0, {"ok"})
  /\ Plan("http")[14] = Waiting(Step(A, "background", 3, {"ok"}))
  /\ Plan("http")[15] = Leases("poll", 3, {2, 3})
  /\ Plan("http")[16] = Step(A, "cancel", 3, {"ok"})
  /\ Plan("http")[17] = Leases("poll", 3, {3})
  /\ Plan("http")[18] = Step(A, "read", 3, {"interrupted"})
  /\ Plan("http")[19] = Step(B, "create", 0, {"ok"})
  /\ Plan("http")[20] = Waiting(Step(B, "run", 4, {"timeout"}))
  /\ Plan("http")[21] = Leases("look", 4, {4})
  /\ Plan("http")[22] = [kind |-> "subjects", users |-> {A, B}]
  <1>1. \A i \in 1..12 : Plan("http")[i] = AnsweredPlan[i]
    BY HttpPlan
  <1>2. /\ Plan("http")[13] = CancelledPlan[1] /\ Plan("http")[14] = CancelledPlan[2]
        /\ Plan("http")[15] = CancelledPlan[3] /\ Plan("http")[16] = CancelledPlan[4]
        /\ Plan("http")[17] = CancelledPlan[5] /\ Plan("http")[18] = CancelledPlan[6]
        /\ Plan("http")[19] = TimeoutPlan[1] /\ Plan("http")[20] = TimeoutPlan[2]
        /\ Plan("http")[21] = TimeoutPlan[3] /\ Plan("http")[22] = TimeoutPlan[4]
    BY HttpPlan
  <1>3. QED
    BY <1>1, <1>2 DEF AnsweredPlan, CancelledPlan, TimeoutPlan

LEMMA SmokeFileSteps ==
  /\ Plan("smoke")[1] = Step(Nobody, "query", 0, {"unauthorized"})
  /\ Plan("smoke")[2] = Step(Nobody, "search", 0, {"unauthorized"})
  /\ Plan("smoke")[3] = File(A, 1, TRUE, {"ok"})
  /\ Plan("smoke")[4] = Seeing(Step(A, "file_list", A, {"ok"}), {A})
  /\ Plan("smoke")[5] = Step(A, "file_read", A, {"ok"})
  /\ Plan("smoke")[6] = File(B, 1, TRUE, {"ok"})
  /\ Plan("smoke")[7] = Seeing(Step(B, "file_list", B, {"ok"}), {B})
  /\ Plan("smoke")[8] = Step(B, "file_read", B, {"ok"})
  /\ Plan("smoke")[9] = Step(B, "file_read", A, {"absent"})
  /\ Plan("smoke")[10] = Step(B, "file_delete", A, {"absent"})
  /\ Plan("smoke")[11] = File(A, 1, FALSE, {"invalid"})
  /\ Plan("smoke")[12] = File(A, FileMax + 1, TRUE, {"too_large"})
  /\ Plan("smoke")[13] = Step(A, "tool_read", A, {"ok"})
  /\ Plan("smoke")[14] = Step(B, "tool_read", A, {"absent"})
  <1>1. /\ Plan("smoke")[1] = FilePlan[1]
        /\ Plan("smoke")[2] = FilePlan[2]
        /\ Plan("smoke")[3] = FilePlan[3]
    BY SmokePlan
  <1>2. /\ Plan("smoke")[4] = FilePlan[4]
        /\ Plan("smoke")[5] = FilePlan[5]
        /\ Plan("smoke")[6] = FilePlan[6]
    BY SmokePlan
  <1>3. /\ Plan("smoke")[7] = FilePlan[7]
        /\ Plan("smoke")[8] = FilePlan[8]
        /\ Plan("smoke")[9] = FilePlan[9]
    BY SmokePlan
  <1>4. /\ Plan("smoke")[10] = FilePlan[10]
        /\ Plan("smoke")[11] = FilePlan[11]
        /\ Plan("smoke")[12] = FilePlan[12]
    BY SmokePlan
  <1>5. /\ Plan("smoke")[13] = FilePlan[13]
        /\ Plan("smoke")[14] = FilePlan[14]
    BY SmokePlan
  <1>6. /\ FilePlan[1] = Step(Nobody, "query", 0, {"unauthorized"})
        /\ FilePlan[2] = Step(Nobody, "search", 0, {"unauthorized"})
        /\ FilePlan[3] = File(A, 1, TRUE, {"ok"})
    BY DEF FilePlan
  <1>7. /\ FilePlan[4] = Seeing(Step(A, "file_list", A, {"ok"}), {A})
        /\ FilePlan[5] = Step(A, "file_read", A, {"ok"})
        /\ FilePlan[6] = File(B, 1, TRUE, {"ok"})
    BY DEF FilePlan
  <1>8. /\ FilePlan[7] = Seeing(Step(B, "file_list", B, {"ok"}), {B})
        /\ FilePlan[8] = Step(B, "file_read", B, {"ok"})
        /\ FilePlan[9] = Step(B, "file_read", A, {"absent"})
    BY DEF FilePlan
  <1>9. /\ FilePlan[10] = Step(B, "file_delete", A, {"absent"})
        /\ FilePlan[11] = File(A, 1, FALSE, {"invalid"})
        /\ FilePlan[12] = File(A, FileMax + 1, TRUE, {"too_large"})
    BY DEF FilePlan
  <1>10. /\ FilePlan[13] = Step(A, "tool_read", A, {"ok"})
        /\ FilePlan[14] = Step(B, "tool_read", A, {"absent"})
    BY DEF FilePlan
  <1>11. QED
    BY <1>1, <1>2, <1>3, <1>4, <1>5, <1>6, <1>7, <1>8, <1>9, <1>10

LEMMA SmokeThreadSteps ==
  /\ Plan("smoke")[15] = Step(A, "assistant_search", 0, {"ok"})
  /\ Plan("smoke")[16] = Step(A, "assistant_read", 0, {"ok"})
  /\ Plan("smoke")[17] = Step(A, "assistant_create", 0, {"forbidden"})
  /\ Plan("smoke")[18] = Seeing(Forging(Step(A, "create", 0, {"ok"}), B), {1})
  /\ Plan("smoke")[19] = Seeing(Forging(Step(B, "create", 0, {"ok"}), A), {2})
  /\ Plan("smoke")[20] = Seeing(Step(A, "search", 0, {"ok"}), {1})
  /\ Plan("smoke")[21] = Seeing(Step(B, "search", 0, {"ok"}), {2})
  /\ Plan("smoke")[22] = Seeing(Step(A, "search", 0, {"ok"}), {1})
  /\ Plan("smoke")[23] = Seeing(Step(B, "search", 0, {"ok"}), {2})
  /\ Plan("smoke")[24] = Step(B, "read", 1, Denied)
  /\ Plan("smoke")[25] = Step(B, "state", 1, Denied)
  /\ Plan("smoke")[26] = Step(B, "write", 1, Denied)
  /\ Plan("smoke")[27] = Step(B, "patch", 1, Denied)
  /\ Plan("smoke")[28] = Step(B, "copy", 1, Denied \cup {"conflict"})
  /\ Plan("smoke")[29] = Step(B, "delete", 1, Denied)
  /\ Plan("smoke")[30] = Step(B, "run", 1, Denied)
  <1>1. /\ Plan("smoke")[15] = ThreadPlan[1]
        /\ Plan("smoke")[16] = ThreadPlan[2]
        /\ Plan("smoke")[17] = ThreadPlan[3]
        /\ Plan("smoke")[18] = ThreadPlan[4]
        /\ Plan("smoke")[19] = ThreadPlan[5]
        /\ Plan("smoke")[20] = ThreadPlan[6]
        /\ Plan("smoke")[21] = ThreadPlan[7]
        /\ Plan("smoke")[22] = ThreadPlan[8]
    BY SmokePlan
  <1>2. /\ Plan("smoke")[23] = ThreadPlan[9]
        /\ Plan("smoke")[24] = ThreadPlan[10]
        /\ Plan("smoke")[25] = ThreadPlan[11]
        /\ Plan("smoke")[26] = ThreadPlan[12]
        /\ Plan("smoke")[27] = ThreadPlan[13]
        /\ Plan("smoke")[28] = ThreadPlan[14]
        /\ Plan("smoke")[29] = ThreadPlan[15]
        /\ Plan("smoke")[30] = ThreadPlan[16]
    BY SmokePlan
  <1>3. /\ ThreadPlan[1] = Step(A, "assistant_search", 0, {"ok"})
        /\ ThreadPlan[2] = Step(A, "assistant_read", 0, {"ok"})
        /\ ThreadPlan[3] = Step(A, "assistant_create", 0, {"forbidden"})
        /\ ThreadPlan[4] = Seeing(Forging(Step(A, "create", 0, {"ok"}), B), {1})
        /\ ThreadPlan[5] = Seeing(Forging(Step(B, "create", 0, {"ok"}), A), {2})
        /\ ThreadPlan[6] = Seeing(Step(A, "search", 0, {"ok"}), {1})
        /\ ThreadPlan[7] = Seeing(Step(B, "search", 0, {"ok"}), {2})
        /\ ThreadPlan[8] = Seeing(Step(A, "search", 0, {"ok"}), {1})
    BY DEF ThreadPlan
  <1>4. /\ ThreadPlan[9] = Seeing(Step(B, "search", 0, {"ok"}), {2})
        /\ ThreadPlan[10] = Step(B, "read", 1, Denied)
        /\ ThreadPlan[11] = Step(B, "state", 1, Denied)
        /\ ThreadPlan[12] = Step(B, "write", 1, Denied)
        /\ ThreadPlan[13] = Step(B, "patch", 1, Denied)
        /\ ThreadPlan[14] = Step(B, "copy", 1, Denied \cup {"conflict"})
        /\ ThreadPlan[15] = Step(B, "delete", 1, Denied)
        /\ ThreadPlan[16] = Step(B, "run", 1, Denied)
    BY DEF ThreadPlan
  <1>5. QED
    BY <1>1, <1>2, <1>3, <1>4

LEMMA SmokeAdminSteps ==
  /\ Plan("smoke")[31] = [kind |-> "promote", user |-> B]
  /\ Plan("smoke")[32] = Step(B, "read", 1, Denied)
  /\ Plan("smoke")[33] = Step(B, "file_read", A, {"absent"})
  /\ Plan("smoke")[34] = Step(A, "read", 1, {"idle"})
  /\ Plan("smoke")[35] = [kind |-> "unchanged", thread |-> 1, owner |-> A]
  /\ Plan("smoke")[36] = Step(A, "file_delete", A, {"ok"})
  /\ Plan("smoke")[37] = [kind |-> "files", owners |-> {B}]
  <1>1. /\ Plan("smoke")[31] = AdminPlan[1]
        /\ Plan("smoke")[32] = AdminPlan[2]
        /\ Plan("smoke")[33] = AdminPlan[3]
        /\ Plan("smoke")[34] = AdminPlan[4]
        /\ Plan("smoke")[35] = AdminPlan[5]
        /\ Plan("smoke")[36] = AdminPlan[6]
        /\ Plan("smoke")[37] = AdminPlan[7]
    BY SmokePlan
  <1>2. /\ AdminPlan[1] = [kind |-> "promote", user |-> B]
        /\ AdminPlan[2] = Step(B, "read", 1, Denied)
        /\ AdminPlan[3] = Step(B, "file_read", A, {"absent"})
        /\ AdminPlan[4] = Step(A, "read", 1, {"idle"})
        /\ AdminPlan[5] = [kind |-> "unchanged", thread |-> 1, owner |-> A]
        /\ AdminPlan[6] = Step(A, "file_delete", A, {"ok"})
        /\ AdminPlan[7] = [kind |-> "files", owners |-> {B}]
    BY DEF AdminPlan
  <1>3. QED
    BY <1>1, <1>2

-----------------------------------------------------------------------------
(* What each step asks for, and why the script goes on after it.            *)

\* A request and what it is about.
Says(s, as, op, on, wanted, sees) ==
    /\ s.kind = "request" /\ s.wanted = wanted /\ s.sees = sees
    /\ s.request.as = as /\ s.request.op = op /\ s.request.on = on

LEMMA StepSays ==
  /\ \A as, op, on, wanted : Says(Step(as, op, on, wanted), as, op, on, wanted, {})
  /\ \A as, op, on, wanted :
        Says(Waiting(Step(as, op, on, wanted)), as, op, on, wanted, {})
  /\ \A as, op, on, wanted, user :
        Says(Forging(Step(as, op, on, wanted), user), as, op, on, wanted, {})
  /\ \A as, op, on, wanted, seen :
        Says(Seeing(Step(as, op, on, wanted), seen), as, op, on, wanted, seen)
  /\ \A as, op, on, wanted, user, seen :
        Says(Seeing(Forging(Step(as, op, on, wanted), user), seen), as, op, on, wanted, seen)
  <1>1. ASSUME NEW as, NEW op, NEW on, NEW wanted
        PROVE  /\ Says(Step(as, op, on, wanted), as, op, on, wanted, {})
               /\ Says(Waiting(Step(as, op, on, wanted)), as, op, on, wanted, {})
    BY DEF Says, Step, Waiting, Request
  <1>2. ASSUME NEW as, NEW op, NEW on, NEW wanted, NEW user, NEW seen
        PROVE  /\ Says(Forging(Step(as, op, on, wanted), user), as, op, on, wanted, {})
               /\ Says(Seeing(Step(as, op, on, wanted), seen), as, op, on, wanted, seen)
               /\ Says(Seeing(Forging(Step(as, op, on, wanted), user), seen),
                       as, op, on, wanted, seen)
    BY DEF Says, Step, Forging, Seeing, Request
  <1>3. QED
    BY <1>1, <1>2

LEMMA HttpSays ==
  /\ Says(Plan("http")[1], Nobody, "search", 0, {"unauthorized", "forbidden"}, {})
  /\ Says(Plan("http")[2], A, "create", 0, {"ok"}, {})
  /\ Says(Plan("http")[3], B, "read", 1, Denied, {})
  /\ Says(Plan("http")[4], D, "read", 1, Denied, {})
  /\ Says(Plan("http")[5], B, "run", 1, Denied, {})
  /\ Says(Plan("http")[6], D, "run", 1, Denied, {})
  /\ Says(Plan("http")[7], A, "run", 1, {"answered"}, {})
  /\ Says(Plan("http")[9], A, "state", 1, {"answered"}, {})
  /\ Says(Plan("http")[10], B, "create", 0, {"ok"}, {})
  /\ Says(Plan("http")[11], B, "run", 2, {"answered"}, {})
  /\ Says(Plan("http")[13], A, "create", 0, {"ok"}, {})
  /\ Says(Plan("http")[14], A, "background", 3, {"ok"}, {})
  /\ Says(Plan("http")[16], A, "cancel", 3, {"ok"}, {})
  /\ Says(Plan("http")[18], A, "read", 3, {"interrupted"}, {})
  /\ Says(Plan("http")[19], B, "create", 0, {"ok"}, {})
  /\ Says(Plan("http")[20], B, "run", 4, {"timeout"}, {})
  BY HttpSteps, StepSays

LEMMA SmokeFilesSay ==
  /\ Says(Plan("smoke")[1], Nobody, "query", 0, {"unauthorized"}, {})
  /\ Says(Plan("smoke")[2], Nobody, "search", 0, {"unauthorized"}, {})
  /\ Says(Plan("smoke")[4], A, "file_list", A, {"ok"}, {A})
  /\ Says(Plan("smoke")[5], A, "file_read", A, {"ok"}, {})
  /\ Says(Plan("smoke")[7], B, "file_list", B, {"ok"}, {B})
  /\ Says(Plan("smoke")[8], B, "file_read", B, {"ok"}, {})
  /\ Says(Plan("smoke")[9], B, "file_read", A, {"absent"}, {})
  /\ Says(Plan("smoke")[10], B, "file_delete", A, {"absent"}, {})
  /\ Says(Plan("smoke")[13], A, "tool_read", A, {"ok"}, {})
  /\ Says(Plan("smoke")[14], B, "tool_read", A, {"absent"}, {})
  BY SmokeFileSteps, StepSays

LEMMA SmokeThreadsSay ==
  /\ Says(Plan("smoke")[15], A, "assistant_search", 0, {"ok"}, {})
  /\ Says(Plan("smoke")[16], A, "assistant_read", 0, {"ok"}, {})
  /\ Says(Plan("smoke")[17], A, "assistant_create", 0, {"forbidden"}, {})
  /\ Says(Plan("smoke")[18], A, "create", 0, {"ok"}, {1})
  /\ Says(Plan("smoke")[19], B, "create", 0, {"ok"}, {2})
  /\ Says(Plan("smoke")[20], A, "search", 0, {"ok"}, {1})
  /\ Says(Plan("smoke")[21], B, "search", 0, {"ok"}, {2})
  /\ Says(Plan("smoke")[22], A, "search", 0, {"ok"}, {1})
  /\ Says(Plan("smoke")[23], B, "search", 0, {"ok"}, {2})
  /\ Says(Plan("smoke")[24], B, "read", 1, Denied, {})
  /\ Says(Plan("smoke")[25], B, "state", 1, Denied, {})
  /\ Says(Plan("smoke")[26], B, "write", 1, Denied, {})
  /\ Says(Plan("smoke")[27], B, "patch", 1, Denied, {})
  /\ Says(Plan("smoke")[28], B, "copy", 1, Denied \cup {"conflict"}, {})
  /\ Says(Plan("smoke")[29], B, "delete", 1, Denied, {})
  /\ Says(Plan("smoke")[30], B, "run", 1, Denied, {})
  BY SmokeThreadSteps, StepSays

LEMMA SmokeAdminSays ==
  /\ Says(Plan("smoke")[32], B, "read", 1, Denied, {})
  /\ Says(Plan("smoke")[33], B, "file_read", A, {"absent"}, {})
  /\ Says(Plan("smoke")[34], A, "read", 1, {"idle"}, {})
  /\ Says(Plan("smoke")[36], A, "file_delete", A, {"ok"}, {})
  BY SmokeAdminSteps, StepSays

-----------------------------------------------------------------------------
(* Why the answer a step gets is one it wants.                              *)

\* A step nothing lasting comes of, and one while a run goes on by itself.
Lasting(p, i) ==
    Births(p, i) = Births(p, i - 1) /\ Stored(p, i) = Stored(p, i - 1) /\ Ended(p, i) = Ended(p, i - 1)
Meantime(p, i) == p = "http" /\ i \in 14..16
Plain(p, i, wanted, sees, status) ==
    status \in wanted /\ sees = {} /\ Lasting(p, i) /\ ~Meantime(p, i)

\* A search shows the threads made so far, and one more is made.
SearchFits(p, i, as, wanted, sees) ==
    /\ p = "smoke" /\ "ok" \in wanted /\ Lasting(p, i)
    /\ sees = {t \in 1..Births(p, i - 1) : Maker(t) = as}
CreateFits(p, i, as, wanted, sees) ==
    /\ "ok" \in wanted /\ ~Meantime(p, i)
    /\ Births(p, i) = Births(p, i - 1) + 1 /\ as = Maker(Births(p, i))
    /\ sees = {} \/ sees = {Births(p, i)}
    /\ Stored(p, i) = Stored(p, i - 1) /\ Ended(p, i) = Ended(p, i - 1) /\ Ended(p, i) < Births(p, i)

\* What is asked of a thread that is there and one's own.
ReadFits(p, i, op, on, wanted, sees) ==
    /\ op \in {"read", "state"}
    /\ \/ p = "smoke" /\ Plain(p, i, wanted, sees, "idle")
       \/ p = "http" /\ on <= Ended(p, i - 1) /\ Plain(p, i, wanted, sees, End(on))
RunFits(p, i, op, on, wanted, sees) ==
    /\ p = "http" /\ sees = {}
    /\ \/ op = "run" /\ on \in {1, 2, 4} /\ i = RunStep(on) /\ End(on) \in wanted
       \/ op = "background" /\ on = 3 /\ i = 14 /\ "ok" \in wanted
       \/ op = "cancel" /\ on = 3 /\ i = 16 /\ "ok" \in wanted
Mine(p, i, as, on) == on \in 1..Births(p, i - 1) /\ Maker(on) = as
ThreadFits(p, i, as, op, on, wanted, sees) ==
    /\ on \in Nat
    /\ Mine(p, i, as, on) => ReadFits(p, i, op, on, wanted, sees) \/ RunFits(p, i, op, on, wanted, sees)
    /\ ~Mine(p, i, as, on) => Plain(p, i, wanted, sees, "absent")

\* Files: one's own are there, or were.
FileFits(p, i, as, op, on, wanted, sees) ==
    /\ p = "smoke"
    /\ op = "file_list" =>
          "ok" \in wanted /\ Lasting(p, i) /\ sees = {u \in Stored(p, i - 1) : u = as}
    /\ op # "file_list" /\ on = as /\ as \in Stored(p, i - 1) =>
          /\ "ok" \in wanted /\ sees = {} /\ Births(p, i) = Births(p, i - 1)
          /\ Stored(p, i) = IF op = "file_delete" THEN Stored(p, i - 1) \ {as} ELSE Stored(p, i - 1)
    /\ op # "file_list" /\ ~(on = as /\ as \in Stored(p, i - 1)) => Plain(p, i, wanted, sees, "absent")
UploadFits(p, i, as, b, wanted) ==
    /\ p = "smoke" /\ as \in Users /\ b.size \in Nat
    /\ b.size > FileMax => "too_large" \in wanted /\ Lasting(p, i)
    /\ b.size <= FileMax /\ ~b.intact => "invalid" \in wanted /\ Lasting(p, i)
    /\ b.size <= FileMax /\ b.intact =>
          /\ "ok" \in wanted /\ as \notin Stored(p, i - 1)
          /\ Stored(p, i) = Stored(p, i - 1) \cup {as} /\ Births(p, i) = Births(p, i - 1)

\* Every request: strangers are refused, and what is left to nobody is.
RequestFits(p, i, as, op, on, wanted, sees) ==
    /\ as = Nobody => Plain(p, i, wanted, sees, "unauthorized")
    /\ op = "query" => as = Nobody
    /\ as # Nobody =>
          /\ op = "assistant_create" => Plain(p, i, wanted, sees, "forbidden")
          /\ op \in {"assistant_search", "assistant_read"} => Plain(p, i, wanted, sees, "ok")
          /\ op = "search" => SearchFits(p, i, as, wanted, sees)
          /\ op = "create" => CreateFits(p, i, as, wanted, sees)
          /\ op \in ThreadOps \ {"search", "create"} => ThreadFits(p, i, as, op, on, wanted, sees)
          /\ op \in FileOps => FileFits(p, i, as, op, on, wanted, sees)

LEMMA Accounts ==
  /\ A \in Users /\ B \in Users /\ D \in Users
  /\ A # B /\ A # D /\ B # D /\ A # Nobody /\ B # Nobody /\ D # Nobody
  <1>1. A # B /\ A # D /\ B # D
    BY VerifierAssumption DEF A, B, D
  <1>2. QED
    BY <1>1, TokensAreUsers, TenantAssumption

LEMMA HttpFits ==
  /\ RequestFits("http", 1, Nobody, "search", 0, {"unauthorized", "forbidden"}, {})
  /\ RequestFits("http", 2, A, "create", 0, {"ok"}, {})
  /\ RequestFits("http", 3, B, "read", 1, Denied, {})
  /\ RequestFits("http", 4, D, "read", 1, Denied, {})
  /\ RequestFits("http", 5, B, "run", 1, Denied, {})
  /\ RequestFits("http", 6, D, "run", 1, Denied, {})
  /\ RequestFits("http", 7, A, "run", 1, {"answered"}, {})
  /\ RequestFits("http", 9, A, "state", 1, {"answered"}, {})
  /\ RequestFits("http", 10, B, "create", 0, {"ok"}, {})
  /\ RequestFits("http", 11, B, "run", 2, {"answered"}, {})
  /\ RequestFits("http", 13, A, "create", 0, {"ok"}, {})
  /\ RequestFits("http", 14, A, "background", 3, {"ok"}, {})
  /\ RequestFits("http", 16, A, "cancel", 3, {"ok"}, {})
  /\ RequestFits("http", 18, A, "read", 3, {"interrupted"}, {})
  /\ RequestFits("http", 19, B, "create", 0, {"ok"}, {})
  /\ RequestFits("http", 20, B, "run", 4, {"timeout"}, {})
  <1> USE Accounts
      DEF RequestFits, Meantime, Births, Stored, Ended, ThreadOps, Reads, Changes, FileOps
  <1>1. RequestFits("http", 1, Nobody, "search", 0, {"unauthorized", "forbidden"}, {})
    BY DEF Plain, Lasting
  <1>2. RequestFits("http", 2, A, "create", 0, {"ok"}, {})
    BY DEF CreateFits, Maker
  <1>3. RequestFits("http", 3, B, "read", 1, Denied, {})
    BY DEF ThreadFits, Mine, Maker, ReadFits, RunFits, Plain, Lasting, RunStep, End, Denied
  <1>4. RequestFits("http", 4, D, "read", 1, Denied, {})
    BY DEF ThreadFits, Mine, Maker, ReadFits, RunFits, Plain, Lasting, RunStep, End, Denied
  <1>5. RequestFits("http", 5, B, "run", 1, Denied, {})
    BY DEF ThreadFits, Mine, Maker, ReadFits, RunFits, Plain, Lasting, RunStep, End, Denied
  <1>6. RequestFits("http", 6, D, "run", 1, Denied, {})
    BY DEF ThreadFits, Mine, Maker, ReadFits, RunFits, Plain, Lasting, RunStep, End, Denied
  <1>7. RequestFits("http", 7, A, "run", 1, {"answered"}, {})
    BY DEF ThreadFits, Mine, Maker, ReadFits, RunFits, Plain, Lasting, RunStep, End, Denied
  <1>8. RequestFits("http", 9, A, "state", 1, {"answered"}, {})
    BY DEF ThreadFits, Mine, Maker, ReadFits, RunFits, Plain, Lasting, RunStep, End, Denied
  <1>9. RequestFits("http", 10, B, "create", 0, {"ok"}, {})
    BY DEF CreateFits, Maker
  <1>10. RequestFits("http", 11, B, "run", 2, {"answered"}, {})
    BY DEF ThreadFits, Mine, Maker, ReadFits, RunFits, Plain, Lasting, RunStep, End, Denied
  <1>11. RequestFits("http", 13, A, "create", 0, {"ok"}, {})
    BY DEF CreateFits, Maker
  <1>12. RequestFits("http", 14, A, "background", 3, {"ok"}, {})
    BY DEF ThreadFits, Mine, Maker, ReadFits, RunFits, Plain, Lasting, RunStep, End, Denied
  <1>13. RequestFits("http", 16, A, "cancel", 3, {"ok"}, {})
    BY DEF ThreadFits, Mine, Maker, ReadFits, RunFits, Plain, Lasting, RunStep, End, Denied
  <1>14. RequestFits("http", 18, A, "read", 3, {"interrupted"}, {})
    BY DEF ThreadFits, Mine, Maker, ReadFits, RunFits, Plain, Lasting, RunStep, End, Denied
  <1>15. RequestFits("http", 19, B, "create", 0, {"ok"}, {})
    BY DEF CreateFits, Maker
  <1>16. RequestFits("http", 20, B, "run", 4, {"timeout"}, {})
    BY DEF ThreadFits, Mine, Maker, ReadFits, RunFits, Plain, Lasting, RunStep, End, Denied
  <1>17. QED
    BY <1>1, <1>2, <1>3, <1>4, <1>5, <1>6, <1>7, <1>8, <1>9, <1>10, <1>11, <1>12, <1>13, <1>14,
       <1>15, <1>16

LEMMA SmokeFilesFit ==
  /\ RequestFits("smoke", 1, Nobody, "query", 0, {"unauthorized"}, {})
  /\ RequestFits("smoke", 2, Nobody, "search", 0, {"unauthorized"}, {})
  /\ RequestFits("smoke", 4, A, "file_list", A, {"ok"}, {A})
  /\ RequestFits("smoke", 5, A, "file_read", A, {"ok"}, {})
  /\ RequestFits("smoke", 7, B, "file_list", B, {"ok"}, {B})
  /\ RequestFits("smoke", 8, B, "file_read", B, {"ok"}, {})
  /\ RequestFits("smoke", 9, B, "file_read", A, {"absent"}, {})
  /\ RequestFits("smoke", 10, B, "file_delete", A, {"absent"}, {})
  /\ RequestFits("smoke", 13, A, "tool_read", A, {"ok"}, {})
  /\ RequestFits("smoke", 14, B, "tool_read", A, {"absent"}, {})
  <1> USE Accounts
      DEF RequestFits, Plain, Lasting, Meantime, Births, Stored, Ended, ThreadOps, Reads, Changes,
         FileOps
  <1>1. RequestFits("smoke", 1, Nobody, "query", 0, {"unauthorized"}, {})
    OBVIOUS
  <1>2. RequestFits("smoke", 2, Nobody, "search", 0, {"unauthorized"}, {})
    OBVIOUS
  <1>3. RequestFits("smoke", 4, A, "file_list", A, {"ok"}, {A})
    BY DEF FileFits
  <1>4. RequestFits("smoke", 5, A, "file_read", A, {"ok"}, {})
    BY DEF FileFits
  <1>5. RequestFits("smoke", 7, B, "file_list", B, {"ok"}, {B})
    BY DEF FileFits
  <1>6. RequestFits("smoke", 8, B, "file_read", B, {"ok"}, {})
    BY DEF FileFits
  <1>7. RequestFits("smoke", 9, B, "file_read", A, {"absent"}, {})
    BY DEF FileFits
  <1>8. RequestFits("smoke", 10, B, "file_delete", A, {"absent"}, {})
    BY DEF FileFits
  <1>9. RequestFits("smoke", 13, A, "tool_read", A, {"ok"}, {})
    BY DEF FileFits
  <1>10. RequestFits("smoke", 14, B, "tool_read", A, {"absent"}, {})
    BY DEF FileFits
  <1>11. QED
    BY <1>1, <1>2, <1>3, <1>4, <1>5, <1>6, <1>7, <1>8, <1>9, <1>10

LEMMA SmokeThreadsFit ==
  /\ RequestFits("smoke", 15, A, "assistant_search", 0, {"ok"}, {})
  /\ RequestFits("smoke", 16, A, "assistant_read", 0, {"ok"}, {})
  /\ RequestFits("smoke", 17, A, "assistant_create", 0, {"forbidden"}, {})
  /\ RequestFits("smoke", 18, A, "create", 0, {"ok"}, {1})
  /\ RequestFits("smoke", 19, B, "create", 0, {"ok"}, {2})
  /\ RequestFits("smoke", 20, A, "search", 0, {"ok"}, {1})
  /\ RequestFits("smoke", 21, B, "search", 0, {"ok"}, {2})
  /\ RequestFits("smoke", 22, A, "search", 0, {"ok"}, {1})
  /\ RequestFits("smoke", 23, B, "search", 0, {"ok"}, {2})
  /\ RequestFits("smoke", 24, B, "read", 1, Denied, {})
  /\ RequestFits("smoke", 25, B, "state", 1, Denied, {})
  /\ RequestFits("smoke", 26, B, "write", 1, Denied, {})
  /\ RequestFits("smoke", 27, B, "patch", 1, Denied, {})
  /\ RequestFits("smoke", 28, B, "copy", 1, Denied \cup {"conflict"}, {})
  /\ RequestFits("smoke", 29, B, "delete", 1, Denied, {})
  /\ RequestFits("smoke", 30, B, "run", 1, Denied, {})
  <1> USE Accounts
      DEF RequestFits, Births, Stored, Ended, ThreadOps, Reads, Changes, FileOps
  <1>1. RequestFits("smoke", 15, A, "assistant_search", 0, {"ok"}, {})
    BY DEF Plain, Lasting, Meantime
  <1>2. RequestFits("smoke", 16, A, "assistant_read", 0, {"ok"}, {})
    BY DEF Plain, Lasting, Meantime
  <1>3. RequestFits("smoke", 17, A, "assistant_create", 0, {"forbidden"}, {})
    BY DEF Plain, Lasting, Meantime
  <1>4. RequestFits("smoke", 18, A, "create", 0, {"ok"}, {1})
    BY DEF CreateFits, Meantime, Maker
  <1>5. RequestFits("smoke", 19, B, "create", 0, {"ok"}, {2})
    BY DEF CreateFits, Meantime, Maker
  <1>6. RequestFits("smoke", 20, A, "search", 0, {"ok"}, {1})
    BY DEF SearchFits, Lasting, Maker
  <1>7. RequestFits("smoke", 21, B, "search", 0, {"ok"}, {2})
    BY DEF SearchFits, Lasting, Maker
  <1>8. RequestFits("smoke", 22, A, "search", 0, {"ok"}, {1})
    BY DEF SearchFits, Lasting, Maker
  <1>9. RequestFits("smoke", 23, B, "search", 0, {"ok"}, {2})
    BY DEF SearchFits, Lasting, Maker
  <1>10. RequestFits("smoke", 24, B, "read", 1, Denied, {})
    BY DEF ThreadFits, Mine, Maker, ReadFits, RunFits, Plain, Lasting, Meantime, RunStep, End,
       Denied
  <1>11. RequestFits("smoke", 25, B, "state", 1, Denied, {})
    BY DEF ThreadFits, Mine, Maker, ReadFits, RunFits, Plain, Lasting, Meantime, RunStep, End,
       Denied
  <1>12. RequestFits("smoke", 26, B, "write", 1, Denied, {})
    BY DEF ThreadFits, Mine, Maker, ReadFits, RunFits, Plain, Lasting, Meantime, RunStep, End,
       Denied
  <1>13. RequestFits("smoke", 27, B, "patch", 1, Denied, {})
    BY DEF ThreadFits, Mine, Maker, ReadFits, RunFits, Plain, Lasting, Meantime, RunStep, End,
       Denied
  <1>14. RequestFits("smoke", 28, B, "copy", 1, Denied \cup {"conflict"}, {})
    BY DEF ThreadFits, Mine, Maker, ReadFits, RunFits, Plain, Lasting, Meantime, RunStep, End,
       Denied
  <1>15. RequestFits("smoke", 29, B, "delete", 1, Denied, {})
    BY DEF ThreadFits, Mine, Maker, ReadFits, RunFits, Plain, Lasting, Meantime, RunStep, End,
       Denied
  <1>16. RequestFits("smoke", 30, B, "run", 1, Denied, {})
    BY DEF ThreadFits, Mine, Maker, ReadFits, RunFits, Plain, Lasting, Meantime, RunStep, End,
       Denied
  <1>17. QED
    BY <1>1, <1>2, <1>3, <1>4, <1>5, <1>6, <1>7, <1>8, <1>9, <1>10, <1>11, <1>12, <1>13, <1>14,
       <1>15, <1>16

LEMMA SmokeAdminFits ==
  /\ RequestFits("smoke", 32, B, "read", 1, Denied, {})
  /\ RequestFits("smoke", 33, B, "file_read", A, {"absent"}, {})
  /\ RequestFits("smoke", 34, A, "read", 1, {"idle"}, {})
  /\ RequestFits("smoke", 36, A, "file_delete", A, {"ok"}, {})
  <1> USE Accounts
      DEF RequestFits, Plain, Lasting, Meantime, Births, Stored, Ended, ThreadOps, Reads, Changes,
         FileOps
  <1>1. RequestFits("smoke", 32, B, "read", 1, Denied, {})
    BY DEF ThreadFits, Mine, Maker, ReadFits, RunFits, RunStep, End, Denied
  <1>2. RequestFits("smoke", 33, B, "file_read", A, {"absent"}, {})
    BY DEF FileFits
  <1>3. RequestFits("smoke", 34, A, "read", 1, {"idle"}, {})
    BY DEF ThreadFits, Mine, Maker, ReadFits, RunFits, RunStep, End, Denied
  <1>4. RequestFits("smoke", 36, A, "file_delete", A, {"ok"}, {})
    BY DEF FileFits
  <1>5. QED
    BY <1>1, <1>2, <1>3, <1>4

\* A look at what the server counted or kept.
LookFits(p, i, s) ==
    p = "http" /\ Lasting(p, i) /\ i \notin 14..17 /\ s.acquired = Ended(p, i - 1) /\ s.released = {Ended(p, i - 1)}
PollFits(p, i, s) ==
    /\ p = "http" /\ Lasting(p, i) /\ i \in {15, 17}
    /\ i = 15 => s.acquired = 3
SubjectsFit(p, i, s) == p = "http" /\ i = 22 /\ s.users = {A, B}
UnchangedFits(p, i, s) ==
    p = "smoke" /\ Lasting(p, i) /\ s.thread = 1 /\ s.owner = A /\ Births(p, i - 1) = 2
FilesFit(p, i, s) == p = "smoke" /\ Lasting(p, i) /\ s.owners = Stored(p, i - 1)

StepFits(p, i, s) ==
    /\ s.kind = "request" =>
          RequestFits(p, i, s.request.as, s.request.op, s.request.on, s.wanted, s.sees)
    /\ s.kind = "upload" =>
          /\ s.sees = {} /\ s.body.declared = s.body.size
          /\ UploadFits(p, i, s.as, s.body, s.wanted)
    /\ s.kind = "look" => LookFits(p, i, s)
    /\ s.kind = "poll" => PollFits(p, i, s)
    /\ s.kind = "subjects" => SubjectsFit(p, i, s)
    /\ s.kind = "promote" => p = "smoke" /\ Lasting(p, i)
    /\ s.kind = "unchanged" => UnchangedFits(p, i, s)
    /\ s.kind = "files" => FilesFit(p, i, s)

LEMMA RequestIsFit ==
  ASSUME NEW p, NEW i, NEW s, NEW as, NEW op, NEW on, NEW wanted, NEW sees,
         Says(s, as, op, on, wanted, sees), RequestFits(p, i, as, op, on, wanted, sees)
  PROVE  StepFits(p, i, s)
  BY DEF Says, StepFits

LEMMA UploadsFit ==
  /\ StepFits("smoke", 3, File(A, 1, TRUE, {"ok"})) /\ StepFits("smoke", 6, File(B, 1, TRUE, {"ok"}))
  /\ StepFits("smoke", 11, File(A, 1, FALSE, {"invalid"}))
  /\ StepFits("smoke", 12, File(A, FileMax + 1, TRUE, {"too_large"}))
  <1> USE Accounts, UploadAssumption
      DEF StepFits, File, Upload, UploadFits, Lasting, Births, Stored, Ended
  <1>1. StepFits("smoke", 3, File(A, 1, TRUE, {"ok"})) /\ StepFits("smoke", 6, File(B, 1, TRUE, {"ok"}))
    OBVIOUS
  <1>2. StepFits("smoke", 11, File(A, 1, FALSE, {"invalid"}))
    OBVIOUS
  <1>3. StepFits("smoke", 12, File(A, FileMax + 1, TRUE, {"too_large"}))
    OBVIOUS
  <1>4. QED
    BY <1>1, <1>2, <1>3

LEMMA LooksFit ==
  /\ StepFits("http", 8, Leases("look", 1, {1})) /\ StepFits("http", 12, Leases("look", 2, {2}))
  /\ StepFits("http", 15, Leases("poll", 3, {2, 3})) /\ StepFits("http", 17, Leases("poll", 3, {3}))
  /\ StepFits("http", 21, Leases("look", 4, {4}))
  /\ StepFits("http", 22, [kind |-> "subjects", users |-> {A, B}])
  <1> USE DEF StepFits, LookFits, PollFits, SubjectsFit, Leases, Lasting, Births, Stored, Ended
  <1>1. StepFits("http", 8, Leases("look", 1, {1})) /\ StepFits("http", 12, Leases("look", 2, {2}))
    OBVIOUS
  <1>2. StepFits("http", 15, Leases("poll", 3, {2, 3})) /\ StepFits("http", 17, Leases("poll", 3, {3}))
    OBVIOUS
  <1>3. StepFits("http", 21, Leases("look", 4, {4}))
    OBVIOUS
  <1>4. StepFits("http", 22, [kind |-> "subjects", users |-> {A, B}])
    OBVIOUS
  <1>5. QED
    BY <1>1, <1>2, <1>3, <1>4

LEMMA OthersFit ==
  /\ StepFits("smoke", 31, [kind |-> "promote", user |-> B])
  /\ StepFits("smoke", 35, [kind |-> "unchanged", thread |-> 1, owner |-> A])
  /\ StepFits("smoke", 37, [kind |-> "files", owners |-> {B}])
  <1> USE DEF StepFits, UnchangedFits, FilesFit, Lasting, Births, Stored, Ended
  <1>1. StepFits("smoke", 31, [kind |-> "promote", user |-> B])
    OBVIOUS
  <1>2. StepFits("smoke", 35, [kind |-> "unchanged", thread |-> 1, owner |-> A])
    OBVIOUS
  <1>3. StepFits("smoke", 37, [kind |-> "files", owners |-> {B}])
    OBVIOUS
  <1>4. QED
    BY <1>1, <1>2, <1>3

LEMMA HttpStepsFit == \A i \in 1..22 : StepFits("http", i, Plan("http")[i])
  <1>1. /\ StepFits("http", 1, Plan("http")[1])
        /\ StepFits("http", 2, Plan("http")[2])
        /\ StepFits("http", 3, Plan("http")[3])
        /\ StepFits("http", 4, Plan("http")[4])
        /\ StepFits("http", 5, Plan("http")[5])
        /\ StepFits("http", 6, Plan("http")[6])
        /\ StepFits("http", 7, Plan("http")[7])
        /\ StepFits("http", 9, Plan("http")[9])
    BY HttpSays, HttpFits, RequestIsFit
  <1>2. /\ StepFits("http", 10, Plan("http")[10])
        /\ StepFits("http", 11, Plan("http")[11])
        /\ StepFits("http", 13, Plan("http")[13])
        /\ StepFits("http", 14, Plan("http")[14])
        /\ StepFits("http", 16, Plan("http")[16])
        /\ StepFits("http", 18, Plan("http")[18])
        /\ StepFits("http", 19, Plan("http")[19])
        /\ StepFits("http", 20, Plan("http")[20])
    BY HttpSays, HttpFits, RequestIsFit
  <1>3. /\ StepFits("http", 8, Plan("http")[8])
        /\ StepFits("http", 12, Plan("http")[12])
        /\ StepFits("http", 15, Plan("http")[15])
        /\ StepFits("http", 17, Plan("http")[17])
        /\ StepFits("http", 21, Plan("http")[21])
        /\ StepFits("http", 22, Plan("http")[22])
    BY HttpSteps, LooksFit
  <1>4. QED
    BY <1>1, <1>2, <1>3

LEMMA SmokeStepsFit == \A i \in 1..37 : StepFits("smoke", i, Plan("smoke")[i])
  <1>1. /\ StepFits("smoke", 1, Plan("smoke")[1])
        /\ StepFits("smoke", 2, Plan("smoke")[2])
        /\ StepFits("smoke", 4, Plan("smoke")[4])
        /\ StepFits("smoke", 5, Plan("smoke")[5])
        /\ StepFits("smoke", 7, Plan("smoke")[7])
        /\ StepFits("smoke", 8, Plan("smoke")[8])
        /\ StepFits("smoke", 9, Plan("smoke")[9])
        /\ StepFits("smoke", 10, Plan("smoke")[10])
        /\ StepFits("smoke", 13, Plan("smoke")[13])
        /\ StepFits("smoke", 14, Plan("smoke")[14])
    BY SmokeFilesSay, SmokeFilesFit, RequestIsFit
  <1>2. /\ StepFits("smoke", 3, Plan("smoke")[3])
        /\ StepFits("smoke", 6, Plan("smoke")[6])
        /\ StepFits("smoke", 11, Plan("smoke")[11])
        /\ StepFits("smoke", 12, Plan("smoke")[12])
    BY SmokeFileSteps, UploadsFit
  <1>3. /\ StepFits("smoke", 15, Plan("smoke")[15])
        /\ StepFits("smoke", 16, Plan("smoke")[16])
        /\ StepFits("smoke", 17, Plan("smoke")[17])
        /\ StepFits("smoke", 18, Plan("smoke")[18])
        /\ StepFits("smoke", 19, Plan("smoke")[19])
        /\ StepFits("smoke", 20, Plan("smoke")[20])
        /\ StepFits("smoke", 21, Plan("smoke")[21])
        /\ StepFits("smoke", 22, Plan("smoke")[22])
    BY SmokeThreadsSay, SmokeThreadsFit, RequestIsFit
  <1>4. /\ StepFits("smoke", 23, Plan("smoke")[23])
        /\ StepFits("smoke", 24, Plan("smoke")[24])
        /\ StepFits("smoke", 25, Plan("smoke")[25])
        /\ StepFits("smoke", 26, Plan("smoke")[26])
        /\ StepFits("smoke", 27, Plan("smoke")[27])
        /\ StepFits("smoke", 28, Plan("smoke")[28])
        /\ StepFits("smoke", 29, Plan("smoke")[29])
        /\ StepFits("smoke", 30, Plan("smoke")[30])
    BY SmokeThreadsSay, SmokeThreadsFit, RequestIsFit
  <1>5. /\ StepFits("smoke", 32, Plan("smoke")[32])
        /\ StepFits("smoke", 33, Plan("smoke")[33])
        /\ StepFits("smoke", 34, Plan("smoke")[34])
        /\ StepFits("smoke", 36, Plan("smoke")[36])
    BY SmokeAdminSays, SmokeAdminFits, RequestIsFit
  <1>6. /\ StepFits("smoke", 31, Plan("smoke")[31])
        /\ StepFits("smoke", 35, Plan("smoke")[35])
        /\ StepFits("smoke", 37, Plan("smoke")[37])
    BY SmokeAdminSteps, OthersFit
  <1>7. QED
    BY <1>1, <1>2, <1>3, <1>4, <1>5, <1>6
-----------------------------------------------------------------------------
(* What the server finds when the script asks.                              *)

LEMMA Numbers ==
  /\ \A p \in {"http", "smoke"}, d \in Int :
        /\ Births(p, d) \in 0..4 /\ Ended(p, d) \in 0..4 /\ Ended(p, d) <= Births(p, d)
        /\ p = "smoke" => Ended(p, d) = 0
        /\ p = "http" => Stored(p, d) = {}
  /\ \A t \in 1..4 :
        /\ RunStep(t) \in Nat
        /\ Births("http", RunStep(t) - 1) >= t /\ Births("http", RunStep(t)) = Births("http", RunStep(t) - 1)
        /\ Ended("http", RunStep(t) - 1) = t - 1
        /\ t # 3 => Ended("http", RunStep(t)) = t /\ RunStep(t) \notin 14..16
        /\ Maker(t) \in {A, B}
  /\ Ended("http", 14) = 2 /\ Ended("http", 15) = 2 /\ Ended("http", 16) = 3
  /\ Births("http", 14) = 3 /\ Births("http", 15) = 3 /\ Births("http", 16) = 3
  <1> USE DEF Births, Ended, Stored
  <1>1. \A p \in {"http", "smoke"}, d \in Int :
        /\ Births(p, d) \in 0..4 /\ Ended(p, d) \in 0..4 /\ Ended(p, d) <= Births(p, d)
        /\ p = "smoke" => Ended(p, d) = 0
        /\ p = "http" => Stored(p, d) = {}
    OBVIOUS
  <1>2. ASSUME NEW t \in 1..4
        PROVE  /\ RunStep(t) \in Nat
               /\ Births("http", RunStep(t) - 1) >= t /\ Births("http", RunStep(t)) = Births("http", RunStep(t) - 1)
               /\ Ended("http", RunStep(t) - 1) = t - 1
               /\ t # 3 => Ended("http", RunStep(t)) = t /\ RunStep(t) \notin 14..16
               /\ Maker(t) \in {A, B}
    <2>1. t \in {1, 2, 3, 4}
      OBVIOUS
    <2>2. QED
      BY <2>1 DEF RunStep, Maker
  <1>3. /\ Ended("http", 14) = 2 /\ Ended("http", 15) = 2 /\ Ended("http", 16) = 3
        /\ Births("http", 14) = 3 /\ Births("http", 15) = 3 /\ Births("http", 16) = 3
    OBVIOUS
  <1>4. QED
    BY <1>1, <1>2, <1>3

LEMMA NowFits ==
  ASSUME PlanInv, Scripted, at <= Len(Plan(plan))
  PROVE  Now \in Steps /\ StepFits(plan, at, Now)
  <1>1. plan \in {"http", "smoke"} /\ at \in Nat \ {0}
    BY DEF PlanInv, Scripted
  <1>2. Now \in Steps
    BY <1>1, ScriptSteps DEF Now
  <1>3. CASE plan = "http"
    <2>1. Len(Plan(plan)) = 22
      BY <1>3, HttpPlan
    <2>2. at \in 1..22
      BY <1>1, <2>1
    <2>3. QED
      BY <1>2, <1>3, <2>2, HttpStepsFit DEF Now
  <1>4. CASE plan = "smoke"
    <2>1. Len(Plan(plan)) = 37
      BY <1>4, SmokePlan
    <2>2. at \in 1..37
      BY <1>1, <2>1
    <2>3. QED
      BY <1>2, <1>4, <2>2, SmokeStepsFit DEF Now
  <1>5. QED
    BY <1>1, <1>3, <1>4

LEMMA OnlyScript ==
  ASSUME Alone, NEW c \in Clients, call[c] # NoCall
  PROVE  c = script
  BY DEF Alone

\* While no run goes on by itself, none is at work but the one that is waited for.
LEMMA NoneAtWork ==
  ASSUME AtWork, Scripted, at \in Nat, ~Meantime(plan, at), ~Phase(script, "running"), ~Heard
  PROVE  run = NoRun
  BY DEF AtWork, Meantime, Done

LEMMA AtServer ==
  ASSUME VerifierInv, OnCourse, Scripted, NEW c \in Clients,
         Phase(c, "sent") \/ Phase(c, "authorized")
  PROVE  /\ c = script /\ call[c] # NoCall /\ ~Heard /\ Done = at - 1
         /\ at \in Nat \ {0} /\ plan \in {"http", "smoke"}
         /\ Now.kind = "request" /\ call[c].op \in Ops
         /\ RequestFits(plan, at, call[c].as, call[c].op, call[c].on, Now.wanted, Now.sees)
         /\ Phase(c, "authorized") =>
               call[c].owner = call[c].as /\ call[c].as # Nobody /\ Handled(call[c].op)
         /\ call[c].waits = Now.request.waits
         /\ ~Phase(c, "running") /\ ~Phase(c, "cancelling")
         /\ ~Meantime(plan, at) => run = NoRun
  <1>1. c = script /\ call[c] # NoCall
    BY OnlyScript DEF OnCourse, Talking, Phase
  <1>2. Asking /\ at <= Len(Plan(plan)) /\ ~Heard
    BY <1>1 DEF OnCourse, Talking, Asking
  <1>3. PlanInv /\ at \in Nat \ {0} /\ plan \in {"http", "smoke"} /\ Done = at - 1
    BY <1>2 DEF VerifierInv, PlanInv, Scripted, Done
  <1>4. Now \in Steps /\ StepFits(plan, at, Now)
    BY <1>2, <1>3, NowFits
  <1>5. Now.kind = "request" /\ (call[c] = Now.request \/ call[c] = Authorized(Now.request))
    BY <1>1, <1>2 DEF Asking, Phase
  <1>6. Now.request \in SentCalls
    BY <1>4, <1>5 DEF Steps, RequestSteps
  <1>7. /\ call[c].as = Now.request.as /\ call[c].op = Now.request.op
        /\ call[c].on = Now.request.on /\ call[c].waits = Now.request.waits
    BY <1>5, <1>6 DEF Authorized, SentCalls, Calls
  <1>8. call[c].op \in Ops
    BY <1>6, <1>7 DEF SentCalls, Calls, Ops
  <1>9. RequestFits(plan, at, call[c].as, call[c].op, call[c].on, Now.wanted, Now.sees)
    BY <1>4, <1>5, <1>7 DEF StepFits
  <1>10. Phase(c, "authorized") =>
            call[c].owner = call[c].as /\ call[c].as # Nobody /\ Handled(call[c].op)
    BY <1>1, <1>2 DEF Asking, Phase, VerifierInv, TenantInv, Asks
  <1>11. ~Phase(c, "running") /\ ~Phase(c, "cancelling")
    BY DEF Phase
  <1>12. ~Meantime(plan, at) => run = NoRun
    BY <1>1, <1>2, <1>3, <1>11, NoneAtWork DEF OnCourse
  <1>13. QED
    BY <1>1, <1>2, <1>3, <1>5, <1>7, <1>8, <1>9, <1>10, <1>11, <1>12

\* What it sees is what it made.
LEMMA VisibleIsMine ==
  ASSUME World, Done = at - 1, at \in Nat, Scripted, NEW q, q.as # Nobody, NEW t \in Nat
  PROVE  t \in Visible(q) <=> Mine(plan, at, q.as, t)
  <1>1. Births(plan, at - 1) \in 0..4 /\ Births(plan, at - 1) <= MaxThreads
    BY Numbers DEF Scripted, World
  <1>2. Ids = 1..MaxThreads /\ MaxThreads \in Nat
    BY TenantAssumption DEF Ids
  <1>3. QED
    BY <1>1, <1>2 DEF World, Visible, Mine

\* The threads and files stay as they are.
LEMMA WorldLasts ==
  ASSUME World, World => Births(plan', Done') = Births(plan, Done),
         Stored(plan', Done') = Stored(plan, Done), Returned' = Returned,
         UNCHANGED <<plan, threads, files>>
  PROVE  World'
  BY DEF World

\* An answer the step wants.
LEMMA AnswerKeeps ==
  ASSUME VerifierInv, OnCourse, Scripted,
         Phase(script, "sent") \/ Phase(script, "authorized") \/ Phase(script, "uploading"),
         NEW status, NEW seen, Answer(script, status, seen),
         status \in Now.wanted, status # "none", Now.sees = {} \/ seen = Now.sees,
         ~Meantime(plan, at), Ended(plan, at) = Ended(plan, at - 1), run = NoRun,
         UNCHANGED <<pumpVars, runVars, scriptVars>>
  PROVE  /\ Done = at - 1 /\ Done' = at /\ Returned' = Returned
         /\ World' => OnCourse'
  <1>1. script \in Clients /\ call[script] # NoCall
    BY VerifierAssumption DEF Phase
  <1>2. Asking
    BY <1>1 DEF OnCourse, Talking
  <1>3. /\ call' = [call EXCEPT ![script] = NoCall] /\ call'[script] = NoCall
        /\ told'[script].status = status /\ told'[script].seen = seen
    BY <1>1 DEF Answer, VerifierInv, TenantInv, TenantTypeOK
  <1>4. /\ plan' = plan /\ at' = at /\ verdict' = verdict /\ leases' = leases
        /\ run' = run /\ acted' = acted
    BY DEF scriptVars, runVars
  <1>5. ~Heard /\ Heard' /\ Done = at - 1 /\ Done' = at /\ at <= Len(Plan(plan))
    BY <1>2, <1>3, <1>4 DEF Asking, Heard, Done
  <1>6. ~Phase(script, "cancelling") /\ ~Phase(script, "cancelling")' /\ Now' = Now
    BY <1>3, <1>4 DEF Phase, Now
  <1>7. Returned' = Returned
    BY <1>4, <1>5, <1>6 DEF Returned
  <1>8. Alone'
    BY <1>3 DEF OnCourse, Talking, Alone, VerifierInv, TenantInv, TenantTypeOK
  <1>9. Now.kind \in {"request", "upload"}
    BY <1>2 DEF Asking, Phase
  <1>10. Answered'
    BY <1>3, <1>4, <1>5, <1>6, <1>9 DEF Answered
  <1>11. Talking'
    BY <1>3, <1>4, <1>8, <1>10 DEF OnCourse, Talking
  <1>12. AtWork'
    BY <1>4, <1>5 DEF OnCourse, AtWork, Meantime, pumpVars, task, generator
  <1>13. Course'
    BY <1>4 DEF Course
  <1>14. Counters'
    BY <1>4, <1>7 DEF OnCourse, Counters, Granted
  <1>15. QED
    BY <1>5, <1>7, <1>11, <1>12, <1>13, <1>14 DEF OnCourse

\* An answer nothing lasting comes of.
LEMMA PlainAnswerKeeps ==
  ASSUME VerifierInv, OnCourse, Scripted,
         Phase(script, "sent") \/ Phase(script, "authorized") \/ Phase(script, "uploading"),
         NEW status, NEW seen, Answer(script, status, seen),
         status \in Now.wanted, status # "none", Now.sees = {} \/ seen = Now.sees,
         ~Meantime(plan, at), Lasting(plan, at), run = NoRun,
         UNCHANGED <<pumpVars, runVars, scriptVars, threads, files>>
  PROVE  OnCourse'
  <1>1. /\ Done = at - 1 /\ Done' = at /\ Returned' = Returned
        /\ World' => OnCourse'
    BY AnswerKeeps DEF Lasting
  <1>2. UNCHANGED plan
    BY DEF scriptVars
  <1>3. World'
    BY <1>1, <1>2, WorldLasts DEF Lasting, OnCourse
  <1>4. QED
    BY <1>1, <1>3
-----------------------------------------------------------------------------
(* Requests without a run.                                                  *)

\* A request that has come further and is not answered yet.
LEMMA FurtherKeeps ==
  ASSUME OnCourse, ~Phase(script, "running"), ~Phase(script, "cancelling"),
         ~Phase(script, "running")', ~Phase(script, "cancelling")', ~Heard, ~Heard',
         Alone', Asking', UNCHANGED <<pumpVars, runVars, scriptVars, threads, files>>
  PROVE  OnCourse'
  <1>1. /\ plan' = plan /\ at' = at /\ verdict' = verdict /\ leases' = leases
        /\ run' = run /\ acted' = acted
    BY DEF scriptVars, runVars
  <1>2. Done' = Done
    BY <1>1 DEF Done
  <1>3. Returned' = Returned
    BY <1>1, <1>2 DEF Returned
  <1>4. Talking'
    BY <1>1 DEF OnCourse, Talking
  <1>5. World'
    BY <1>1, <1>2, <1>3, WorldLasts DEF OnCourse
  <1>6. AtWork'
    BY <1>1, <1>2 DEF OnCourse, AtWork, pumpVars, task, generator
  <1>7. Course'
    BY <1>1, <1>2 DEF OnCourse, Course, Holding, LeftAlone, Cancelled, Overdue, Granted, pumpVars,
                      task, generator
  <1>8. Counters'
    BY <1>1, <1>3 DEF OnCourse, Counters, Granted, pumpVars, task
  <1>9. QED
    BY <1>4, <1>5, <1>6, <1>7, <1>8 DEF OnCourse

LEMMA AuthorizeOnCourse ==
  ASSUME VerifierInv, OnCourse, Scripted, NEW c \in Clients, Authorize(c),
         UNCHANGED <<pumpVars, runVars, scriptVars>>
  PROVE  OnCourse'
  <1>1. /\ c = script /\ call[c] # NoCall /\ ~Heard
        /\ RequestFits(plan, at, call[c].as, call[c].op, call[c].on, Now.wanted, Now.sees)
        /\ ~Phase(c, "running") /\ ~Phase(c, "cancelling") /\ Now.kind = "request"
        /\ ~Meantime(plan, at) => run = NoRun
    BY AtServer DEF Authorize
  <1>2. /\ Phase(script, "sent") /\ UNCHANGED <<threads, files>>
        /\ call[c].op \in ThreadOps \cup AssistantOps
    BY <1>1 DEF Authorize
  <1>3. CASE call[c].as = Nobody /\ Answer(c, "unauthorized", {})
    <2>1. Plain(plan, at, Now.wanted, Now.sees, "unauthorized")
      BY <1>1, <1>3 DEF RequestFits
    <2>2. QED
      BY <1>1, <1>2, <1>3, <2>1, PlainAnswerKeeps DEF Plain
  <1>4. CASE call[c].as # Nobody /\ ~Handled(call[c].op) /\ Answer(c, "forbidden", {})
    <2>1. call[c].op = "assistant_create"
      BY <1>2, <1>4 DEF Handled, AssistantOps
    <2>2. Plain(plan, at, Now.wanted, Now.sees, "forbidden")
      BY <1>1, <1>4, <2>1 DEF RequestFits
    <2>3. QED
      BY <1>1, <1>2, <1>4, <2>2, PlainAnswerKeeps DEF Plain
  <1>5. CASE /\ call[c].as # Nobody /\ Handled(call[c].op)
             /\ call' = [call EXCEPT ![c] = Authorized(call[c])] /\ UNCHANGED told
    <2>1. /\ call'[script] = Authorized(call[script]) /\ script \in Clients
          /\ \A d \in Clients \ {script} : call'[d] = call[d]
      BY <1>1, <1>5 DEF VerifierInv, TenantInv, TenantTypeOK
    <2>2. call[script] \in Calls({"sent", "authorized", "running", "cancelling", "uploading"})
      BY <1>1 DEF VerifierInv, TenantInv, TenantTypeOK
    <2>3. /\ Authorized(call[script]).phase = "authorized"
          /\ Authorized(call[script]).as = call[script].as
          /\ Authorized(call[script]).op = call[script].op
      BY <2>2 DEF Authorized, Calls
    <2>4. Asking /\ call[script] = Now.request
      BY <1>1, <1>2 DEF OnCourse, Talking, Asking, Phase
    <2>5. Now' = Now /\ Heard' = Heard /\ at' = at /\ plan' = plan
      BY <1>5 DEF Now, Heard, scriptVars
    <2>6. Asking'
      BY <1>1, <1>5, <2>1, <2>3, <2>4, <2>5 DEF Asking
    <2>7. Alone'
      BY <2>1 DEF OnCourse, Talking, Alone
    <2>8. ~Phase(script, "running")' /\ ~Phase(script, "cancelling")'
      BY <2>1, <2>3 DEF Phase
    <2>9. ~Heard'
      BY <1>1, <2>5
    <2>10. QED
      BY <1>1, <1>2, <2>6, <2>7, <2>8, <2>9, FurtherKeeps
  <1>6. QED
    BY <1>3, <1>4, <1>5 DEF Authorize

LEMMA SearchedOnCourse ==
  ASSUME VerifierInv, OnCourse, Scripted, NEW c \in Clients, Searched(c),
         UNCHANGED <<pumpVars, runVars, scriptVars>>
  PROVE  OnCourse'
  <1>1. /\ c = script /\ Done = at - 1 /\ at \in Nat \ {0}
        /\ RequestFits(plan, at, call[c].as, call[c].op, call[c].on, Now.wanted, Now.sees)
        /\ ~Meantime(plan, at) => run = NoRun
        /\ call[c].as # Nobody
    BY AtServer DEF Searched
  <1>2. SearchFits(plan, at, call[c].as, Now.wanted, Now.sees)
    BY <1>1 DEF RequestFits, Searched
  <1>3. ~Meantime(plan, at)
    BY <1>2 DEF SearchFits, Meantime
  <1>4. /\ \A t \in Nat : t \in Visible(call[c]) <=> Mine(plan, at, call[c].as, t)
        /\ Visible(call[c]) \subseteq Nat
    BY <1>1, VisibleIsMine DEF OnCourse, Visible, Ids
  <1>5. Visible(call[c]) = {t \in 1..Births(plan, at - 1) : Maker(t) = call[c].as}
    <2>1. Births(plan, at - 1) \in Nat
      BY <1>1, Numbers DEF Scripted
    <2>2. QED
      BY <1>4, <2>1 DEF Mine
  <1>6. QED
    BY <1>1, <1>2, <1>3, <1>5, PlainAnswerKeeps DEF Searched, SearchFits

LEMMA CreatedOnCourse ==
  ASSUME VerifierInv, OnCourse, Scripted, NEW c \in Clients, Created(c),
         UNCHANGED <<pumpVars, runVars, scriptVars>>
  PROVE  OnCourse'
  <1>1. /\ c = script /\ Done = at - 1 /\ at \in Nat \ {0} /\ plan \in {"http", "smoke"}
        /\ RequestFits(plan, at, call[c].as, call[c].op, call[c].on, Now.wanted, Now.sees)
        /\ ~Meantime(plan, at) => run = NoRun
        /\ call[c].as # Nobody /\ call[c].owner = call[c].as /\ ~Phase(c, "cancelling")
    BY AtServer DEF Created
  <1>2. CreateFits(plan, at, call[c].as, Now.wanted, Now.sees)
    BY <1>1 DEF RequestFits, Created
  <1>3. PICK t \in Ids : /\ IsNext(t) /\ threads' = [threads EXCEPT ![t] = Fresh(call[c].owner)]
                         /\ Answer(c, "ok", {t})
    BY DEF Created
  <1> DEFINE n == Births(plan, at - 1)
  <1>4. n \in Nat /\ n <= MaxThreads /\ \A s \in Ids : s <= n <=> threads[s] # Unborn
    BY <1>1, Numbers DEF OnCourse, World
  <1>5. Ids = 1..MaxThreads /\ MaxThreads \in Nat
    BY TenantAssumption DEF Ids
  <1>6. t = n + 1 /\ n + 1 <= MaxThreads
    <2>1. ~(t <= n)
      BY <1>3, <1>4 DEF IsNext
    <2>2. \A s \in 1..(t - 1) : threads[s] # Unborn
      BY <1>3 DEF IsNext
    <2>3. ~(n + 1 < t)
      <3>1. ASSUME n + 1 < t
            PROVE  FALSE
        <4>1. n + 1 \in Ids /\ n + 1 \in 1..(t - 1)
          BY <1>4, <1>5, <3>1
        <4>2. QED
          BY <1>4, <2>2, <4>1
      <3>2. QED
        BY <3>1
    <2>4. QED
      BY <1>4, <1>5, <2>1, <2>3
  <1>7. Births(plan, at) = t /\ call[c].owner = Maker(t)
    BY <1>1, <1>2, <1>6 DEF CreateFits
  <1>8. run = NoRun /\ Ended(plan, at) = Ended(plan, at - 1)
    BY <1>1, <1>2 DEF CreateFits
  <1>9. Now.sees = {} \/ {t} = Now.sees
    BY <1>2, <1>7 DEF CreateFits
  <1>10. Phase(script, "authorized") /\ ~Meantime(plan, at) /\ "ok" \in Now.wanted
    BY <1>1, <1>2 DEF CreateFits, Created
  <1>11. Done' = at /\ Returned' = Returned /\ (World' => OnCourse')
    BY <1>1, <1>3, <1>8, <1>9, <1>10, AnswerKeeps
  <1>12. Returned = Ended(plan, at - 1) /\ Returned < t /\ Returned \in Nat
    <2>1. Returned = Ended(plan, at - 1)
      BY <1>1, <1>8 DEF Returned
    <2>2. QED
      BY <1>1, <1>2, <1>7, <2>1, Numbers DEF CreateFits
  <1>13. World'
    <2>1. plan' = plan /\ files' = files
      BY DEF scriptVars, Created
    <2>2. Births(plan', Done') = t
      BY <1>7, <1>11, <2>1
    <2>3. Stored(plan', Done') = Stored(plan, Done)
      BY <1>1, <1>2, <1>11, <2>1 DEF CreateFits
    <2>4. threads'[t] = Fresh(Maker(t)) /\ \A s \in Ids \ {t} : threads'[s] = threads[s]
      BY <1>3, <1>7 DEF VerifierInv, TenantInv, TenantTypeOK
    <2>5. Fresh(Maker(t)) # Unborn /\ Fresh(Maker(t)).owner = Maker(t)
      BY DEF Fresh, Unborn
    <2>6. ASSUME NEW s \in Ids
          PROVE  /\ threads'[s].owner = IF s <= t THEN Maker(s) ELSE Nobody
                 /\ s <= t <=> threads'[s] # Unborn
                 /\ plan = "smoke" /\ s <= t => threads'[s] = Fresh(Maker(s))
                 /\ plan = "http" /\ s <= Returned => threads'[s].status = End(s)
      <3>1. CASE s = t
        BY <1>12, <2>4, <2>5, <3>1, <1>5
      <3>2. CASE s # t
        <4>1. s <= t <=> s <= n
          BY <1>4, <1>5, <1>6, <3>2
        <4>2. QED
          BY <1>1, <2>4, <3>2, <4>1 DEF OnCourse, World
      <3>3. QED
        BY <3>1, <3>2
    <2>7. QED
      BY <1>5, <1>6, <1>11, <2>1, <2>2, <2>3, <2>6 DEF OnCourse, World
  <1>14. QED
    BY <1>11, <1>13

LEMMA ThreadReadsOnCourse ==
  ASSUME VerifierInv, OnCourse, Scripted, NEW c \in Clients, NotVisible(c) \/ ReadThread(c),
         UNCHANGED <<pumpVars, runVars, scriptVars>>
  PROVE  OnCourse'
  <1>1. /\ c = script /\ Done = at - 1 /\ at \in Nat \ {0} /\ plan \in {"http", "smoke"}
        /\ RequestFits(plan, at, call[c].as, call[c].op, call[c].on, Now.wanted, Now.sees)
        /\ ~Meantime(plan, at) => run = NoRun
        /\ call[c].as # Nobody /\ ~Phase(c, "cancelling")
    BY AtServer DEF NotVisible, ReadThread
  <1>2. /\ call[c].op \in ThreadOps \ {"search", "create"} /\ Phase(script, "authorized")
        /\ UNCHANGED <<threads, files>>
    BY <1>1 DEF NotVisible, ReadThread, ThreadOps, Reads
  <1>3. ThreadFits(plan, at, call[c].as, call[c].op, call[c].on, Now.wanted, Now.sees)
    BY <1>1, <1>2 DEF RequestFits
  <1>4. call[c].on \in Visible(call[c]) <=> Mine(plan, at, call[c].as, call[c].on)
    BY <1>1, <1>3, VisibleIsMine DEF OnCourse, ThreadFits
  <1>5. CASE NotVisible(c)
    <2>1. Plain(plan, at, Now.wanted, Now.sees, "absent")
      BY <1>3, <1>4, <1>5 DEF NotVisible, ThreadFits
    <2>2. QED
      BY <1>1, <1>2, <1>5, <2>1, PlainAnswerKeeps DEF NotVisible, Plain
  <1>6. CASE ReadThread(c)
    <2> DEFINE t == call[c].on
               status == threads[t].status
    <2>1. /\ Mine(plan, at, call[c].as, t) /\ t \in Ids
          /\ ReadFits(plan, at, call[c].op, t, Now.wanted, Now.sees)
      BY <1>3, <1>4, <1>6 DEF ReadThread, ThreadFits, RunFits, Visible
    <2>2. Plain(plan, at, Now.wanted, Now.sees, status) /\ status # "none"
      <3>1. CASE plan = "smoke"
        <4>1. t <= Births(plan, Done)
          BY <1>1, <2>1 DEF Mine
        <4>2. threads[t] = Fresh(Maker(t))
          BY <2>1, <3>1, <4>1 DEF OnCourse, World
        <4>3. status = "idle"
          BY <4>2 DEF Fresh
        <4>4. QED
          BY <2>1, <3>1, <4>3 DEF ReadFits
      <3>2. CASE plan = "http"
        <4>1. Plain(plan, at, Now.wanted, Now.sees, End(t)) /\ t <= Ended(plan, at - 1)
          BY <2>1, <3>2 DEF ReadFits
        <4>2. run = NoRun
          BY <1>1, <4>1 DEF Plain
        <4>3. Returned = Ended(plan, at - 1)
          BY <1>1, <4>2 DEF Returned
        <4>4. status = End(t)
          BY <2>1, <3>2, <4>1, <4>3 DEF OnCourse, World
        <4>5. QED
          BY <4>1, <4>4 DEF End
      <3>3. QED
        BY <1>1, <3>1, <3>2
    <2>3. Answer(script, status, {t})
      BY <1>1, <1>6 DEF ReadThread
    <2> HIDE DEF t, status
    <2>4. QED
      BY <1>1, <1>2, <2>2, <2>3, PlainAnswerKeeps DEF Plain
  <1>7. QED
    BY <1>5, <1>6

\* No script changes a thread of its own.
LEMMA NoThreadChanges ==
  ASSUME VerifierInv, OnCourse, Scripted, NEW c \in Clients, NEW busy, ChangeThread(c, busy)
  PROVE  FALSE
  <1>1. /\ Done = at - 1 /\ at \in Nat \ {0}
        /\ RequestFits(plan, at, call[c].as, call[c].op, call[c].on, Now.wanted, Now.sees)
        /\ call[c].as # Nobody
    BY AtServer DEF ChangeThread
  <1>2. call[c].op \in Changes /\ call[c].op \in ThreadOps \ {"search", "create"}
    BY DEF ChangeThread, ThreadOps, Changes
  <1>3. ThreadFits(plan, at, call[c].as, call[c].op, call[c].on, Now.wanted, Now.sees)
    BY <1>1, <1>2 DEF RequestFits
  <1>4. Mine(plan, at, call[c].as, call[c].on)
    BY <1>1, <1>3, VisibleIsMine DEF OnCourse, ThreadFits, ChangeThread
  <1>5. QED
    BY <1>2, <1>3, <1>4 DEF ThreadFits, ReadFits, RunFits, Changes

LEMMA AssistantsOnCourse ==
  ASSUME VerifierInv, OnCourse, Scripted, NEW c \in Clients, ReadAssistant(c),
         UNCHANGED <<pumpVars, runVars, scriptVars>>
  PROVE  OnCourse'
  <1>1. /\ c = script /\ call[c].as # Nobody /\ Handled(call[c].op)
        /\ RequestFits(plan, at, call[c].as, call[c].op, call[c].on, Now.wanted, Now.sees)
        /\ ~Meantime(plan, at) => run = NoRun
    BY AtServer DEF ReadAssistant
  <1>2. call[c].op \in {"assistant_search", "assistant_read"}
    BY <1>1 DEF ReadAssistant, Handled, AssistantOps, ThreadOps, Reads, Changes
  <1>3. Plain(plan, at, Now.wanted, Now.sees, "ok")
    BY <1>1, <1>2 DEF RequestFits
  <1>4. QED
    BY <1>1, <1>3, PlainAnswerKeeps DEF ReadAssistant, Plain

LEMMA FilesOnCourse ==
  ASSUME VerifierInv, OnCourse, Scripted, NEW c \in Clients, FileCall(c),
         UNCHANGED <<pumpVars, runVars, scriptVars>>
  PROVE  OnCourse'
  <1>1. /\ c = script /\ Done = at - 1 /\ at \in Nat \ {0} /\ plan \in {"http", "smoke"}
        /\ RequestFits(plan, at, call[c].as, call[c].op, call[c].on, Now.wanted, Now.sees)
        /\ ~Meantime(plan, at) => run = NoRun
    BY AtServer DEF FileCall
  <1>2. Phase(script, "sent") /\ call[c].op \in FileOps /\ UNCHANGED threads
    BY <1>1 DEF FileCall
  <1> DEFINE as == call[c].as
             f == call[c].on
  <1>3. CASE as = Nobody /\ Answer(c, "unauthorized", {}) /\ UNCHANGED files
    <2>1. Plain(plan, at, Now.wanted, Now.sees, "unauthorized")
      BY <1>1, <1>3 DEF RequestFits
    <2>2. QED
      BY <1>1, <1>2, <1>3, <2>1, PlainAnswerKeeps DEF Plain
  <1>4. ASSUME as # Nobody
        PROVE  /\ FileFits(plan, at, as, call[c].op, f, Now.wanted, Now.sees)
               /\ plan = "smoke" /\ run = NoRun /\ ~Meantime(plan, at)
               /\ files = Stored(plan, at - 1) /\ Ended(plan, at) = Ended(plan, at - 1)
    <2>1. FileFits(plan, at, as, call[c].op, f, Now.wanted, Now.sees)
      BY <1>1, <1>2, <1>4 DEF RequestFits
    <2>2. plan = "smoke"
      BY <2>1 DEF FileFits
    <2>3. ~Meantime(plan, at) /\ files = Stored(plan, at - 1)
      BY <1>1, <2>2 DEF Meantime, OnCourse, World
    <2>4. Ended(plan, at) = Ended(plan, at - 1)
      BY <2>2 DEF Ended
    <2>5. QED
      BY <1>1, <2>1, <2>2, <2>3, <2>4
  <1>5. CASE /\ as # Nobody /\ call[c].op = "file_list"
             /\ Answer(c, "ok", {g \in files : OwnFile(as, g)}) /\ UNCHANGED files
    <2>1. "ok" \in Now.wanted /\ Lasting(plan, at) /\ Now.sees = {u \in files : u = as}
      BY <1>4, <1>5 DEF FileFits
    <2>2. {g \in files : OwnFile(as, g)} = {u \in files : u = as}
      BY DEF OwnFile
    <2>3. QED
      BY <1>1, <1>2, <1>4, <1>5, <2>1, <2>2, PlainAnswerKeeps
  <1>6. CASE /\ as # Nobody /\ call[c].op # "file_list" /\ ~OwnFile(as, f)
             /\ Answer(c, "absent", {}) /\ UNCHANGED files
    <2>1. Plain(plan, at, Now.wanted, Now.sees, "absent")
      BY <1>4, <1>6 DEF FileFits, OwnFile
    <2>2. QED
      BY <1>1, <1>2, <1>6, <2>1, PlainAnswerKeeps DEF Plain
  <1>7. CASE /\ as # Nobody /\ call[c].op # "file_list" /\ OwnFile(as, f)
             /\ Answer(c, "ok", {f})
             /\ files' = IF call[c].op = "file_delete" THEN files \ {f} ELSE files
    <2>1. f = as /\ as \in Stored(plan, at - 1)
      BY <1>4, <1>7 DEF OwnFile
    <2>2. /\ "ok" \in Now.wanted /\ Now.sees = {} /\ Births(plan, at) = Births(plan, at - 1)
          /\ files' = Stored(plan, at)
      BY <1>4, <1>7, <2>1 DEF FileFits
    <2>3. Answer(script, "ok", {f}) /\ "ok" # "none"
      BY <1>1, <1>7
    <2> HIDE DEF f, as
    <2>4. Done' = at /\ Returned' = Returned /\ (World' => OnCourse')
      BY <1>1, <1>2, <1>4, <1>7, <2>2, <2>3, AnswerKeeps
    <2>5. plan' = plan
      BY DEF scriptVars
    <2>6. World'
      BY <1>1, <1>2, <2>2, <2>4, <2>5 DEF OnCourse, World
    <2>7. QED
      BY <2>4, <2>6
  <1>8. QED
    BY <1>3, <1>5, <1>6, <1>7 DEF FileCall

\* What arrives of a body changes nothing else.
LEMMA SilentlyKeeps ==
  ASSUME OnCourse, call[script] # NoCall => Asking',
         UNCHANGED <<pumpVars, runVars, scriptVars, threads, files, call, told>>
  PROVE  OnCourse'
  <1>1. /\ plan' = plan /\ at' = at /\ verdict' = verdict /\ leases' = leases
        /\ run' = run /\ acted' = acted
    BY DEF scriptVars, runVars
  <1>2. Done' = Done /\ (Heard' <=> Heard) /\ Now' = Now
        /\ \A phase : Phase(script, phase)' <=> Phase(script, phase)
    BY <1>1 DEF Done, Heard, Now, Phase
  <1>3. Returned' = Returned
    BY <1>1, <1>2 DEF Returned
  <1>4. Talking'
    BY <1>1, <1>2 DEF OnCourse, Talking, Alone, Answered
  <1>5. World'
    BY <1>1, <1>2, <1>3, WorldLasts DEF OnCourse
  <1>6. AtWork'
    BY <1>1, <1>2 DEF OnCourse, AtWork, pumpVars, task, generator
  <1>7. Course'
    BY <1>1, <1>2 DEF OnCourse, Course, Holding, LeftAlone, Cancelled, Overdue, Granted, pumpVars,
                      task, generator
  <1>8. Counters'
    BY <1>1, <1>3 DEF OnCourse, Counters, Granted, pumpVars, task
  <1>9. QED
    BY <1>4, <1>5, <1>6, <1>7, <1>8 DEF OnCourse

LEMMA UploadIsNoNone == \A b \in Uploads : b # NoBody
  <1>1. \A b \in Uploads : "size" \in DOMAIN b
    BY DEF Uploads
  <1>2. DOMAIN NoBody = {}
    BY DEF NoBody
  <1>3. QED
    BY <1>1, <1>2

LEMMA ContinuesOnCourse ==
  ASSUME VerifierInv, OnCourse, Scripted, NEW c \in Clients, UploadContinues(c),
         UNCHANGED <<pumpVars, runVars, scriptVars>>
  PROVE  OnCourse'
  <1>1. UNCHANGED <<threads, files, call, told>> /\ Receive(c)
    BY DEF UploadContinues
  <1>2. body[script] # NoBody =>
          /\ body'[script] # NoBody
          /\ body'[script].size = body[script].size
          /\ body'[script].declared = body[script].declared
          /\ body'[script].intact = body[script].intact
          /\ body[script].got <= body[script].size => body'[script].got <= body'[script].size
    <2>1. PICK n \in 1..ChunkMax : /\ body[c].got + n <= body[c].size
                                   /\ body' = [body EXCEPT ![c].got = @ + n]
      BY <1>1 DEF Receive
    <2>2. body[c] \in Uploads /\ body \in [Clients -> Uploads \cup {NoBody}]
      BY <1>1 DEF Receive, VerifierInv, TenantInv, TenantTypeOK, UploadTypeOK
    <2>3. CASE c = script
      <3>1. body'[script] = [body[script] EXCEPT !.got = body[script].got + n]
        BY <2>1, <2>2, <2>3
      <3>2. body'[script] \in Uploads
        BY <2>2, <2>3, <3>1, UploadAssumption DEF Uploads
      <3>3. /\ body'[script].size = body[script].size
            /\ body'[script].declared = body[script].declared
            /\ body'[script].intact = body[script].intact
            /\ body'[script].got = body[script].got + n
        BY <2>2, <2>3, <3>1 DEF Uploads
      <3>4. body'[script] # NoBody
        BY <3>2, UploadIsNoNone
      <3>5. QED
        BY <2>1, <2>3, <3>3, <3>4
    <2>4. CASE c # script
      BY <2>1, <2>2, <2>4, VerifierAssumption
    <2>5. QED
      BY <2>3, <2>4
  <1>3. call[script] # NoCall => Asking'
    <2>1. /\ plan' = plan /\ at' = at /\ run' = run /\ Now' = Now /\ (Heard' <=> Heard)
      BY <1>1 DEF scriptVars, runVars, Now, Heard
    <2>2. call[script] # NoCall => Asking
      BY DEF OnCourse, Talking
    <2>3. SUFFICES ASSUME call[script] # NoCall PROVE Asking'
      OBVIOUS
    <2>4. Asking /\ call' = call /\ call'[script] = call[script]
      BY <1>1, <2>2, <2>3
    <2>5. call[script].phase = "uploading" =>
            /\ body'[script] # NoBody
            /\ body'[script].size = Now.body.size /\ body'[script].declared = Now.body.declared
            /\ body'[script].intact = Now.body.intact /\ body'[script].got <= Now.body.size
      <3>1. SUFFICES ASSUME call[script].phase = "uploading"
                     PROVE  /\ body'[script] # NoBody
                            /\ body'[script].size = Now.body.size
                            /\ body'[script].declared = Now.body.declared
                            /\ body'[script].intact = Now.body.intact
                            /\ body'[script].got <= Now.body.size
        OBVIOUS
      <3>2. /\ body[script] # NoBody
            /\ body[script].size = Now.body.size /\ body[script].declared = Now.body.declared
            /\ body[script].intact = Now.body.intact /\ body[script].got <= Now.body.size
        BY <2>4, <3>1 DEF Asking
      <3>3. /\ body'[script] # NoBody /\ body'[script].size = body[script].size
            /\ body'[script].declared = body[script].declared
            /\ body'[script].intact = body[script].intact
        BY <1>2, <3>2
      <3>4. body[script].got <= body[script].size
        BY <3>2
      <3>5. body'[script].got <= body'[script].size
        BY <1>2, <3>2, <3>4
      <3>6. QED
        BY <3>2, <3>3, <3>5
    <2>6. QED
      BY <2>1, <2>4, <2>5 DEF Asking
  <1>4. QED
    BY <1>1, <1>3, SilentlyKeeps

LEMMA AtUpload ==
  ASSUME VerifierInv, OnCourse, Scripted, NEW c \in Clients, Phase(c, "uploading")
  PROVE  /\ c = script /\ Done = at - 1 /\ at \in Nat \ {0} /\ plan = "smoke" /\ run = NoRun
         /\ body[c] \in Uploads /\ body[c].declared = body[c].size /\ body[c].got <= body[c].size
         /\ UploadFits(plan, at, call[c].as, body[c], Now.wanted) /\ Now.sees = {}
         /\ call[c].as \in Users /\ ~Meantime(plan, at)
         /\ files = Stored(plan, at - 1) /\ Ended(plan, at) = Ended(plan, at - 1)
  <1>1. c = script /\ call[c] # NoCall
    BY OnlyScript DEF OnCourse, Talking, Phase
  <1>2. Asking /\ at <= Len(Plan(plan)) /\ ~Heard
    BY <1>1 DEF OnCourse, Talking, Asking
  <1>3. PlanInv /\ at \in Nat \ {0} /\ plan \in {"http", "smoke"} /\ Done = at - 1
    BY <1>2 DEF VerifierInv, PlanInv, Scripted, Done
  <1>4. StepFits(plan, at, Now)
    BY <1>2, <1>3, NowFits
  <1>5. /\ Now.kind = "upload" /\ call[c].as = Now.as /\ body[c] # NoBody
        /\ body[c].size = Now.body.size /\ body[c].declared = Now.body.declared
        /\ body[c].intact = Now.body.intact /\ body[c].got <= Now.body.size
    BY <1>1, <1>2 DEF Asking, Phase
  <1>6. /\ Now.sees = {} /\ Now.body.declared = Now.body.size
        /\ UploadFits(plan, at, Now.as, Now.body, Now.wanted)
    BY <1>4, <1>5 DEF StepFits
  <1>7. UploadFits(plan, at, call[c].as, body[c], Now.wanted)
    BY <1>5, <1>6 DEF UploadFits
  <1>8. plan = "smoke" /\ call[c].as \in Users
    BY <1>7 DEF UploadFits
  <1>9. body[c] \in Uploads
    BY <1>1, <1>5 DEF VerifierInv, TenantInv, TenantTypeOK, UploadTypeOK
  <1>10. run = NoRun /\ ~Meantime(plan, at)
    BY <1>8 DEF OnCourse, AtWork, Meantime
  <1>11. files = Stored(plan, at - 1) /\ Ended(plan, at) = Ended(plan, at - 1)
    BY <1>3, <1>8 DEF OnCourse, World, Ended
  <1>12. QED
    BY <1>1, <1>3, <1>5, <1>6, <1>7, <1>8, <1>9, <1>10, <1>11

LEMMA UploadedOnCourse ==
  ASSUME VerifierInv, OnCourse, Scripted, NEW c \in Clients, UploadEnds(c),
         UNCHANGED <<pumpVars, runVars, scriptVars>>
  PROVE  OnCourse'
  <1> DEFINE as == call[c].as
             judgement == FileVerdict(body[c])
  <1>1. /\ c = script /\ Done = at - 1 /\ at \in Nat \ {0} /\ plan = "smoke" /\ run = NoRun
        /\ body[c] \in Uploads /\ body[c].declared = body[c].size /\ body[c].got <= body[c].size
        /\ UploadFits(plan, at, as, body[c], Now.wanted) /\ Now.sees = {}
        /\ as \in Users /\ ~Meantime(plan, at)
        /\ files = Stored(plan, at - 1) /\ Ended(plan, at) = Ended(plan, at - 1)
    BY AtUpload DEF UploadEnds
  <1>2. Phase(script, "uploading") /\ UNCHANGED threads
    BY <1>1 DEF UploadEnds
  <1>3. ASSUME NEW status, Answer(c, status, {}), UNCHANGED files, status # "none",
               status \in Now.wanted, Lasting(plan, at)
        PROVE  OnCourse'
    BY <1>1, <1>2, <1>3, PlainAnswerKeeps
  <1>4. CASE BodyRefused(c) /\ Answer(c, Refusal(body[c]), {}) /\ UNCHANGED files
    <2>1. Refusal(body[c]) = "too_large" /\ body[c].size > FileMax
      <3>1. body[c].declared \in Nat /\ body[c].got \in Nat /\ body[c].size \in Nat
        BY <1>1 DEF Uploads
      <3>2. body[c].declared # Unreadable
        BY <3>1 DEF Unreadable
      <3>3. Refusal(body[c]) = "too_large" /\ (body[c].declared > RequestMax \/ body[c].got > RequestMax)
        BY <1>4, <3>2 DEF BodyRefused, Refusal
      <3>4. QED
        BY <1>1, <3>1, <3>3, UploadAssumption
    <2>2. "too_large" \in Now.wanted /\ Lasting(plan, at)
      BY <1>1, <2>1 DEF UploadFits
    <2>3. QED
      BY <1>3, <1>4, <2>1, <2>2
  <1>5. ASSUME as # Nobody /\ judgement # "stored" /\ Answer(c, judgement, {}) /\ UNCHANGED files
        PROVE  OnCourse'
    <2>1. judgement \in Now.wanted /\ Lasting(plan, at) /\ judgement # "none"
      BY <1>1, <1>5, UploadAssumption DEF UploadFits, FileVerdict, Uploads
    <2> HIDE DEF judgement
    <2>2. QED
      BY <1>3, <1>5, <2>1
  <1>6. ASSUME judgement = "stored"
        PROVE  /\ "ok" \in Now.wanted /\ as \notin files
               /\ Stored(plan, at) = files \cup {as} /\ Births(plan, at) = Births(plan, at - 1)
    <2>1. body[c].size <= FileMax /\ body[c].intact
      BY <1>1, <1>6, UploadAssumption DEF FileVerdict, Uploads
    <2>2. QED
      BY <1>1, <2>1 DEF UploadFits
  <1>7. ASSUME as \notin files \cup {Nobody} /\ judgement = "stored",
               Answer(c, "ok", {as}) /\ files' = files \cup {as}
        PROVE  OnCourse'
    <2>1. /\ "ok" \in Now.wanted /\ "ok" # "none" /\ Answer(script, "ok", {as})
          /\ files' = Stored(plan, at) /\ Births(plan, at) = Births(plan, at - 1)
      BY <1>1, <1>6, <1>7
    <2> HIDE DEF as
    <2>2. Done' = at /\ Returned' = Returned /\ (World' => OnCourse')
      BY <1>1, <1>2, <2>1, AnswerKeeps
    <2>3. plan' = plan
      BY DEF scriptVars
    <2>4. World'
      BY <1>1, <1>2, <2>1, <2>2, <2>3 DEF OnCourse, World
    <2>5. QED
      BY <2>2, <2>4
  <1>8. CASE Replay(c)
    <2>1. as # Nobody
      BY <1>1, TenantAssumption
    <2>2. \/ as # Nobody /\ judgement # "stored" /\ Answer(c, judgement, {}) /\ UNCHANGED files
          \/ as \in files /\ judgement = "stored"
          \/ /\ as \notin files \cup {Nobody} /\ judgement = "stored"
             /\ Answer(c, "ok", {as}) /\ files' = files \cup {as}
          \/ BodyRefused(c) /\ Answer(c, Refusal(body[c]), {}) /\ UNCHANGED files
      BY <2>1 DEF UploadEnds
    <2> HIDE DEF as, judgement
    <2>3. QED
      BY <1>4, <1>5, <1>6, <1>7, <2>2
  <1>9. QED
    BY <1>4, <1>8 DEF UploadEnds

\* What the server does without a run.
LEMMA TenantStepsOnCourse ==
  ASSUME VerifierInv, OnCourse, Scripted, NEW c \in Clients, TenantStep(c, Busy),
         UNCHANGED <<pumpVars, runVars, scriptVars>>
  PROVE  OnCourse'
  <1>1. CASE Authorize(c)
    BY <1>1, AuthorizeOnCourse
  <1>2. CASE Searched(c)
    BY <1>2, SearchedOnCourse
  <1>3. CASE Created(c)
    BY <1>3, CreatedOnCourse
  <1>4. CASE NotVisible(c) \/ ReadThread(c)
    BY <1>4, ThreadReadsOnCourse
  <1>5. CASE ChangeThread(c, Busy)
    BY <1>5, NoThreadChanges
  <1>6. CASE ReadAssistant(c)
    BY <1>6, AssistantsOnCourse
  <1>7. CASE FileCall(c)
    BY <1>7, FilesOnCourse
  <1>8. CASE UploadEnds(c)
    BY <1>8, UploadedOnCourse
  <1>9. CASE UploadContinues(c)
    BY <1>9, ContinuesOnCourse
  <1>10. QED
    BY <1>1, <1>2, <1>3, <1>4, <1>5, <1>6, <1>7, <1>8, <1>9 DEF TenantStep
-----------------------------------------------------------------------------
(* A run begins, is cancelled, and the canceller is answered.               *)

\* How the steps with a run are told.
LEMMA RunSteps ==
  /\ \A t \in {1, 2, 4} :
        /\ Plan("http")[RunStep(t)].kind = "request" /\ Plan("http")[RunStep(t)].sees = {}
        /\ End(t) \in Plan("http")[RunStep(t)].wanted
        /\ Plan("http")[RunStep(t)].request.waits <=> t = 4
  /\ Plan("http")[14].kind = "request" /\ Plan("http")[14].sees = {}
  /\ "ok" \in Plan("http")[14].wanted /\ Plan("http")[14].request.waits
  /\ Plan("http")[16].kind = "request" /\ Plan("http")[16].sees = {}
  /\ "ok" \in Plan("http")[16].wanted
  <1> DEFINE s1 == Forging(Step(A, "run", 1, {"answered"}), B)
             s2 == Step(B, "run", 2, {"answered"})
             s3 == Waiting(Step(A, "background", 3, {"ok"}))
             s4 == Waiting(Step(B, "run", 4, {"timeout"}))
             s5 == Step(A, "cancel", 3, {"ok"})
  <1>1. s1.kind = "request" /\ s1.sees = {} /\ "answered" \in s1.wanted /\ ~s1.request.waits
    BY DEF Forging, Step, Request
  <1>2. s2.kind = "request" /\ s2.sees = {} /\ "answered" \in s2.wanted /\ ~s2.request.waits
    BY DEF Step, Request
  <1>3. s3.kind = "request" /\ s3.sees = {} /\ "ok" \in s3.wanted /\ s3.request.waits
    BY DEF Waiting, Step, Request
  <1>4. s4.kind = "request" /\ s4.sees = {} /\ "timeout" \in s4.wanted /\ s4.request.waits
    BY DEF Waiting, Step, Request
  <1>5. s5.kind = "request" /\ s5.sees = {} /\ "ok" \in s5.wanted
    BY DEF Step, Request
  <1>6. /\ Plan("http")[7] = s1 /\ Plan("http")[11] = s2 /\ Plan("http")[14] = s3
        /\ Plan("http")[20] = s4 /\ Plan("http")[16] = s5
    BY HttpSteps
  <1> HIDE DEF s1, s2, s3, s4, s5
  <1>7. RunStep(1) = 7 /\ RunStep(2) = 11 /\ RunStep(4) = 20
    BY DEF RunStep
  <1>8. End(1) = "answered" /\ End(2) = "answered" /\ End(4) = "timeout"
    BY DEF End
  <1>9. QED
    BY <1>1, <1>2, <1>3, <1>4, <1>5, <1>6, <1>7, <1>8

LEMMA ReturnedCounts ==
  ASSUME VerifierInv, OnCourse, Scripted
  PROVE  Returned \in 0..4 /\ Done \in Int /\ at \in Nat \ {0} /\ plan \in {"http", "smoke"}
  <1>1. at \in Nat \ {0} /\ plan \in {"http", "smoke"}
    BY DEF VerifierInv, PlanInv, Scripted
  <1>2. Done \in Int
    BY <1>1 DEF Done
  <1>3. run # NoRun => run.thread - 1 \in 0..4
    BY DEF OnCourse, AtWork
  <1>4. QED
    BY <1>1, <1>2, <1>3, Numbers DEF Returned

\* While a run is at work no lease but its own is recorded.
LEMMA RecordedFields ==
  ASSUME VerifierInv, OnCourse, Scripted, plan = "http", run # NoRun, Recorded
  PROVE  /\ leases'.acquired = leases.acquired + (IF ~held /\ held' THEN 1 ELSE 0)
         /\ leases'.released = leases.released + (IF held /\ ~held' THEN 1 ELSE 0)
         /\ leases'.subjects = leases.subjects \cup (IF ~held /\ held' THEN {config.claims} ELSE {})
         /\ leases'.models = leases.models \cup acted'
         /\ leases.acquired \in Int /\ leases.released \in Int
  <1>1. leases.acquired \in Int /\ leases.released \in Int
    BY ReturnedCounts DEF OnCourse, Counters
  <1>2. QED
    BY <1>1 DEF Recorded

LEMMA NothingRecorded ==
  ASSUME VerifierInv, OnCourse, Scripted, plan = "http", run # NoRun, Recorded, held' <=> held, acted' = acted
  PROVE  /\ leases'.acquired = leases.acquired /\ leases'.released = leases.released
         /\ leases'.subjects = leases.subjects /\ leases'.models = leases.models \cup acted
  <1>1. ~(~held /\ held') /\ ~(held /\ ~held') /\ acted' = acted
    OBVIOUS
  <1>2. /\ leases'.acquired = leases.acquired + (IF ~held /\ held' THEN 1 ELSE 0)
        /\ leases'.released = leases.released + (IF held /\ ~held' THEN 1 ELSE 0)
        /\ leases.acquired \in Int /\ leases.released \in Int
    BY RecordedFields
  <1>3. /\ leases'.subjects = leases.subjects \cup (IF ~held /\ held' THEN {config.claims} ELSE {})
        /\ leases'.models = leases.models \cup acted'
    BY RecordedFields
  <1>4. leases'.acquired = leases.acquired /\ leases'.released = leases.released
    BY <1>1, <1>2
  <1>5. leases'.subjects = leases.subjects
    BY <1>1, <1>3
  <1>6. QED
    BY <1>1, <1>3, <1>4, <1>5

LEMMA RejectedOnCourse ==
  ASSUME VerifierInv, OnCourse, Scripted, NEW c \in Clients, Runs(QueryRejected(c))
  PROVE  late' = late /\ (~late' => OnCourse')
  <1>1. /\ Phase(c, "sent") /\ call[c].op = "query" /\ call[c].as = Nobody
        /\ Answer(c, "unauthorized", {})
        /\ UNCHANGED <<pumpVars, runVars, threads, files, plan, at, verdict, late>> /\ Recorded
    BY DEF Runs, QueryRejected
  <1>2. /\ c = script
        /\ RequestFits(plan, at, call[c].as, call[c].op, call[c].on, Now.wanted, Now.sees)
        /\ ~Meantime(plan, at) => run = NoRun
    BY <1>1, AtServer
  <1>3. Plain(plan, at, Now.wanted, Now.sees, "unauthorized") /\ run = NoRun
    BY <1>1, <1>2 DEF RequestFits, Plain
  <1>4. UNCHANGED scriptVars
    BY <1>1, <1>3 DEF Recorded, scriptVars
  <1>5. QED
    BY <1>1, <1>2, <1>3, <1>4, PlainAnswerKeeps DEF Plain

\* What begins is the run of its step.
LEMMA BeginsAsPlanned ==
  ASSUME VerifierInv, OnCourse, Scripted, NEW c \in Clients, BeginRun(c)
  PROVE  /\ c = script /\ ~Heard /\ Done = at - 1 /\ plan = "http" /\ run = NoRun
         /\ Phase(script, "authorized") /\ call[script].on \in 1..4
         /\ at = RunStep(call[script].on) /\ call[script].as = Maker(call[script].on)
         /\ call[script].op \in {"run", "background"}
         /\ call[script].op = "background" <=> call[script].on = 3
         /\ call[script].waits <=> call[script].on \in {3, 4}
  <1>1. /\ c = script /\ ~Heard /\ Done = at - 1 /\ at \in Nat \ {0}
        /\ RequestFits(plan, at, call[c].as, call[c].op, call[c].on, Now.wanted, Now.sees)
        /\ call[c].waits = Now.request.waits
        /\ Phase(c, "authorized") => call[c].as # Nobody
    BY AtServer DEF BeginRun
  <1>2. /\ Phase(c, "authorized") /\ call[c].op \in {"run", "background"}
        /\ call[c].on \in Visible(call[c])
    BY <1>1 DEF BeginRun, RequestFits
  <1>3. call[c].op \in ThreadOps \ {"search", "create"}
    BY <1>2 DEF ThreadOps
  <1>4. ThreadFits(plan, at, call[c].as, call[c].op, call[c].on, Now.wanted, Now.sees)
    BY <1>1, <1>2, <1>3 DEF RequestFits
  <1>5. Mine(plan, at, call[c].as, call[c].on)
    BY <1>1, <1>2, <1>4, VisibleIsMine DEF OnCourse, ThreadFits
  <1>6. RunFits(plan, at, call[c].op, call[c].on, Now.wanted, Now.sees)
    BY <1>2, <1>4, <1>5 DEF ThreadFits, ReadFits
  <1>7. /\ plan = "http" /\ run = NoRun
        /\ \/ call[c].op = "run" /\ call[c].on \in {1, 2, 4} /\ at = RunStep(call[c].on)
           \/ call[c].op = "background" /\ call[c].on = 3 /\ at = 14
    BY <1>2, <1>6 DEF RunFits, BeginRun
  <1>8. RunStep(3) = 14
    BY DEF RunStep
  <1>9. call[script].waits <=> call[script].on \in {3, 4}
    BY <1>1, <1>7, RunSteps DEF Now
  <1>10. call[script].as = Maker(call[script].on)
    BY <1>1, <1>5 DEF Mine
  <1>11. QED
    BY <1>1, <1>2, <1>7, <1>8, <1>9, <1>10

LEMMA BeginRunOnCourse ==
  ASSUME VerifierInv, VerifierInv', OnCourse, Scripted, NEW c \in Clients, Runs(BeginRun(c))
  PROVE  OnCourse'
  <1> DEFINE q == call[script]
             n == call[script].on
  <1>1. BeginRun(c) /\ Recorded /\ UNCHANGED <<plan, at, verdict>>
    BY DEF Runs
  <1>2. /\ c = script /\ ~Heard /\ Done = at - 1 /\ plan = "http" /\ run = NoRun
        /\ Phase(script, "authorized") /\ n \in 1..4
        /\ at = RunStep(n) /\ q.as = Maker(n) /\ q.op \in {"run", "background"}
        /\ q.op = "background" <=> n = 3
        /\ q.waits <=> n \in {3, 4}
    BY <1>1, BeginsAsPlanned
  <1>3. /\ UNCHANGED <<pumpVars, threads, files, leases>> /\ acted' = {}
    BY <1>1, <1>2 DEF BeginRun, Recorded
  <1>4. /\ run'.client = script /\ run'.user = Maker(n) /\ run'.thread = n
        /\ run'.background <=> n = 3
        /\ run'.waits <=> n \in {3, 4}
        /\ ~run'.cancelled
    BY <1>1, <1>2 DEF BeginRun
  <1>5. run' # NoRun
    <2>1. "client" \in DOMAIN run'
      BY <1>1 DEF BeginRun
    <2>2. DOMAIN NoRun = {}
      BY DEF NoRun
    <2>3. QED
      BY <2>1, <2>2
  <1>6. script \in Clients
    BY VerifierAssumption
  <1>7. /\ Births(plan, at) = Births(plan, at - 1) /\ Returned = n - 1 /\ n <= Births(plan, at)
        /\ Stored(plan, at) = Stored(plan, at - 1)
    <2>1. Returned = Ended(plan, at - 1)
      BY <1>2 DEF Returned, Phase
    <2>2. QED
      BY <1>2, <2>1, Numbers DEF Stored
  <1>8. Returned' = Returned
    BY <1>4, <1>5, <1>7 DEF Returned
  <1>9. Done' \in {at - 1, at}
    BY <1>1 DEF Done
  <1>10. World'
    BY <1>1, <1>2, <1>3, <1>7, <1>8, <1>9, WorldLasts DEF OnCourse
  <1>11. Talking' /\ (n # 3 => Phase(script, "running")') /\ (n = 3 => Done' = at)
    <2>1. Now' = Now /\ at <= Len(Plan(plan)) /\ Now.kind = "request"
      BY <1>1, <1>2 DEF Now, OnCourse, Talking, Asking, Phase
    <2>2. CASE n = 3
      <3>1. Answer(script, "ok", {n})
        BY <1>1, <1>2, <2>2 DEF BeginRun
      <3>2. /\ call'[script] = NoCall /\ told'[script].status = "ok"
            /\ \A d \in Clients \ {script} : call'[d] = call[d]
        BY <1>6, <3>1 DEF Answer, VerifierInv, TenantInv, TenantTypeOK
      <3>3. Heard' /\ Alone' /\ Done' = at
        BY <1>1, <3>2 DEF Heard, Done, Alone, OnCourse, Talking
      <3>4. at = 14 /\ "ok" \in Now.wanted /\ Now.sees = {}
        BY <1>2, <2>2, RunSteps DEF RunStep, Now
      <3>5. Answered'
        BY <1>1, <2>1, <3>2, <3>4 DEF Answered
      <3>6. Talking'
        BY <1>1, <3>2, <3>3, <3>5 DEF OnCourse, Talking
      <3>7. QED
        BY <2>2, <3>3, <3>6
    <2>3. CASE n # 3
      <3>1. call' = [call EXCEPT ![script] = [q EXCEPT !.phase = "running", !.claims = Nobody]] /\ told' = told
        BY <1>1, <1>2, <2>3 DEF BeginRun
      <3>2. /\ call'[script] = [q EXCEPT !.phase = "running", !.claims = Nobody]
            /\ \A d \in Clients \ {script} : call'[d] = call[d]
        BY <1>6, <3>1 DEF VerifierInv, TenantInv, TenantTypeOK
      <3>3. q \in Calls({"sent", "authorized", "running", "cancelling", "uploading"})
        BY <1>2, <1>6 DEF Phase, VerifierInv, TenantInv, TenantTypeOK
      <3>4. call'[script] \in Calls({"running"}) /\ call'[script].phase = "running"
        BY <3>2, <3>3 DEF Calls, People
      <3>5. call'[script] # NoCall
        BY <3>4, RequestIsNoNone
      <3>6. ~Heard' /\ Alone'
        BY <1>2, <3>1, <3>2 DEF Heard, Alone, OnCourse, Talking
      <3>7. Asking'
        BY <1>1, <1>2, <1>4, <1>5, <2>1, <2>3, <3>4, <3>6 DEF Asking
      <3>8. Talking'
        BY <1>1, <3>6, <3>7 DEF OnCourse, Talking
      <3>9. Phase(script, "running")'
        BY <3>4, <3>5 DEF Phase
      <3>10. QED
        BY <2>3, <3>8, <3>9
    <2>4. QED
      BY <2>2, <2>3
  <1>12. AtWork'
    <2>1. n = 3 => Done' = 14
      BY <1>2, <1>11 DEF RunStep
    <2>2. QED
      BY <1>1, <1>2, <1>4, <1>5, <1>11, <2>1 DEF AtWork
  <1>13. Course'
    <2>1. /\ cons = "fresh" /\ requests = {} /\ ~due /\ ~held /\ ~again
          /\ answer = "none" /\ result = "none" /\ raising = "none" /\ prod = "none"
      BY <1>2 DEF OnCourse, AtWork, VerifierInv, RunInv
    <2>2. /\ cons' = "fresh" /\ requests' = {} /\ ~due' /\ ~held' /\ ~again'
          /\ answer' = "none" /\ result' = "none" /\ raising' = "none" /\ prod' = "none"
      BY <1>3, <2>1 DEF pumpVars, task, generator
    <2>3. n = 3 => Done' # 15
      BY <1>2, <1>11 DEF RunStep
    <2>4. QED
      BY <1>4, <2>2, <2>3 DEF Course, Holding, LeftAlone, Cancelled, Overdue, Granted
  <1>14. Counters'
    <2>1. prod' = "none"
      BY <1>2, <1>3 DEF VerifierInv, RunInv, pumpVars, task
    <2>2. QED
      BY <1>1, <1>2, <1>3, <1>8, <2>1 DEF OnCourse, Counters, Granted
  <1>15. QED
    BY <1>10, <1>11, <1>12, <1>13, <1>14 DEF OnCourse

\* Only the run on the third thread is cancelled, and it is at work then.
LEMMA CancelsAsPlanned ==
  ASSUME VerifierInv, OnCourse, Scripted, NEW c \in Clients,
         Phase(c, "authorized"), call[c].op = "cancel", call[c].on \in Visible(call[c])
  PROVE  /\ c = script /\ ~Heard /\ Done = 15 /\ at = 16 /\ plan = "http"
         /\ call[script].on = 3 /\ run # NoRun /\ run.thread = 3
  <1>1. /\ c = script /\ ~Heard /\ Done = at - 1 /\ at \in Nat \ {0}
        /\ RequestFits(plan, at, call[c].as, call[c].op, call[c].on, Now.wanted, Now.sees)
        /\ call[c].as # Nobody /\ ~Phase(c, "running") /\ ~Phase(c, "cancelling")
    BY AtServer
  <1>2. call[c].op \in ThreadOps \ {"search", "create"}
    BY DEF ThreadOps
  <1>3. ThreadFits(plan, at, call[c].as, call[c].op, call[c].on, Now.wanted, Now.sees)
    BY <1>1, <1>2 DEF RequestFits
  <1>4. Mine(plan, at, call[c].as, call[c].on)
    BY <1>1, <1>3, VisibleIsMine DEF OnCourse, ThreadFits
  <1>5. plan = "http" /\ call[c].on = 3 /\ at = 16
    BY <1>3, <1>4 DEF ThreadFits, ReadFits, RunFits
  <1>6. Done = 15
    BY <1>1, <1>5
  <1>7. run # NoRun /\ run.thread = 3
    BY <1>1, <1>5, <1>6 DEF OnCourse, AtWork
  <1>8. QED
    BY <1>1, <1>5, <1>6, <1>7

LEMMA AskCancelOnCourse ==
  ASSUME VerifierInv, VerifierInv', OnCourse, Scripted, NEW c \in Clients, Runs(AskCancel(c))
  PROVE  OnCourse'
  <1> DEFINE q == call[script]
  <1>1. AskCancel(c) /\ Recorded /\ UNCHANGED <<plan, at, verdict>>
    BY DEF Runs
  <1>2. /\ c = script /\ ~Heard /\ Done = 15 /\ at = 16 /\ plan = "http"
        /\ q.on = 3 /\ run # NoRun /\ run.thread = 3 /\ Phase(script, "authorized")
    BY <1>1, CancelsAsPlanned DEF AskCancel
  <1>3. /\ UNCHANGED <<pumpVars, acted, threads, files, told>>
        /\ run' = [run EXCEPT !.cancelled = TRUE]
        /\ call' = [call EXCEPT ![script] = [q EXCEPT !.phase = "cancelling"]]
    BY <1>1, <1>2 DEF AskCancel
  <1>4. /\ run'.client = run.client /\ run'.user = run.user /\ run'.thread = 3
        /\ run'.background = run.background /\ run'.waits = run.waits /\ run'.cancelled
        /\ "client" \in DOMAIN run'
    BY <1>2, <1>3 DEF VerifierInv, RunInv, RunsTypeOK
  <1>5. run' # NoRun
    <2>1. DOMAIN NoRun = {}
      BY DEF NoRun
    <2>2. QED
      BY <1>4, <2>1
  <1>6. /\ call'[script] = [q EXCEPT !.phase = "cancelling"]
        /\ \A d \in Clients \ {script} : call'[d] = call[d]
    BY <1>3, VerifierAssumption DEF VerifierInv, TenantInv, TenantTypeOK
  <1>7. q \in Calls({"sent", "authorized", "running", "cancelling", "uploading"})
    BY <1>2, VerifierAssumption DEF Phase, VerifierInv, TenantInv, TenantTypeOK
  <1>8. /\ call'[script] \in Calls({"cancelling"}) /\ call'[script].phase = "cancelling"
        /\ call'[script].on = 3
    BY <1>2, <1>6, <1>7 DEF Calls
  <1>9. call'[script] # NoCall /\ Phase(script, "cancelling")'
    BY <1>8, RequestIsNoNone DEF Phase
  <1>10. ~Heard' /\ Done' = 15 /\ Alone' /\ Returned' = Returned
    BY <1>1, <1>2, <1>3, <1>4, <1>5, <1>6 DEF Heard, Done, Alone, Returned, OnCourse, Talking
  <1>11. Asking'
    <2>1. at <= Len(Plan(plan))
      BY <1>2 DEF OnCourse, Talking, Asking, Phase
    <2>2. QED
      BY <1>1, <1>2, <1>4, <1>5, <1>8, <1>10, <2>1 DEF Asking
  <1>12. Talking'
    BY <1>1, <1>10, <1>11 DEF OnCourse, Talking
  <1>13. World'
    BY <1>1, <1>2, <1>3, <1>10, WorldLasts DEF OnCourse
  <1>14. AtWork'
    BY <1>1, <1>2, <1>4, <1>5, <1>9, <1>10 DEF OnCourse, AtWork
  <1>15. Course'
    <2>1. Holding /\ Cancelled
      BY <1>2 DEF OnCourse, Course
    <2>2. Holding' /\ Cancelled'
      BY <1>2, <1>3, <1>4, <1>10, <2>1 DEF Holding, Cancelled, Granted, pumpVars, task, generator
    <2>3. QED
      BY <1>4, <2>2 DEF Course
  <1>16. Counters'
    <2>1. UNCHANGED <<prod, held>>
      BY <1>3 DEF pumpVars, task
    <2>2. /\ leases'.acquired = leases.acquired /\ leases'.released = leases.released
          /\ leases'.subjects = leases.subjects /\ leases'.models = leases.models \cup acted
      BY <1>1, <1>2, <1>3, <2>1, NothingRecorded
    <2>3. acted \subseteq leases.models
      BY <1>2 DEF OnCourse, Counters
    <2>4. leases'.models = leases.models
      BY <2>2, <2>3
    <2>5. QED
      BY <1>1, <1>2, <1>3, <1>4, <1>5, <1>10, <2>1, <2>2, <2>4 DEF OnCourse, Counters, Granted
  <1>17. QED
    BY <1>12, <1>13, <1>14, <1>15, <1>16 DEF OnCourse

\* The canceller is answered when the run is over.
LEMMA CancelAnsweredOnCourse ==
  ASSUME VerifierInv, OnCourse, Scripted, NEW c \in Clients, Runs(CancelAnswered(c))
  PROVE  OnCourse'
  <1>1. CancelAnswered(c) /\ Recorded /\ UNCHANGED <<plan, at, verdict>>
    BY DEF Runs
  <1>2. c = script /\ Phase(script, "cancelling") /\ Asking
    BY <1>1, OnlyScript DEF OnCourse, Talking, Phase, CancelAnswered
  <1>3. /\ plan = "http" /\ at = 16 /\ at <= Len(Plan(plan)) /\ ~Heard /\ call[script].on = 3
        /\ run # NoRun => run.thread = 3 /\ run.cancelled
    BY <1>2 DEF Asking, Phase
  <1>4. run = NoRun
    BY <1>1, <1>2, <1>3 DEF CancelAnswered, Cancelling
  <1>5. UNCHANGED <<pumpVars, runVars, threads, files, leases>> /\ Answer(script, "ok", {3})
    BY <1>1, <1>2, <1>3, <1>4 DEF CancelAnswered, Recorded
  <1>6. /\ call'[script] = NoCall /\ told'[script].status = "ok"
        /\ \A d \in Clients \ {script} : call'[d] = call[d]
    BY <1>5, VerifierAssumption DEF Answer, VerifierInv, TenantInv, TenantTypeOK
  <1>7. Done = 15 /\ Heard' /\ Done' = 16 /\ Alone' /\ run' = NoRun
    BY <1>1, <1>3, <1>4, <1>5, <1>6 DEF Done, Heard, Alone, OnCourse, Talking, runVars
  <1>8. Returned = 3 /\ Returned' = 3
    BY <1>1, <1>2, <1>3, <1>4, <1>6, <1>7, Numbers DEF Returned, Phase
  <1>9. Talking'
    <2>1. Now' = Plan("http")[16]
      BY <1>1, <1>3 DEF Now
    <2>2. Answered'
      BY <1>1, <1>3, <1>6, <2>1, RunSteps DEF Answered
    <2>3. QED
      BY <1>1, <1>6, <1>7, <2>2 DEF OnCourse, Talking
  <1>10. World'
    BY <1>1, <1>3, <1>5, <1>7, <1>8, Numbers, WorldLasts DEF OnCourse, Stored
  <1>11. AtWork'
    BY <1>1, <1>4, <1>5, <1>7 DEF OnCourse, AtWork, pumpVars, task, generator
  <1>12. Course'
    BY <1>7 DEF Course
  <1>13. Counters'
    BY <1>1, <1>4, <1>5, <1>7, <1>8 DEF OnCourse, Counters
  <1>14. QED
    BY <1>9, <1>10, <1>11, <1>12, <1>13 DEF OnCourse
-----------------------------------------------------------------------------
(* A run goes on.                                                           *)

\* What a step of the run means for the counters: nothing, or its lease is
\* acquired, or released as the producer ends.
Ledger ==
    \/ /\ held' = held /\ prod' = prod
    \/ /\ held' = held /\ Granted /\ prod # "done" /\ Granted' /\ prod' # "done"
    \/ /\ held' = held /\ ~Granted /\ ~Granted'
    \/ /\ ~held /\ held' /\ prod = "waiting" /\ prod' = "source"
    \/ /\ held /\ ~held' /\ Granted /\ prod # "done" /\ prod' = "done"

LEMMA CountersKept ==
  ASSUME VerifierInv, VerifierInv', OnCourse, Scripted, run # NoRun, Recorded, Ledger,
         UNCHANGED <<tenantVars, run, plan, at>>
  PROVE  Counters' /\ Returned' = Returned /\ Done' = Done
  <1>1. Done' = Done
    BY DEF Done, Heard, tenantVars
  <1>2. Returned' = Returned
    BY DEF Returned
  <1>3. plan = "http" /\ run.user = Maker(run.thread) /\ run.thread \in 1..4
    BY DEF OnCourse, AtWork
  <1>4. run.user \in {A, B}
    BY <1>3, Numbers
  <1>5. acted' \subseteq {run.user} /\ (prod # "none" => config.claims = run.user)
    BY DEF VerifierInv, RunInv, OnItsBehalf
  <1>6. /\ leases'.acquired = leases.acquired + (IF ~held /\ held' THEN 1 ELSE 0)
        /\ leases'.released = leases.released + (IF held /\ ~held' THEN 1 ELSE 0)
        /\ leases.acquired \in Int /\ leases.released \in Int
    BY <1>3, RecordedFields
  <1>7. /\ leases'.subjects = leases.subjects \cup (IF ~held /\ held' THEN {config.claims} ELSE {})
        /\ leases'.models = leases.models \cup acted'
    BY <1>3, RecordedFields
  <1>8. /\ leases.acquired = Returned + (IF Granted THEN 1 ELSE 0)
        /\ leases.released = Returned + (IF prod = "done" THEN 1 ELSE 0)
        /\ leases.subjects \subseteq {A, B} /\ leases.models \subseteq {A, B}
        /\ \A t \in 1..Returned : Maker(t) \in leases.subjects
        /\ \A t \in {1, 2} : t <= Returned => Maker(t) \in leases.models
        /\ Granted => run.user \in leases.subjects
    BY <1>3 DEF OnCourse, Counters
  <1>9. Returned \in Int
    BY ReturnedCounts
  <1>10. /\ leases'.acquired = Returned + (IF Granted' THEN 1 ELSE 0)
         /\ leases'.released = Returned + (IF prod' = "done" THEN 1 ELSE 0)
         /\ Granted' => run.user \in leases'.subjects
    <2>1. CASE held' = held /\ prod' = prod
      BY <1>6, <1>7, <1>8, <1>9, <2>1 DEF Granted
    <2>2. CASE held' = held /\ Granted /\ prod # "done" /\ Granted' /\ prod' # "done"
      BY <1>6, <1>7, <1>8, <1>9, <2>2
    <2>3. CASE held' = held /\ ~Granted /\ ~Granted'
      <3>1. prod # "done" /\ prod' # "done"
        BY <2>3 DEF Granted
      <3>2. QED
        BY <1>6, <1>7, <1>8, <1>9, <2>3, <3>1
    <2>4. CASE ~held /\ held' /\ prod = "waiting" /\ prod' = "source"
      <3>1. ~Granted /\ Granted'
        BY <2>4 DEF Granted
      <3>2. config.claims = run.user /\ prod # "done" /\ prod' # "done"
        BY <1>5, <2>4
      <3>3. QED
        BY <1>6, <1>7, <1>8, <1>9, <2>4, <3>1, <3>2
    <2>5. CASE held /\ ~held' /\ Granted /\ prod # "done" /\ prod' = "done"
      <3>1. Granted'
        BY <2>5 DEF Granted
      <3>2. QED
        BY <1>6, <1>7, <1>8, <1>9, <2>5, <3>1
    <2>6. QED
      BY <2>1, <2>2, <2>3, <2>4, <2>5 DEF Ledger
  <1>11. leases'.subjects \subseteq {A, B} /\ leases.subjects \subseteq leases'.subjects
    <2>1. ~held /\ held' => config.claims = run.user
      BY <1>5 DEF Ledger
    <2>2. QED
      BY <1>4, <1>7, <1>8, <2>1
  <1>12. leases'.models \subseteq {A, B} /\ leases.models \subseteq leases'.models /\ acted' \subseteq leases'.models
    BY <1>4, <1>5, <1>7, <1>8
  <1>13. Counters'
    BY <1>2, <1>8, <1>10, <1>11, <1>12 DEF Counters
  <1>14. QED
    BY <1>1, <1>2, <1>13

\* Beyond that only its course matters.
LEMMA RunOnCourse ==
  ASSUME VerifierInv, VerifierInv', OnCourse, Scripted, run # NoRun, Recorded, Ledger, Course',
         UNCHANGED <<tenantVars, run, plan, at, verdict>>
  PROVE  OnCourse'
  <1>1. Counters' /\ Returned' = Returned /\ Done' = Done
    BY CountersKept
  <1>2. Talking'
    BY DEF OnCourse, Talking, Alone, Asking, Answered, Heard, Now, tenantVars
  <1>3. World'
    BY <1>1, WorldLasts DEF OnCourse, tenantVars
  <1>4. AtWork'
    BY <1>1 DEF OnCourse, AtWork, tenantVars, Phase
  <1>5. QED
    BY <1>1, <1>2, <1>3, <1>4 DEF OnCourse

\* How far each kind of run has come.
LEMMA RunKinds ==
  ASSUME VerifierInv, OnCourse, Scripted, run # NoRun
  PROVE  /\ plan = "http" /\ run.thread \in 1..4 /\ Holding
         /\ run.thread \in {1, 2} => LeftAlone
         /\ run.thread = 3 => Cancelled
         /\ run.thread = 4 => Overdue
         /\ run.waits <=> run.thread \in {3, 4}
         /\ run.background <=> run.thread = 3
         /\ run.cancelled => run.thread = 3 /\ Done = 15 /\ Granted
  <1>1. /\ plan = "http" /\ run.thread \in 1..4 /\ Holding
        /\ run.thread \in {1, 2} => LeftAlone
        /\ run.thread = 3 => Cancelled
        /\ run.thread = 4 => Overdue
        /\ run.waits <=> run.thread \in {3, 4}
        /\ run.background <=> run.thread = 3
        /\ run.cancelled => Phase(script, "cancelling")
    BY DEF OnCourse, AtWork, Course
  <1>2. ASSUME run.cancelled
        PROVE  run.thread = 3 /\ Done = 15 /\ Granted
    <2>1. Asking /\ call[script].phase = "cancelling"
      BY <1>1, <1>2 DEF OnCourse, Talking, Phase
    <2>2. run.thread = 3 /\ at = 16 /\ ~Heard
      BY <2>1 DEF Asking
    <2>3. Done = 15
      BY <2>2 DEF Done
    <2>4. QED
      BY <1>1, <2>2, <2>3 DEF Cancelled
  <1>3. QED
    BY <1>1, <1>2

\* To show that a run stays on course, by the kind of run.
LEMMA ByKind ==
  ASSUME VerifierInv, VerifierInv', OnCourse, Scripted, run # NoRun, Recorded, Ledger, Holding',
         UNCHANGED <<tenantVars, run, plan, at, verdict>>,
         run.thread \in {1, 2} /\ LeftAlone => LeftAlone',
         run.thread = 3 /\ Cancelled => Cancelled',
         run.thread = 4 /\ Overdue => Overdue'
  PROVE  OnCourse'
  <1>1. Course'
    BY RunKinds DEF Course
  <1>2. QED
    BY <1>1, RunOnCourse

LEMMA LeaseGrantedOnCourse ==
  ASSUME VerifierInv, VerifierInv', OnCourse, Scripted, Pumps(LeaseGranted)
  PROVE  OnCourse'
  <1>1. /\ run # NoRun /\ LeaseGranted /\ Recorded
        /\ UNCHANGED <<tenantVars, run, acted, plan, at, verdict>>
    BY DEF Pumps, Runs, PumpStep, runVars
  <1>2. /\ Done' = Done /\ Together /\ Counted
        /\ prod \in Place /\ queue \in Seq(Nat) /\ Len(queue) <= 1
    BY <1>1 DEF Done, Heard, tenantVars, VerifierInv, PumpInv, PumpTypeOK
  <1>3. /\ Holding /\ run.thread \in 1..4
        /\ run.thread \in {1, 2} => LeftAlone
        /\ run.thread = 3 => Cancelled
        /\ run.thread = 4 => Overdue
    BY <1>1, RunKinds
  <1> USE DEF LeaseGranted, At, generator, Granted, Holding, Together
  <1>5. Ledger
    BY <1>1, <1>2, <1>3 DEF Ledger, LeftAlone, Cancelled, Overdue
  <1>6. Holding'
    BY <1>1, <1>2, <1>3 DEF LeftAlone, Cancelled, Overdue
  <1>7. run.thread \in {1, 2} /\ LeftAlone => LeftAlone'
    BY <1>1, <1>2, <1>3 DEF LeftAlone
  <1>8. run.thread = 3 /\ Cancelled => Cancelled'
    BY <1>1, <1>2, <1>3 DEF Cancelled
  <1>9. run.thread = 4 /\ Overdue => Overdue'
    BY <1>1, <1>2, <1>3 DEF Overdue
  <1>10. QED
    BY <1>1, <1>5, <1>6, <1>7, <1>8, <1>9, ByKind

\* A model that waits yields nothing.
LEMMA ChunkOnCourse ==
  ASSUME VerifierInv, VerifierInv', OnCourse, Scripted, OfflineChunk, Pumps(Chunk)
  PROVE  OnCourse'
  <1>1. /\ run # NoRun /\ Chunk /\ Recorded
        /\ UNCHANGED <<tenantVars, run, acted, plan, at, verdict>>
    BY DEF Pumps, Runs, PumpStep, runVars
  <1>2. /\ Done' = Done /\ Together /\ Counted
        /\ prod \in Place /\ queue \in Seq(Nat) /\ Len(queue) <= 1
    BY <1>1 DEF Done, Heard, tenantVars, VerifierInv, PumpInv, PumpTypeOK
  <1>3. /\ Holding /\ run.thread \in 1..4
        /\ run.thread \in {1, 2} => LeftAlone
        /\ run.thread = 3 => Cancelled
        /\ run.thread = 4 => Overdue
    BY <1>1, RunKinds
  <1>4. run.thread \in {1, 2}
    BY <1>1, RunKinds DEF OfflineChunk
  <1> USE DEF Chunk, At, generator, Granted, Holding, Together
  <1>5. Ledger
    BY <1>1, <1>2, <1>3, <1>4 DEF Ledger, LeftAlone, Cancelled, Overdue
  <1>6. Holding'
    BY <1>1, <1>2, <1>3, <1>4 DEF LeftAlone, Cancelled, Overdue
  <1>7. run.thread \in {1, 2} /\ LeftAlone => LeftAlone'
    BY <1>1, <1>2, <1>3, <1>4 DEF LeftAlone
  <1>8. run.thread = 3 /\ Cancelled => Cancelled'
    BY <1>1, <1>2, <1>3, <1>4 DEF Cancelled
  <1>9. run.thread = 4 /\ Overdue => Overdue'
    BY <1>1, <1>2, <1>3, <1>4 DEF Overdue
  <1>10. QED
    BY <1>1, <1>5, <1>6, <1>7, <1>8, <1>9, ByKind

LEMMA PutOnCourse ==
  ASSUME VerifierInv, VerifierInv', OnCourse, Scripted, Pumps(Put)
  PROVE  OnCourse'
  <1>1. /\ run # NoRun /\ Put /\ Recorded
        /\ UNCHANGED <<tenantVars, run, acted, plan, at, verdict>>
    BY DEF Pumps, Runs, PumpStep, runVars
  <1>2. /\ Done' = Done /\ Together /\ Counted
        /\ prod \in Place /\ queue \in Seq(Nat) /\ Len(queue) <= 1
    BY <1>1 DEF Done, Heard, tenantVars, VerifierInv, PumpInv, PumpTypeOK
  <1>3. /\ Holding /\ run.thread \in 1..4
        /\ run.thread \in {1, 2} => LeftAlone
        /\ run.thread = 3 => Cancelled
        /\ run.thread = 4 => Overdue
    BY <1>1, RunKinds
  <1> USE DEF Put, At, generator, Granted, Holding, Together
  <1>5. Ledger
    BY <1>1, <1>2, <1>3 DEF Ledger, LeftAlone, Cancelled, Overdue
  <1>6. Holding'
    BY <1>1, <1>2, <1>3 DEF LeftAlone, Cancelled, Overdue
  <1>7. run.thread \in {1, 2} /\ LeftAlone => LeftAlone'
    BY <1>1, <1>2, <1>3 DEF LeftAlone
  <1>8. run.thread = 3 /\ Cancelled => Cancelled'
    BY <1>1, <1>2, <1>3 DEF Cancelled
  <1>9. run.thread = 4 /\ Overdue => Overdue'
    BY <1>1, <1>2, <1>3 DEF Overdue
  <1>10. QED
    BY <1>1, <1>5, <1>6, <1>7, <1>8, <1>9, ByKind

LEMMA ExhaustedOnCourse ==
  ASSUME VerifierInv, VerifierInv', OnCourse, Scripted, OfflineChunk,
         plan = "http" => acted # {}, Pumps(Exhausted)
  PROVE  OnCourse'
  <1>1. /\ run # NoRun /\ Exhausted /\ Recorded
        /\ UNCHANGED <<tenantVars, run, acted, plan, at, verdict>>
    BY DEF Pumps, Runs, PumpStep, runVars
  <1>2. /\ Done' = Done /\ Together /\ Counted
        /\ prod \in Place /\ queue \in Seq(Nat) /\ Len(queue) <= 1
    BY <1>1 DEF Done, Heard, tenantVars, VerifierInv, PumpInv, PumpTypeOK
  <1>3. /\ Holding /\ run.thread \in 1..4
        /\ run.thread \in {1, 2} => LeftAlone
        /\ run.thread = 3 => Cancelled
        /\ run.thread = 4 => Overdue
    BY <1>1, RunKinds
  <1>4. run.thread \in {1, 2} /\ acted' # {}
    BY <1>1, RunKinds DEF OfflineChunk
  <1> USE DEF Exhausted, At, Ends, generator, Granted, Holding, Together
  <1>5. Ledger
    BY <1>1, <1>2, <1>3, <1>4 DEF Ledger, LeftAlone, Cancelled, Overdue
  <1>6. Holding'
    BY <1>1, <1>2, <1>3, <1>4 DEF LeftAlone, Cancelled, Overdue
  <1>7. run.thread \in {1, 2} /\ LeftAlone => LeftAlone'
    BY <1>1, <1>2, <1>3, <1>4 DEF LeftAlone
  <1>8. run.thread = 3 /\ Cancelled => Cancelled'
    BY <1>1, <1>2, <1>3, <1>4 DEF Cancelled
  <1>9. run.thread = 4 /\ Overdue => Overdue'
    BY <1>1, <1>2, <1>3, <1>4 DEF Overdue
  <1>10. QED
    BY <1>1, <1>5, <1>6, <1>7, <1>8, <1>9, ByKind

\* Only the run that is to meet its deadline meets it.
LEMMA DeadlineOnCourse ==
  ASSUME VerifierInv, VerifierInv', OnCourse, Scripted, DeadlinePasses, ~late'
  PROVE  OnCourse'
  <1>1. /\ run # NoRun /\ Deadline /\ Recorded
        /\ UNCHANGED <<tenantVars, run, acted, plan, at, verdict>>
    BY DEF DeadlinePasses, PumpStep, runVars
  <1>2. /\ Done' = Done /\ Together /\ Counted
        /\ prod \in Place /\ queue \in Seq(Nat) /\ Len(queue) <= 1
    BY <1>1 DEF Done, Heard, tenantVars, VerifierInv, PumpInv, PumpTypeOK
  <1>3. /\ Holding /\ run.thread \in 1..4
        /\ run.thread \in {1, 2} => LeftAlone
        /\ run.thread = 3 => Cancelled
        /\ run.thread = 4 => Overdue
    BY <1>1, RunKinds
  <1>4. run.thread = 4 /\ Granted
    <2>1. run.waits /\ ~run.background /\ held
      BY <1>1, RunKinds DEF DeadlinePasses
    <2>2. QED
      BY <1>1, <1>2, <2>1, RunKinds DEF Granted, Together
  <1> USE DEF Deadline, generator, Granted, Holding, Together
  <1>5. Ledger
    BY <1>1, <1>2, <1>3, <1>4 DEF Ledger, LeftAlone, Cancelled, Overdue
  <1>6. Holding'
    BY <1>1, <1>2, <1>3, <1>4 DEF LeftAlone, Cancelled, Overdue
  <1>7. run.thread \in {1, 2} /\ LeftAlone => LeftAlone'
    BY <1>1, <1>2, <1>3, <1>4 DEF LeftAlone
  <1>8. run.thread = 3 /\ Cancelled => Cancelled'
    BY <1>1, <1>2, <1>3, <1>4 DEF Cancelled
  <1>9. run.thread = 4 /\ Overdue => Overdue'
    BY <1>1, <1>2, <1>3, <1>4 DEF Overdue
  <1>10. QED
    BY <1>1, <1>5, <1>6, <1>7, <1>8, <1>9, ByKind

LEMMA InterruptedOnCourse ==
  ASSUME VerifierInv, VerifierInv', OnCourse, Scripted, Pumps(Interrupted)
  PROVE  OnCourse'
  <1>1. /\ run # NoRun /\ Interrupted /\ Recorded
        /\ UNCHANGED <<tenantVars, run, acted, plan, at, verdict>>
    BY DEF Pumps, Runs, PumpStep, runVars
  <1>2. /\ Done' = Done /\ Together /\ Counted
        /\ prod \in Place /\ queue \in Seq(Nat) /\ Len(queue) <= 1
    BY <1>1 DEF Done, Heard, tenantVars, VerifierInv, PumpInv, PumpTypeOK
  <1>3. /\ Holding /\ run.thread \in 1..4
        /\ run.thread \in {1, 2} => LeftAlone
        /\ run.thread = 3 => Cancelled
        /\ run.thread = 4 => Overdue
    BY <1>1, RunKinds
  <1> USE DEF Interrupted, Ends, generator, Granted, Holding, Together
  <1>5. Ledger
    BY <1>1, <1>2, <1>3 DEF Ledger, LeftAlone, Cancelled, Overdue
  <1>6. Holding'
    BY <1>1, <1>2, <1>3 DEF LeftAlone, Cancelled, Overdue
  <1>7. run.thread \in {1, 2} /\ LeftAlone => LeftAlone'
    BY <1>1, <1>2, <1>3 DEF LeftAlone
  <1>8. run.thread = 3 /\ Cancelled => Cancelled'
    BY <1>1, <1>2, <1>3 DEF Cancelled
  <1>9. run.thread = 4 /\ Overdue => Overdue'
    BY <1>1, <1>2, <1>3 DEF Overdue
  <1>10. QED
    BY <1>1, <1>5, <1>6, <1>7, <1>8, <1>9, ByKind

LEMMA ClosedOnCourse ==
  ASSUME VerifierInv, VerifierInv', OnCourse, Scripted, Pumps(Closed), plan = "http" => result' # "error"
  PROVE  OnCourse'
  <1>1. /\ run # NoRun /\ Closed /\ Recorded
        /\ UNCHANGED <<tenantVars, run, acted, plan, at, verdict>>
    BY DEF Pumps, Runs, PumpStep, runVars
  <1>2. /\ Done' = Done /\ Together /\ Counted
        /\ prod \in Place /\ queue \in Seq(Nat) /\ Len(queue) <= 1
    BY <1>1 DEF Done, Heard, tenantVars, VerifierInv, PumpInv, PumpTypeOK
  <1>3. /\ Holding /\ run.thread \in 1..4
        /\ run.thread \in {1, 2} => LeftAlone
        /\ run.thread = 3 => Cancelled
        /\ run.thread = 4 => Overdue
    BY <1>1, RunKinds
  <1>4. result' # "error"
    BY <1>1, RunKinds
  <1> USE DEF Closed, At, Ends, Verdict, generator, Granted, Holding, Together
  <1>5. Ledger
    BY <1>1, <1>2, <1>3, <1>4 DEF Ledger, LeftAlone, Cancelled, Overdue
  <1>6. Holding'
    BY <1>1, <1>2, <1>3, <1>4 DEF LeftAlone, Cancelled, Overdue
  <1>7. run.thread \in {1, 2} /\ LeftAlone => LeftAlone'
    BY <1>1, <1>2, <1>3, <1>4 DEF LeftAlone
  <1>8. run.thread = 3 /\ Cancelled => Cancelled'
    BY <1>1, <1>2, <1>3, <1>4 DEF Cancelled
  <1>9. run.thread = 4 /\ Overdue => Overdue'
    BY <1>1, <1>2, <1>3, <1>4 DEF Overdue
  <1>10. QED
    BY <1>1, <1>5, <1>6, <1>7, <1>8, <1>9, ByKind

LEMMA ResumeOnCourse ==
  ASSUME VerifierInv, VerifierInv', OnCourse, Scripted, Pumps(Resume)
  PROVE  OnCourse'
  <1>1. /\ run # NoRun /\ Resume /\ Recorded
        /\ UNCHANGED <<tenantVars, run, acted, plan, at, verdict>>
    BY DEF Pumps, Runs, PumpStep, runVars
  <1>2. /\ Done' = Done /\ Together /\ Counted
        /\ prod \in Place /\ queue \in Seq(Nat) /\ Len(queue) <= 1
    BY <1>1 DEF Done, Heard, tenantVars, VerifierInv, PumpInv, PumpTypeOK
  <1>3. /\ Holding /\ run.thread \in 1..4
        /\ run.thread \in {1, 2} => LeftAlone
        /\ run.thread = 3 => Cancelled
        /\ run.thread = 4 => Overdue
    BY <1>1, RunKinds
  <1> USE DEF Resume, Leave, task, generator, Granted, Holding, Together
  <1>5. Ledger
    BY <1>1, <1>2, <1>3 DEF Ledger, LeftAlone, Cancelled, Overdue
  <1>6. Holding'
    BY <1>1, <1>2, <1>3 DEF LeftAlone, Cancelled, Overdue
  <1>7. run.thread \in {1, 2} /\ LeftAlone => LeftAlone'
    BY <1>1, <1>2, <1>3 DEF LeftAlone
  <1>8. run.thread = 3 /\ Cancelled => Cancelled'
    BY <1>1, <1>2, <1>3 DEF Cancelled
  <1>9. run.thread = 4 /\ Overdue => Overdue'
    BY <1>1, <1>2, <1>3 DEF Overdue
  <1>10. QED
    BY <1>1, <1>5, <1>6, <1>7, <1>8, <1>9, ByKind

LEMMA GetChunkOnCourse ==
  ASSUME VerifierInv, VerifierInv', OnCourse, Scripted, Pumps(GetChunk)
  PROVE  OnCourse'
  <1>1. /\ run # NoRun /\ GetChunk /\ Recorded
        /\ UNCHANGED <<tenantVars, run, acted, plan, at, verdict>>
    BY DEF Pumps, Runs, PumpStep, runVars
  <1>2. /\ Done' = Done /\ Together /\ Counted
        /\ prod \in Place /\ queue \in Seq(Nat) /\ Len(queue) <= 1
    BY <1>1 DEF Done, Heard, tenantVars, VerifierInv, PumpInv, PumpTypeOK
  <1>3. /\ Holding /\ run.thread \in 1..4
        /\ run.thread \in {1, 2} => LeftAlone
        /\ run.thread = 3 => Cancelled
        /\ run.thread = 4 => Overdue
    BY <1>1, RunKinds
  <1> USE DEF GetChunk, task, generator, Granted, Holding, Together
  <1>5. Ledger
    BY <1>1, <1>2, <1>3 DEF Ledger, LeftAlone, Cancelled, Overdue
  <1>6. Holding'
    BY <1>1, <1>2, <1>3 DEF LeftAlone, Cancelled, Overdue
  <1>7. run.thread \in {1, 2} /\ LeftAlone => LeftAlone'
    BY <1>1, <1>2, <1>3 DEF LeftAlone
  <1>8. run.thread = 3 /\ Cancelled => Cancelled'
    BY <1>1, <1>2, <1>3 DEF Cancelled
  <1>9. run.thread = 4 /\ Overdue => Overdue'
    BY <1>1, <1>2, <1>3 DEF Overdue
  <1>10. QED
    BY <1>1, <1>5, <1>6, <1>7, <1>8, <1>9, ByKind

LEMMA GetFinishedOnCourse ==
  ASSUME VerifierInv, VerifierInv', OnCourse, Scripted, Pumps(GetFinished)
  PROVE  OnCourse'
  <1>1. /\ run # NoRun /\ GetFinished /\ Recorded
        /\ UNCHANGED <<tenantVars, run, acted, plan, at, verdict>>
    BY DEF Pumps, Runs, PumpStep, runVars
  <1>2. /\ Done' = Done /\ Together /\ Counted
        /\ prod \in Place /\ queue \in Seq(Nat) /\ Len(queue) <= 1
    BY <1>1 DEF Done, Heard, tenantVars, VerifierInv, PumpInv, PumpTypeOK
  <1>3. /\ Holding /\ run.thread \in 1..4
        /\ run.thread \in {1, 2} => LeftAlone
        /\ run.thread = 3 => Cancelled
        /\ run.thread = 4 => Overdue
    BY <1>1, RunKinds
  <1>4. prod = "done"
    <2>1. delivered \in Seq(Nat)
      BY DEF VerifierInv, PumpTypeOK
    <2>2. queue = <<Finished>>
      BY <1>1, <1>2, <2>1 DEF GetFinished, Counted, QueueEmptyOfChunks, Finished
    <2>3. QED
      BY <1>2, <2>2 DEF Counted
  <1> USE DEF GetFinished, Leave, task, generator, Granted, Holding, Together
  <1>5. Ledger
    BY <1>1, <1>2, <1>3, <1>4 DEF Ledger, LeftAlone, Cancelled, Overdue
  <1>6. Holding'
    BY <1>1, <1>2, <1>3, <1>4 DEF LeftAlone, Cancelled, Overdue
  <1>7. run.thread \in {1, 2} /\ LeftAlone => LeftAlone'
    BY <1>1, <1>2, <1>3, <1>4 DEF LeftAlone
  <1>8. run.thread = 3 /\ Cancelled => Cancelled'
    BY <1>1, <1>2, <1>3, <1>4 DEF Cancelled
  <1>9. run.thread = 4 /\ Overdue => Overdue'
    BY <1>1, <1>2, <1>3, <1>4 DEF Overdue
  <1>10. QED
    BY <1>1, <1>5, <1>6, <1>7, <1>8, <1>9, ByKind

LEMMA CleanedOnCourse ==
  ASSUME VerifierInv, VerifierInv', OnCourse, Scripted, Pumps(Cleaned)
  PROVE  OnCourse'
  <1>1. /\ run # NoRun /\ Cleaned /\ Recorded
        /\ UNCHANGED <<tenantVars, run, acted, plan, at, verdict>>
    BY DEF Pumps, Runs, PumpStep, runVars
  <1>2. /\ Done' = Done /\ Together /\ Counted
        /\ prod \in Place /\ queue \in Seq(Nat) /\ Len(queue) <= 1
    BY <1>1 DEF Done, Heard, tenantVars, VerifierInv, PumpInv, PumpTypeOK
  <1>3. /\ Holding /\ run.thread \in 1..4
        /\ run.thread \in {1, 2} => LeftAlone
        /\ run.thread = 3 => Cancelled
        /\ run.thread = 4 => Overdue
    BY <1>1, RunKinds
  <1> USE DEF Cleaned, task, generator, Granted, Holding, Together
  <1>5. Ledger
    BY <1>1, <1>2, <1>3 DEF Ledger, LeftAlone, Cancelled, Overdue
  <1>6. Holding'
    BY <1>1, <1>2, <1>3 DEF LeftAlone, Cancelled, Overdue
  <1>7. run.thread \in {1, 2} /\ LeftAlone => LeftAlone'
    BY <1>1, <1>2, <1>3 DEF LeftAlone
  <1>8. run.thread = 3 /\ Cancelled => Cancelled'
    BY <1>1, <1>2, <1>3 DEF Cancelled
  <1>9. run.thread = 4 /\ Overdue => Overdue'
    BY <1>1, <1>2, <1>3 DEF Overdue
  <1>10. QED
    BY <1>1, <1>5, <1>6, <1>7, <1>8, <1>9, ByKind

\* Only the run that is cancelled is.
LEMMA CallerCancelsOnCourse ==
  ASSUME VerifierInv, VerifierInv', OnCourse, Scripted, Asked, Pumps(CallerCancels)
  PROVE  OnCourse'
  <1>1. /\ run # NoRun /\ CallerCancels /\ Recorded
        /\ UNCHANGED <<tenantVars, run, acted, plan, at, verdict>>
    BY DEF Pumps, Runs, PumpStep, runVars
  <1>2. /\ Done' = Done /\ Together /\ Counted
        /\ prod \in Place /\ queue \in Seq(Nat) /\ Len(queue) <= 1
    BY <1>1 DEF Done, Heard, tenantVars, VerifierInv, PumpInv, PumpTypeOK
  <1>3. /\ Holding /\ run.thread \in 1..4
        /\ run.thread \in {1, 2} => LeftAlone
        /\ run.thread = 3 => Cancelled
        /\ run.thread = 4 => Overdue
    BY <1>1, RunKinds
  <1>4. run.thread = 3 /\ run.cancelled /\ Granted
    BY <1>1, RunKinds DEF Asked
  <1> USE DEF CallerCancels, Leave, task, generator, Granted, Holding, Together
  <1>5. Ledger
    BY <1>1, <1>2, <1>3, <1>4 DEF Ledger, LeftAlone, Cancelled, Overdue
  <1>6. Holding'
    BY <1>1, <1>2, <1>3, <1>4 DEF LeftAlone, Cancelled, Overdue
  <1>7. run.thread \in {1, 2} /\ LeftAlone => LeftAlone'
    BY <1>1, <1>2, <1>3, <1>4 DEF LeftAlone
  <1>8. run.thread = 3 /\ Cancelled => Cancelled'
    BY <1>1, <1>2, <1>3, <1>4 DEF Cancelled
  <1>9. run.thread = 4 /\ Overdue => Overdue'
    BY <1>1, <1>2, <1>3, <1>4 DEF Overdue
  <1>10. QED
    BY <1>1, <1>5, <1>6, <1>7, <1>8, <1>9, ByKind

LEMMA CallerCancelsAgainOnCourse ==
  ASSUME VerifierInv, VerifierInv', OnCourse, Scripted, Asked, Pumps(CallerCancelsAgain)
  PROVE  OnCourse'
  <1>1. /\ run # NoRun /\ CallerCancelsAgain /\ Recorded
        /\ UNCHANGED <<tenantVars, run, acted, plan, at, verdict>>
    BY DEF Pumps, Runs, PumpStep, runVars
  <1>2. /\ Done' = Done /\ Together /\ Counted
        /\ prod \in Place /\ queue \in Seq(Nat) /\ Len(queue) <= 1
    BY <1>1 DEF Done, Heard, tenantVars, VerifierInv, PumpInv, PumpTypeOK
  <1>3. /\ Holding /\ run.thread \in 1..4
        /\ run.thread \in {1, 2} => LeftAlone
        /\ run.thread = 3 => Cancelled
        /\ run.thread = 4 => Overdue
    BY <1>1, RunKinds
  <1>4. run.thread = 3 /\ run.cancelled /\ Granted
    BY <1>1, RunKinds DEF Asked
  <1> USE DEF CallerCancelsAgain, task, generator, Granted, Holding, Together
  <1>5. Ledger
    BY <1>1, <1>2, <1>3, <1>4 DEF Ledger, LeftAlone, Cancelled, Overdue
  <1>6. Holding'
    BY <1>1, <1>2, <1>3, <1>4 DEF LeftAlone, Cancelled, Overdue
  <1>7. run.thread \in {1, 2} /\ LeftAlone => LeftAlone'
    BY <1>1, <1>2, <1>3, <1>4 DEF LeftAlone
  <1>8. run.thread = 3 /\ Cancelled => Cancelled'
    BY <1>1, <1>2, <1>3, <1>4 DEF Cancelled
  <1>9. run.thread = 4 /\ Overdue => Overdue'
    BY <1>1, <1>2, <1>3, <1>4 DEF Overdue
  <1>10. QED
    BY <1>1, <1>5, <1>6, <1>7, <1>8, <1>9, ByKind

LEMMA CallerClosesOnCourse ==
  ASSUME VerifierInv, VerifierInv', OnCourse, Scripted, Asked, Pumps(CallerCloses)
  PROVE  OnCourse'
  <1>1. /\ run # NoRun /\ CallerCloses /\ Recorded
        /\ UNCHANGED <<tenantVars, run, acted, plan, at, verdict>>
    BY DEF Pumps, Runs, PumpStep, runVars
  <1>2. /\ Done' = Done /\ Together /\ Counted
        /\ prod \in Place /\ queue \in Seq(Nat) /\ Len(queue) <= 1
    BY <1>1 DEF Done, Heard, tenantVars, VerifierInv, PumpInv, PumpTypeOK
  <1>3. /\ Holding /\ run.thread \in 1..4
        /\ run.thread \in {1, 2} => LeftAlone
        /\ run.thread = 3 => Cancelled
        /\ run.thread = 4 => Overdue
    BY <1>1, RunKinds
  <1>4. run.thread = 3 /\ run.cancelled /\ Granted
    BY <1>1, RunKinds DEF Asked
  <1> USE DEF CallerCloses, Leave, task, generator, Granted, Holding, Together
  <1>5. Ledger
    BY <1>1, <1>2, <1>3, <1>4 DEF Ledger, LeftAlone, Cancelled, Overdue
  <1>6. Holding'
    BY <1>1, <1>2, <1>3, <1>4 DEF LeftAlone, Cancelled, Overdue
  <1>7. run.thread \in {1, 2} /\ LeftAlone => LeftAlone'
    BY <1>1, <1>2, <1>3, <1>4 DEF LeftAlone
  <1>8. run.thread = 3 /\ Cancelled => Cancelled'
    BY <1>1, <1>2, <1>3, <1>4 DEF Cancelled
  <1>9. run.thread = 4 /\ Overdue => Overdue'
    BY <1>1, <1>2, <1>3, <1>4 DEF Overdue
  <1>10. QED
    BY <1>1, <1>5, <1>6, <1>7, <1>8, <1>9, ByKind

LEMMA CallerClosesUnstartedOnCourse ==
  ASSUME VerifierInv, VerifierInv', OnCourse, Scripted, Asked, Pumps(CallerClosesUnstarted)
  PROVE  OnCourse'
  <1>1. /\ run # NoRun /\ CallerClosesUnstarted /\ Recorded
        /\ UNCHANGED <<tenantVars, run, acted, plan, at, verdict>>
    BY DEF Pumps, Runs, PumpStep, runVars
  <1>2. /\ Done' = Done /\ Together /\ Counted
        /\ prod \in Place /\ queue \in Seq(Nat) /\ Len(queue) <= 1
    BY <1>1 DEF Done, Heard, tenantVars, VerifierInv, PumpInv, PumpTypeOK
  <1>3. /\ Holding /\ run.thread \in 1..4
        /\ run.thread \in {1, 2} => LeftAlone
        /\ run.thread = 3 => Cancelled
        /\ run.thread = 4 => Overdue
    BY <1>1, RunKinds
  <1>4. run.thread = 3 /\ run.cancelled /\ Granted
    BY <1>1, RunKinds DEF Asked
  <1> USE DEF CallerClosesUnstarted, task, generator, Granted, Holding, Together
  <1>5. Ledger
    BY <1>1, <1>2, <1>3, <1>4 DEF Ledger, LeftAlone, Cancelled, Overdue
  <1>6. Holding'
    BY <1>1, <1>2, <1>3, <1>4 DEF LeftAlone, Cancelled, Overdue
  <1>7. run.thread \in {1, 2} /\ LeftAlone => LeftAlone'
    BY <1>1, <1>2, <1>3, <1>4 DEF LeftAlone
  <1>8. run.thread = 3 /\ Cancelled => Cancelled'
    BY <1>1, <1>2, <1>3, <1>4 DEF Cancelled
  <1>9. run.thread = 4 /\ Overdue => Overdue'
    BY <1>1, <1>2, <1>3, <1>4 DEF Overdue
  <1>10. QED
    BY <1>1, <1>5, <1>6, <1>7, <1>8, <1>9, ByKind

LEMMA StartRunOnCourse ==
  ASSUME VerifierInv, VerifierInv', OnCourse, Scripted, Runs(StartRun)
  PROVE  OnCourse'
  <1>1. /\ run # NoRun /\ StartRun /\ Recorded
        /\ UNCHANGED <<tenantVars, run, acted, plan, at, verdict>>
    BY DEF Runs, StartRun
  <1>2. /\ Done' = Done /\ Together /\ Counted
        /\ prod \in Place /\ queue \in Seq(Nat) /\ Len(queue) <= 1
    BY <1>1 DEF Done, Heard, tenantVars, VerifierInv, PumpInv, PumpTypeOK
  <1>3. /\ Holding /\ run.thread \in 1..4
        /\ run.thread \in {1, 2} => LeftAlone
        /\ run.thread = 3 => Cancelled
        /\ run.thread = 4 => Overdue
    BY <1>1, RunKinds
  <1> USE DEF StartRun, Start, Granted, Holding, Together
  <1>5. Ledger
    BY <1>1, <1>2, <1>3 DEF Ledger, LeftAlone, Cancelled, Overdue
  <1>6. Holding'
    BY <1>1, <1>2, <1>3 DEF LeftAlone, Cancelled, Overdue
  <1>7. run.thread \in {1, 2} /\ LeftAlone => LeftAlone'
    BY <1>1, <1>2, <1>3 DEF LeftAlone
  <1>8. run.thread = 3 /\ Cancelled => Cancelled'
    BY <1>1, <1>2, <1>3 DEF Cancelled
  <1>9. run.thread = 4 /\ Overdue => Overdue'
    BY <1>1, <1>2, <1>3 DEF Overdue
  <1>10. QED
    BY <1>1, <1>5, <1>6, <1>7, <1>8, <1>9, ByKind

LEMMA ActOnCourse ==
  ASSUME VerifierInv, VerifierInv', OnCourse, Scripted, Runs(Act)
  PROVE  OnCourse'
  <1>1. /\ run # NoRun /\ Act /\ Recorded
        /\ UNCHANGED <<tenantVars, run, plan, at, verdict>>
    BY DEF Runs, Act
  <1>2. /\ Done' = Done /\ Together /\ Counted
        /\ prod \in Place /\ queue \in Seq(Nat) /\ Len(queue) <= 1
    BY <1>1 DEF Done, Heard, tenantVars, VerifierInv, PumpInv, PumpTypeOK
  <1>3. /\ Holding /\ run.thread \in 1..4
        /\ run.thread \in {1, 2} => LeftAlone
        /\ run.thread = 3 => Cancelled
        /\ run.thread = 4 => Overdue
    BY <1>1, RunKinds
  <1> USE DEF Act, At, pumpVars, task, generator, Granted, Holding, Together
  <1>5. Ledger
    BY <1>1, <1>2, <1>3 DEF Ledger, LeftAlone, Cancelled, Overdue
  <1>6. Holding'
    BY <1>1, <1>2, <1>3 DEF LeftAlone, Cancelled, Overdue
  <1>7. run.thread \in {1, 2} /\ LeftAlone => LeftAlone'
    BY <1>1, <1>2, <1>3 DEF LeftAlone
  <1>8. run.thread = 3 /\ Cancelled => Cancelled'
    BY <1>1, <1>2, <1>3 DEF Cancelled
  <1>9. run.thread = 4 /\ Overdue => Overdue'
    BY <1>1, <1>2, <1>3 DEF Overdue
  <1>10. QED
    BY <1>1, <1>5, <1>6, <1>7, <1>8, <1>9, ByKind

\* Every run ends as its step wants it to.
LEMMA EndsAsPlanned ==
  ASSUME VerifierInv, OnCourse, Scripted, run # NoRun, cons = "over"
  PROVE  /\ Outcome = End(run.thread) /\ Granted /\ prod = "done" /\ ~held
         /\ run.thread \in {1, 2} => acted # {}
         /\ run.thread = 3 => Phase(script, "cancelling")
  <1>1. /\ Holding /\ run.thread \in 1..4
        /\ run.thread \in {1, 2} => LeftAlone
        /\ run.thread = 3 => Cancelled
        /\ run.thread = 4 => Overdue
    BY RunKinds
  <1>2. Granted /\ prod = "done" /\ ~held
    BY <1>1 DEF Holding, Granted, VerifierInv, PumpInv, Together
  <1>3. run.cancelled => Phase(script, "cancelling")
    BY DEF OnCourse, AtWork
  <1>4. CASE run.thread \in {1, 2}
    <2>1. answer = "ok" /\ acted # {}
      BY <1>1, <1>2, <1>4 DEF LeftAlone
    <2>2. QED
      BY <1>2, <1>4, <2>1 DEF Outcome, End
  <1>5. CASE run.thread = 3
    <2>1. answer \in {"cancelled", "closed"} /\ run.cancelled
      BY <1>1, <1>5 DEF Cancelled
    <2>2. QED
      BY <1>2, <1>3, <1>5, <2>1 DEF Outcome, End
  <1>6. CASE run.thread = 4
    <2>1. answer = "timeout"
      BY <1>1, <1>6 DEF Overdue
    <2>2. QED
      BY <1>2, <1>6, <2>1 DEF Outcome, End
  <1>7. QED
    BY <1>1, <1>4, <1>5, <1>6

LEMMA ReturnsOnCourse ==
  ASSUME VerifierInv, VerifierInv', OnCourse, Scripted, Runs(RunReturns)
  PROVE  OnCourse'
  <1> DEFINE n == run.thread
  <1>1. RunReturns /\ Recorded /\ UNCHANGED <<plan, at, verdict>>
    BY DEF Runs
  <1>2. /\ run # NoRun /\ cons = "over" /\ UNCHANGED <<files, acted>> /\ run' = NoRun
        /\ cons' = "fresh" /\ requests' = {} /\ ~due' /\ ~held' /\ ~again'
        /\ answer' = "none" /\ result' = "none" /\ raising' = "none"
    BY <1>1 DEF RunReturns
  <1>3. /\ Outcome = End(n) /\ Granted /\ prod = "done" /\ ~held
        /\ n \in {1, 2} => acted # {}
        /\ n = 3 => Phase(script, "cancelling")
    BY <1>2, EndsAsPlanned
  <1>4. /\ plan = "http" /\ run.client = script /\ n \in 1..4 /\ run.user = Maker(n)
        /\ run.background <=> n = 3
        /\ n # 3 => Phase(script, "running")
        /\ n = 3 => Done \in {14, 15}
    BY <1>2 DEF OnCourse, AtWork
  <1>5. Asking /\ call[script] # NoCall
    BY <1>3, <1>4 DEF OnCourse, Talking, Phase
  <1>6. ~Heard /\ Done = at - 1 /\ at <= Len(Plan(plan)) /\ at \in Nat \ {0}
    BY <1>5, ReturnedCounts DEF Asking, Done
  <1>7. Returned = n - 1
    BY <1>2 DEF Returned
  <1>8. n # 3 => at = RunStep(n)
    BY <1>2, <1>4, <1>5 DEF Asking, Phase
  <1>9. n = 3 => at = 16
    BY <1>3, <1>5 DEF Asking, Phase
  <1>10. n <= Births(plan, Done) /\ Births(plan, at) = Births(plan, at - 1)
    <2>1. CASE n = 3
      BY <1>4, <1>6, <1>9, <2>1, Numbers
    <2>2. CASE n # 3
      BY <1>4, <1>6, <1>8, <2>2, Numbers
    <2>3. QED
      BY <2>1, <2>2
  <1>11. n \in Ids /\ Maker(n) # Nobody /\ n # Query /\ threads[n].owner = Maker(n)
    <2>1. n \in Ids
      BY <1>2, <1>4 DEF VerifierInv, RunInv, OnItsBehalf, Query
    <2>2. Maker(n) # Nobody
      BY Accounts DEF Maker
    <2>3. QED
      BY <1>4, <1>10, <2>1, <2>2 DEF OnCourse, World, Query
  <1>12. threads' = [threads EXCEPT ![n].status = End(n)]
    BY <1>1, <1>3, <1>11 DEF RunReturns
  <1>13. /\ n # 3 => Answer(script, End(n), {n})
         /\ n = 3 => UNCHANGED <<call, told>>
    BY <1>1, <1>3, <1>4, <1>11 DEF RunReturns
  <1>14. /\ Returned' = n /\ Done' \in {at - 1, at} /\ Talking'
         /\ Phase(script, "cancelling")' \/ Done' \notin {14, 15}
    <2>1. CASE n = 3
      <3>1. /\ ~Heard' /\ Done' = at - 1 /\ Phase(script, "cancelling")' /\ Now' = Now
        BY <1>1, <1>3, <1>6, <1>13, <2>1 DEF Heard, Done, Phase, Now
      <3>2. Returned' = 3
        BY <1>2, <3>1 DEF Returned
      <3>3. Asking'
        BY <1>1, <1>2, <1>3, <1>5, <1>9, <1>13, <2>1, <3>1 DEF Asking, Phase
      <3>4. Talking'
        BY <1>1, <1>13, <2>1, <3>1, <3>3 DEF OnCourse, Talking, Alone
      <3>5. QED
        BY <2>1, <3>1, <3>2, <3>4
    <2>2. CASE n # 3
      <3>1. /\ call'[script] = NoCall /\ told'[script].status = End(n)
            /\ \A d \in Clients \ {script} : call'[d] = call[d]
        BY <1>13, <2>2, VerifierAssumption DEF Answer, VerifierInv, TenantInv, TenantTypeOK
      <3>2. Heard' /\ Done' = at /\ ~Phase(script, "cancelling")' /\ Alone'
        BY <1>1, <3>1 DEF Heard, Done, End, Phase, Alone, OnCourse, Talking
      <3>3. Ended("http", at) = n /\ at \notin 14..16
        BY <1>4, <1>8, <2>2, Numbers
      <3>4. Returned' = n
        BY <1>1, <1>2, <1>4, <3>2, <3>3 DEF Returned
      <3>5. n \in {1, 2, 4} /\ Now' = Plan("http")[RunStep(n)]
        BY <1>1, <1>4, <1>8, <2>2 DEF Now
      <3>6. Answered'
        BY <1>1, <1>6, <3>1, <3>5, RunSteps DEF Answered
      <3>7. Talking'
        BY <1>1, <1>6, <3>1, <3>2, <3>6 DEF OnCourse, Talking
      <3>8. QED
        BY <1>6, <3>2, <3>3, <3>4, <3>7
    <2>3. QED
      BY <2>1, <2>2
  <1>15. Births(plan', Done') = Births(plan, Done)
    BY <1>1, <1>6, <1>10, <1>14
  <1>16. World'
    <2>1. \A t \in Ids : /\ t # n => threads'[t] = threads[t]
                         /\ threads'[t].owner = threads[t].owner
                         /\ t = n => threads'[t].status = End(n)
      BY <1>12 DEF VerifierInv, TenantInv, TenantTypeOK
    <2>2. threads'[n] # Unborn
      <3>1. Unborn.owner = Nobody
        BY DEF Unborn
      <3>2. QED
        BY <1>11, <2>1, <3>1
    <2>3. threads[n] # Unborn
      BY <1>10, <1>11 DEF OnCourse, World
    <2>4. \A t \in Ids : t <= n => t = n \/ t <= Returned
      BY <1>4, <1>7, TenantAssumption DEF Ids
    <2>5. plan' = "http"
      BY <1>1, <1>4
    <2> HIDE DEF n
    <2>6. ASSUME NEW t \in Ids
          PROVE  /\ threads'[t].owner = IF t <= Births(plan', Done') THEN Maker(t) ELSE Nobody
                 /\ t <= Births(plan', Done') <=> threads'[t] # Unborn
                 /\ t <= Returned' => threads'[t].status = End(t)
      BY <1>4, <1>10, <1>14, <1>15, <2>1, <2>2, <2>3, <2>4 DEF OnCourse, World
    <2>7. Births(plan', Done') <= MaxThreads
      BY <1>15 DEF OnCourse, World
    <2>8. QED
      BY <2>5, <2>6, <2>7 DEF World
  <1>17. AtWork'
    BY <1>1, <1>2, <1>14 DEF AtWork
  <1>18. Course'
    BY <1>2 DEF Course
  <1>19. Counters'
    <2>1. /\ leases'.acquired = leases.acquired /\ leases'.released = leases.released
          /\ leases'.subjects = leases.subjects /\ leases'.models = leases.models \cup acted
      BY <1>1, <1>2, <1>3, <1>4, NothingRecorded
    <2>2. /\ leases.acquired = Returned + 1 /\ leases.released = Returned + 1
          /\ leases.subjects \subseteq {A, B} /\ leases.models \subseteq {A, B}
          /\ \A t \in 1..Returned : Maker(t) \in leases.subjects
          /\ \A t \in {1, 2} : t <= Returned => Maker(t) \in leases.models
          /\ acted \subseteq leases.models /\ Maker(n) \in leases.subjects
      BY <1>2, <1>3, <1>4 DEF OnCourse, Counters
    <2>3. leases'.models = leases.models
      BY <2>1, <2>2
    <2>4. n \in {1, 2} => Maker(n) \in leases.models
      BY <1>2, <1>3, <1>4, <2>2 DEF VerifierInv, RunInv, OnItsBehalf
    <2> HIDE DEF n
    <2>5. \A t \in 1..n : Maker(t) \in leases.subjects
      BY <1>4, <1>7, <2>2
    <2>6. \A t \in {1, 2} : t <= n => Maker(t) \in leases.models
      BY <1>4, <1>7, <2>2, <2>4
    <2>7. leases.acquired = n /\ leases.released = n
      BY <1>4, <1>7, <2>2
    <2>8. QED
      BY <1>2, <1>4, <1>14, <2>1, <2>2, <2>3, <2>5, <2>6, <2>7 DEF Counters
  <1>20. QED
    BY <1>14, <1>16, <1>17, <1>18, <1>19 DEF OnCourse

\* What the server does.
LEMMA GraphStepsOnCourse ==
  ASSUME VerifierInv, VerifierInv', OnCourse, Scripted, GraphSteps, ~late'
  PROVE  OnCourse'
  <1>1. plan = "http" \/ run = NoRun
    BY DEF OnCourse, AtWork
  <1>2. ~(Unscripted /\ Pumps(LeaseRefused)) /\ ~(Unscripted /\ Pumps(ChunkRefused))
        /\ ~(Unscripted /\ Pumps(SourceFails))
    BY <1>1 DEF Unscripted, Pumps, Runs, PumpStep
  <1>3. CASE Pumps(LeaseGranted)
    BY <1>3, LeaseGrantedOnCourse
  <1>4. CASE OfflineChunk /\ Pumps(Chunk)
    BY <1>4, ChunkOnCourse
  <1>5. CASE Pumps(Put)
    BY <1>5, PutOnCourse
  <1>6. CASE OfflineChunk /\ (plan = "http" => acted # {}) /\ Pumps(Exhausted)
    BY <1>6, ExhaustedOnCourse
  <1>7. CASE DeadlinePasses
    BY <1>7, DeadlineOnCourse
  <1>8. CASE Pumps(Interrupted)
    BY <1>8, InterruptedOnCourse
  <1>9. CASE Pumps(Closed) /\ (plan = "http" => result' # "error")
    BY <1>9, ClosedOnCourse
  <1>10. CASE Pumps(Resume)
    BY <1>10, ResumeOnCourse
  <1>11. CASE Pumps(GetChunk)
    BY <1>11, GetChunkOnCourse
  <1>12. CASE Pumps(GetFinished)
    BY <1>12, GetFinishedOnCourse
  <1>13. CASE Pumps(Cleaned)
    BY <1>13, CleanedOnCourse
  <1>14. CASE Asked /\ (Pumps(CallerCancels) \/ Pumps(CallerCancelsAgain) \/ Pumps(CallerCloses)
                        \/ Pumps(CallerClosesUnstarted))
    BY <1>14, CallerCancelsOnCourse, CallerCancelsAgainOnCourse, CallerClosesOnCourse,
       CallerClosesUnstartedOnCourse
  <1>15. CASE Runs(StartRun)
    BY <1>15, StartRunOnCourse
  <1>16. CASE Runs(Act)
    BY <1>16, ActOnCourse
  <1>17. CASE Runs(RunReturns)
    BY <1>17, ReturnsOnCourse
  <1>18. QED
    BY <1>2, <1>3, <1>4, <1>5, <1>6, <1>7, <1>8, <1>9, <1>10, <1>11, <1>12, <1>13, <1>14,
       <1>15, <1>16, <1>17 DEF GraphSteps

LEMMA ServerStepsOnCourse ==
  ASSUME VerifierInv, VerifierInv', OnCourse, Scripted, ServerSteps, ~late'
  PROVE  OnCourse'
  <1>1. PICK c \in Clients :
          \/ TenantStep(c, Busy) /\ UNCHANGED <<pumpVars, runVars, scriptVars>>
          \/ Runs(BeginRun(c)) \/ Runs(QueryRejected(c)) \/ Runs(AskCancel(c)) \/ Runs(CancelAnswered(c))
    BY DEF ServerSteps
  <1>2. CASE TenantStep(c, Busy) /\ UNCHANGED <<pumpVars, runVars, scriptVars>>
    BY <1>2, TenantStepsOnCourse
  <1>3. CASE Runs(BeginRun(c))
    BY <1>3, BeginRunOnCourse
  <1>4. CASE Runs(QueryRejected(c))
    BY <1>4, RejectedOnCourse
  <1>5. CASE Runs(AskCancel(c))
    BY <1>5, AskCancelOnCourse
  <1>6. CASE Runs(CancelAnswered(c))
    BY <1>6, CancelAnsweredOnCourse
  <1>7. QED
    BY <1>1, <1>2, <1>3, <1>4, <1>5, <1>6
-----------------------------------------------------------------------------
(* What the script does.                                                    *)

LEMMA SendsOnCourse ==
  ASSUME VerifierInv, OnCourse, Scripted, ScriptSends
  PROVE  OnCourse'
  <1>1. /\ Working /\ call[script] = NoCall /\ ~Heard
        /\ UNCHANGED <<pumpVars, runVars, scriptVars, threads, files>>
    BY DEF ScriptSends, SendUpload
  <1>2. Now \in Steps /\ at <= Len(Plan(plan))
    BY <1>1, NowFits DEF Working, VerifierInv
  <1>3. /\ at' = at /\ plan' = plan /\ Now' = Now /\ script \in Clients
        /\ ~Phase(script, "running") /\ ~Phase(script, "cancelling")
    BY <1>1, VerifierAssumption DEF scriptVars, Now, Phase
  <1>4. CASE Now.kind = "request" /\ Send(script, Now.request)
    <2>1. Now.request \in SentCalls
      BY <1>2, <1>4 DEF Steps, RequestSteps
    <2>2. /\ call'[script] = Now.request /\ told'[script] = Untold
          /\ \A d \in Clients \ {script} : call'[d] = call[d]
      BY <1>3, <1>4 DEF Send, VerifierInv, TenantInv, TenantTypeOK
    <2>3. call'[script].phase = "sent"
      BY <2>1, <2>2 DEF SentCalls, Calls
    <2>4. ~Heard' /\ Alone'
      BY <2>2 DEF Heard, Untold, Alone, OnCourse, Talking
    <2>5. Asking'
      BY <1>2, <1>3, <1>4, <2>2, <2>3, <2>4 DEF Asking
    <2>6. ~Phase(script, "running")' /\ ~Phase(script, "cancelling")'
      BY <2>3 DEF Phase
    <2>7. QED
      BY <1>1, <1>3, <2>4, <2>5, <2>6, FurtherKeeps
  <1>5. CASE Now.kind = "upload" /\ SendUpload(script, Now.as, Now.body)
    <2> DEFINE q == [Request(Now.as, "upload", Now.as, Now.as) EXCEPT !.phase = "uploading"]
    <2>1. /\ call' = [call EXCEPT ![script] = q] /\ told' = [told EXCEPT ![script] = Untold]
          /\ body' = [body EXCEPT ![script] = Now.body]
      BY <1>5 DEF SendUpload, Send
    <2>2. q.phase = "uploading" /\ q.as = Now.as
      BY DEF Request
    <2> HIDE DEF q
    <2>3. /\ call'[script] = q /\ told'[script] = Untold /\ body'[script] = Now.body
          /\ \A d \in Clients \ {script} : call'[d] = call[d]
      BY <1>3, <2>1 DEF VerifierInv, TenantInv, TenantTypeOK, UploadTypeOK
    <2>4. ~Heard' /\ Alone'
      BY <2>3 DEF Heard, Untold, Alone, OnCourse, Talking
    <2>5. /\ Now.body # NoBody /\ Now.body.got <= Now.body.size
      <3>1. Now.body \in Uploads /\ Now.body.got = 0
        BY <1>2, <1>5 DEF Steps, RequestSteps, NewUploads
      <3>2. QED
        BY <3>1, UploadIsNoNone DEF Uploads
    <2>6. Asking'
      BY <1>2, <1>3, <1>5, <2>2, <2>3, <2>4, <2>5 DEF Asking
    <2>7. ~Phase(script, "running")' /\ ~Phase(script, "cancelling")'
      BY <2>2, <2>3 DEF Phase
    <2>8. QED
      BY <1>1, <1>3, <2>4, <2>6, <2>7, FurtherKeeps
  <1>6. QED
    BY <1>4, <1>5 DEF ScriptSends

\* The next step: what was done is done, or nothing lasting comes of it.
LEMMA PassesOnCourse ==
  ASSUME VerifierInv, OnCourse, Scripted, Working, call[script] = NoCall, Passes,
         ~Heard', Done' \in {Done, Done + 1}, call' = call,
         Done' # Done => Lasting(plan, Done + 1),
         run = NoRun => Done' = Done \/ plan # "http" \/ Done' \notin {14, 15},
         run # NoRun => Done' = Done \/ (Done' = 15 /\ Granted),
         UNCHANGED <<pumpVars, runVars, threads, files, plan, leases>>
  PROVE  OnCourse'
  <1>1. /\ plan' = plan /\ leases' = leases /\ run' = run /\ acted' = acted
        /\ at' = at + 1 /\ at <= Len(Plan(plan)) /\ verdict' # "failed"
    BY DEF runVars, Passes, Working
  <1>2. at \in Nat \ {0} /\ plan \in {"http", "smoke"} /\ Done \in Int
    BY ReturnedCounts
  <1>3. Len(Plan(plan)) \in Nat
    BY <1>2, HttpPlan, SmokePlan
  <1>4. Talking'
    BY <1>1, <1>2, <1>3 DEF OnCourse, Talking, Alone
  <1>5. /\ Births(plan, Done') = Births(plan, Done) /\ Stored(plan, Done') = Stored(plan, Done)
        /\ Ended(plan, Done') = Ended(plan, Done)
    BY <1>2 DEF Lasting
  <1>6. Returned' = Returned
    BY <1>1, <1>5 DEF Returned, Phase
  <1>7. World'
    BY <1>1, <1>5, <1>6, WorldLasts DEF OnCourse
  <1>8. AtWork'
    BY <1>1, <1>2 DEF OnCourse, AtWork, Phase, pumpVars, task, generator
  <1>9. Course'
    BY <1>1 DEF OnCourse, Course, Holding, LeftAlone, Cancelled, Overdue, Granted, pumpVars,
                task, generator
  <1>10. Counters'
    BY <1>1, <1>6 DEF OnCourse, Counters, Granted, pumpVars, task
  <1>11. QED
    BY <1>4, <1>7, <1>8, <1>9, <1>10 DEF OnCourse

LEMMA HearsOnCourse ==
  ASSUME VerifierInv, OnCourse, Scripted, ScriptHears
  PROVE  OnCourse'
  <1>1. /\ Working /\ call[script] = NoCall /\ Heard /\ call' = call
        /\ UNCHANGED <<pumpVars, runVars, threads, files, plan, leases>>
        /\ told' = [told EXCEPT ![script] = Untold]
    BY DEF ScriptHears
  <1>2. Passes
    BY <1>1 DEF ScriptHears, OnCourse, Talking, Answered, Judged
  <1>3. ~Heard'
    BY <1>1, VerifierAssumption DEF Heard, Untold, VerifierInv, TenantInv, TenantTypeOK
  <1>4. Done' = Done
    BY <1>1, <1>2, <1>3, ReturnedCounts DEF Done, Passes
  <1>5. QED
    BY <1>1, <1>2, <1>3, <1>4, PassesOnCourse

\* While the script looks around, only the run that goes on by itself is at work.
LEMMA AtLook ==
  ASSUME VerifierInv, OnCourse, Scripted, Working, call[script] = NoCall,
         Now.kind \notin {"request", "upload"}
  PROVE  /\ ~Heard /\ Done = at - 1 /\ at \in Nat \ {0} /\ plan \in {"http", "smoke"}
         /\ StepFits(plan, at, Now)
         /\ run # NoRun => plan = "http" /\ Done \in {14, 15} /\ run.thread = 3
         /\ plan = "http" /\ Done \in {14, 15} => run # NoRun
         /\ run = NoRun => Returned = Ended(plan, Done) /\ ~held
  <1>1. ~Heard /\ at <= Len(Plan(plan))
    BY DEF OnCourse, Talking, Answered, Working
  <1>2. Done = at - 1 /\ at \in Nat \ {0} /\ plan \in {"http", "smoke"}
    BY <1>1, ReturnedCounts DEF Done
  <1>3. StepFits(plan, at, Now)
    BY <1>1, NowFits DEF VerifierInv
  <1>4. ~Phase(script, "running") /\ ~Phase(script, "cancelling")
    BY DEF Phase
  <1>5. /\ run # NoRun => plan = "http" /\ Done \in {14, 15} /\ run.thread = 3
        /\ plan = "http" /\ Done \in {14, 15} => run # NoRun
        /\ run = NoRun => ~held
    BY <1>4 DEF OnCourse, AtWork
  <1>6. run = NoRun => Returned = Ended(plan, Done)
    BY <1>4 DEF Returned
  <1>7. QED
    BY <1>1, <1>2, <1>3, <1>5, <1>6

LEMMA LooksOnCourse ==
  ASSUME VerifierInv, OnCourse, Scripted, ScriptLooks
  PROVE  OnCourse'
  <1>1. /\ Working /\ call[script] = NoCall
        /\ UNCHANGED <<pumpVars, runVars, threads, files, plan, leases, call, told>>
        /\ Now.kind \in {"look", "poll", "subjects", "unchanged", "files"}
    BY DEF ScriptLooks, graphVars, tenantVars
  <1>2. /\ ~Heard /\ Done = at - 1 /\ at \in Nat \ {0} /\ plan \in {"http", "smoke"}
        /\ StepFits(plan, at, Now)
        /\ run # NoRun => plan = "http" /\ Done \in {14, 15} /\ run.thread = 3
        /\ plan = "http" /\ Done \in {14, 15} => run # NoRun
        /\ run = NoRun => Returned = Ended(plan, Done) /\ ~held
    BY <1>1, AtLook
  <1>3. ~Heard' /\ (Passes => Done' = Done + 1)
    BY <1>1, <1>2 DEF Heard, Done, Passes
  <1>4. ASSUME Passes, Lasting(plan, at),
               run = NoRun => plan # "http" \/ at \notin {14, 15},
               run # NoRun => at = 15 /\ Granted
        PROVE  OnCourse'
    <2>1. Done' = Done + 1 /\ Done + 1 = at
      BY <1>2, <1>3, <1>4
    <2>2. QED
      BY <1>1, <1>2, <1>3, <1>4, <2>1, PassesOnCourse
  <1>5. CASE Now.kind = "look" /\ Judged(CountersAgree /\ ~held)
    <2>1. LookFits(plan, at, Now)
      BY <1>2, <1>5 DEF StepFits
    <2>2. plan = "http" /\ Lasting(plan, at) /\ at \notin 14..17
      BY <2>1 DEF LookFits
    <2>3. run = NoRun
      BY <1>2, <2>2
    <2>4. CountersAgree /\ ~held
      BY <1>2, <2>1, <2>2, <2>3, ReturnedCounts DEF OnCourse, Counters, CountersAgree, LookFits
    <2>5. Passes
      BY <1>5, <2>4 DEF Judged
    <2>6. QED
      BY <1>2, <1>4, <2>2, <2>3, <2>5
  <1>6. CASE Now.kind = "poll" /\ CountersAgree /\ Passes
    <2>1. PollFits(plan, at, Now)
      BY <1>2, <1>6 DEF StepFits
    <2>2. plan = "http" /\ Lasting(plan, at) /\ at \in {15, 17}
      BY <2>1 DEF PollFits
    <2>3. CASE at = 15
      <3>1. run # NoRun /\ run.thread = 3
        BY <1>2, <2>2, <2>3
      <3>2. Returned = 2 /\ leases.acquired = 3
        BY <1>6, <2>1, <2>3, <3>1 DEF PollFits, CountersAgree, Returned
      <3>3. Granted
        BY <2>2, <3>1, <3>2 DEF OnCourse, Counters
      <3>4. QED
        BY <1>4, <1>6, <2>2, <2>3, <3>1, <3>3
    <2>4. CASE at = 17
      <3>1. run = NoRun
        BY <1>2, <2>4
      <3>2. QED
        BY <1>4, <1>6, <2>2, <2>4, <3>1
    <2>5. QED
      BY <2>2, <2>3, <2>4
  <1>7. CASE /\ Now.kind = "subjects"
             /\ Judged(leases.subjects = Now.users /\ leases.models = Now.users)
    <2>1. plan = "http" /\ at = 22 /\ Now.users = {A, B}
      BY <1>2, <1>7 DEF StepFits, SubjectsFit
    <2>2. run = NoRun /\ Done = 21
      BY <1>2, <2>1
    <2>3. Returned = 4 /\ Lasting(plan, at)
      BY <1>2, <2>1, <2>2 DEF Ended, Births, Stored, Lasting
    <2>4. /\ leases.subjects \subseteq {A, B} /\ leases.models \subseteq {A, B}
          /\ \A t \in 1..4 : Maker(t) \in leases.subjects
          /\ \A t \in {1, 2} : Maker(t) \in leases.models
      BY <2>1, <2>3 DEF OnCourse, Counters
    <2>5. Maker(1) = A /\ Maker(2) = B
      BY DEF Maker
    <2>6. leases.subjects = Now.users /\ leases.models = Now.users
      BY <2>1, <2>4, <2>5
    <2>7. Passes
      BY <1>7, <2>6 DEF Judged
    <2>8. QED
      BY <1>4, <2>1, <2>2, <2>3, <2>7
  <1>8. CASE /\ Now.kind = "unchanged"
             /\ Judged(threads[Now.thread].owner = Now.owner /\ ~threads[Now.thread].changed)
    <2>1. /\ plan = "smoke" /\ Lasting(plan, at) /\ Now.thread = 1 /\ Now.owner = A
          /\ Births(plan, Done) = 2
      BY <1>2, <1>8 DEF StepFits, UnchangedFits
    <2>2. 1 \in Ids
      BY <2>1, TenantAssumption DEF OnCourse, World, Ids
    <2>3. threads[1] = Fresh(Maker(1))
      BY <2>1, <2>2 DEF OnCourse, World
    <2>4. threads[1].owner = A /\ ~threads[1].changed
      BY <2>3 DEF Fresh, Maker
    <2>5. Passes /\ run = NoRun
      BY <1>2, <1>8, <2>1, <2>4 DEF Judged
    <2>6. QED
      BY <1>4, <2>1, <2>5
  <1>9. CASE Now.kind = "files" /\ Judged(files = Now.owners)
    <2>1. plan = "smoke" /\ Lasting(plan, at) /\ Now.owners = Stored(plan, Done)
      BY <1>2, <1>9 DEF StepFits, FilesFit
    <2>2. Passes /\ run = NoRun
      BY <1>2, <1>9, <2>1 DEF Judged, OnCourse, World
    <2>3. QED
      BY <1>4, <2>1, <2>2
  <1>10. QED
    BY <1>5, <1>6, <1>7, <1>8, <1>9 DEF ScriptLooks

LEMMA PromotesOnCourse ==
  ASSUME VerifierInv, OnCourse, Scripted, ScriptPromotes
  PROVE  OnCourse'
  <1>1. /\ Working /\ Now.kind = "promote" /\ Passes
        /\ UNCHANGED <<pumpVars, runVars, threads, files, plan, leases, call, told>>
    BY DEF ScriptPromotes
  <1>2. StepFits(plan, at, Now) /\ at \in Nat \ {0}
    BY <1>1, NowFits, ReturnedCounts DEF Working, VerifierInv
  <1>3. plan = "smoke" /\ Lasting(plan, at)
    BY <1>1, <1>2 DEF StepFits
  <1>4. call[script] = NoCall
    <2>1. SUFFICES ASSUME call[script] # NoCall PROVE FALSE
      OBVIOUS
    <2>2. Asking /\ call[script].phase \in {"sent", "authorized", "running", "cancelling", "uploading"}
      BY <2>1, VerifierAssumption DEF OnCourse, Talking, VerifierInv, TenantInv, TenantTypeOK, Calls
    <2>3. QED
      BY <1>1, <1>3, <2>2 DEF Asking
  <1>5. ~Heard /\ Done = at - 1 /\ run = NoRun
    BY <1>1, <1>3, <1>4, AtLook
  <1>6. ~Heard' /\ Done' = Done + 1 /\ Done + 1 = at
    BY <1>1, <1>2, <1>5 DEF Heard, Done, Passes
  <1>7. QED
    BY <1>1, <1>3, <1>4, <1>5, <1>6, PassesOnCourse
-----------------------------------------------------------------------------
(* Both scripts are satisfied.                                              *)

LEMMA ScriptInvInit == VerifierInit => ScriptInv
  <1> SUFFICES ASSUME VerifierInit, Scripted PROVE OnCourse
    BY DEF ScriptInv
  <1>1. /\ plan \in {"http", "smoke"} /\ at = 1 /\ verdict = "none"
        /\ leases = [acquired |-> 0, released |-> 0, subjects |-> {}, models |-> {}]
        /\ threads = [t \in Ids |-> Unborn] /\ files = {} /\ run = NoRun /\ acted = {}
        /\ call = [c \in Clients |-> NoCall] /\ told = [c \in Clients |-> Untold]
        /\ cons = "fresh" /\ requests = {} /\ ~due /\ ~held /\ ~again
        /\ answer = "none" /\ result = "none" /\ raising = "none"
    BY DEF VerifierInit, Scripted, RunsInit, PumpInit, TenantInit
  <1>2. script \in Clients /\ call[script] = NoCall /\ ~Heard /\ Done = 0
    BY <1>1, VerifierAssumption DEF Heard, Untold, Done
  <1>3. Births(plan, 0) = 0 /\ Ended(plan, 0) = 0 /\ Stored(plan, 0) = {} /\ Returned = 0
    BY <1>1, <1>2 DEF Births, Ended, Stored, Returned, Phase
  <1>4. Len(Plan(plan)) \in Nat
    BY <1>1, HttpPlan, SmokePlan
  <1>5. Talking
    BY <1>1, <1>2, <1>4 DEF Talking, Alone
  <1>6. World
    <2>1. MaxThreads \in Nat /\ \A t \in Ids : ~(t <= 0) /\ threads[t] = Unborn
      BY <1>1, TenantAssumption DEF Ids
    <2>2. Unborn.owner = Nobody
      BY DEF Unborn
    <2>3. QED
      BY <1>1, <1>2, <1>3, <2>1, <2>2 DEF World
  <1>7. AtWork
    BY <1>1, <1>2 DEF AtWork
  <1>8. Course
    BY <1>1 DEF Course
  <1>9. Counters
    BY <1>1, <1>3 DEF Counters
  <1>10. QED
    BY <1>5, <1>6, <1>7, <1>8, <1>9 DEF OnCourse

LEMMA ScriptInvKept ==
  VerifierInv /\ VerifierInv' /\ ScriptInv /\ [VerifierNext]_verifierVars => ScriptInv'
  <1> SUFFICES ASSUME VerifierInv, VerifierInv', ScriptInv, [VerifierNext]_verifierVars,
                      Scripted', ~late'
               PROVE  OnCourse'
    BY DEF ScriptInv
  <1>1. CASE UNCHANGED verifierVars
    <2>1. UNCHANGED <<pumpVars, runVars, scriptVars, threads, files, call, told, body, late, plan>>
      BY <1>1 DEF verifierVars, graphVars, tenantVars, scriptVars
    <2>2. OnCourse /\ Scripted
      BY <2>1 DEF ScriptInv, Scripted
    <2>3. call[script] # NoCall => Asking'
      BY <2>1, <2>2 DEF OnCourse, Talking, Asking, Now, Heard, scriptVars, runVars
    <2>4. QED
      BY <2>1, <2>2, <2>3, SilentlyKeeps
  <1>2. CASE VerifierNext
    <2>0. plan' = plan
      BY <1>2 DEF VerifierNext, GraphSteps, ServerSteps, ClientSteps, ClientHears, ScriptSends,
         ScriptHears, ScriptLooks, ScriptPromotes, ScriptTimesOut, ScriptGivesUp, DeadlinePasses,
         Pumps, Runs, scriptVars
    <2>1. late => late'
      <3>1. DeadlinePasses \/ late' = late \/ late'
        BY <1>2 DEF VerifierNext, GraphSteps, ServerSteps, ClientSteps, ClientHears, ScriptSends,
           ScriptHears, ScriptLooks, ScriptPromotes, ScriptTimesOut, ScriptGivesUp,
           Pumps, Runs, scriptVars
      <3>2. DeadlinePasses => (late => late')
        BY Zenon DEF DeadlinePasses
      <3>3. QED
        BY <3>1, <3>2
    <2>2. OnCourse /\ Scripted
      BY <2>0, <2>1 DEF ScriptInv, Scripted
    <2>3. ~ClientHears
      BY <2>2 DEF ClientHears, Quiet
    <2>4. ~ClientSteps
      BY <2>2 DEF ClientSteps, Scripted
    <2>5. ~ScriptTimesOut /\ ~ScriptGivesUp
      BY DEF ScriptTimesOut, ScriptGivesUp
    <2>6. QED
      BY <1>2, <2>2, <2>3, <2>4, <2>5, GraphStepsOnCourse, ServerStepsOnCourse, SendsOnCourse,
         HearsOnCourse, LooksOnCourse, PromotesOnCourse DEF VerifierNext
  <1>3. QED
    BY <1>1, <1>2

\* Where a script is, as long as no deadline but the planned one passed: it is
\* told what it waits for, the threads and files are those its steps made, and
\* what the server counted is what its runs came to.
THEOREM ScriptInvariant == VerifierSpec => []ScriptInv
  <1>1. VerifierSpec => []VerifierInv
    BY VerifierInvariant
  <1>2. VerifierInit => ScriptInv
    BY ScriptInvInit
  <1>3. VerifierInv /\ VerifierInv' /\ ScriptInv /\ [VerifierNext]_verifierVars => ScriptInv'
    BY ScriptInvKept
  <1>4. QED
    BY <1>1, <1>2, <1>3, PTL DEF VerifierSpec

\* Only a script says that it failed.
LEMMA OnlyScriptsFail ==
  ASSUME ~Scripted => verdict # "failed", [VerifierNext]_verifierVars
  PROVE  ~Scripted' => verdict' # "failed"
  <1>1. plan' = plan
    BY DEF VerifierNext, GraphSteps, ServerSteps, ClientSteps, ClientHears, ScriptSends,
       ScriptHears, ScriptLooks, ScriptPromotes, ScriptTimesOut, ScriptGivesUp, DeadlinePasses,
       Pumps, Runs, scriptVars, verifierVars
  <1>2. verdict' = verdict \/ Working
    BY DEF VerifierNext, GraphSteps, ServerSteps, ClientSteps, ClientHears, ScriptSends,
       ScriptHears, ScriptLooks, ScriptPromotes, ScriptTimesOut, ScriptGivesUp, DeadlinePasses,
       Pumps, Runs, scriptVars, verifierVars
  <1>3. QED
    BY <1>1, <1>2 DEF Working, Scripted

\* Both scripts say of a server that works what they are for, for any number of
\* chunks, clients, users and threads: neither fails unless something was late.
THEOREM ScriptsKept == VerifierSpec => []ScriptsSatisfied
  <1> DEFINE Quietly == ~Scripted => verdict # "failed"
  <1>1. VerifierInit => Quietly
    BY DEF VerifierInit
  <1>2. Quietly /\ [VerifierNext]_verifierVars => Quietly'
    BY OnlyScriptsFail
  <1>3. ScriptInv /\ Quietly => ScriptsSatisfied
    BY DEF ScriptInv, OnCourse, Talking, ScriptsSatisfied
  <1> HIDE DEF Quietly
  <1>4. QED
    BY <1>1, <1>2, <1>3, ScriptInvariant, PTL DEF VerifierSpec
===============================================================================
