------------------------------ MODULE StreamPump ------------------------------
(***************************************************************************)
(* ResourceBoundedAgentGraph.astream (data_agent/services/agent_service.py)*)
(* runs the graph in a task of its own, the producer, and hands its chunks *)
(* through an asyncio.Queue of one place to the async generator the caller *)
(* iterates, the consumer.  The producer owns the deadline and the lease.  *)
(*                                                                         *)
(* Code between two awaits is one step of the event loop.  Acquiring and   *)
(* releasing the lease does not await; a cancellation is thrown at the     *)
(* await the task is suspended in, when the task runs next.                *)
(***************************************************************************)
EXTENDS Naturals, Sequences

CONSTANT MaxChunks   \* bound: chunks the graph yields

ASSUME PumpAssumption == MaxChunks \in Nat

VARIABLES
    prod,       \* the await the producer is suspended in
    due,        \* a CancelledError is thrown at the producer's next step
    requests,   \* who asked for that: the deadline, the consumer
    raising,    \* the exception in flight while the graph is closed
    result,     \* how the producer task ended
    held,       \* the producer's lease
    queue,      \* the asyncio.Queue
    produced,   \* chunks the graph yielded
    accepted,   \* chunks put into the queue
    cons,       \* where the generator is
    again,      \* the caller cancelled once more during the cleanup
    answer,     \* why the generator is left, at last what its caller sees
    delivered   \* chunks yielded to the caller

task == <<prod, due, requests, raising, result, held>>
generator == <<cons, again, answer, delivered>>
pumpVars == <<task, queue, produced, accepted, generator>>

Finished == 0   \* the sentinel; chunks are numbered from 1

\* waiting: polling for a lease        source: in the graph's next step
\* putting: the queue is full          closing: closing the graph's generator
Place == {"none", "waiting", "source", "putting", "closing", "done"}

PumpTypeOK ==
    /\ prod \in Place
    /\ due \in BOOLEAN
    /\ requests \in SUBSET {"deadline", "consumer"}
    /\ raising \in {"none", "error", "cancelled"}
    /\ result \in {"none", "ok", "error", "timeout", "cancelled"}
    /\ held \in BOOLEAN
    /\ queue \in Seq(Nat) /\ Len(queue) <= 1
    /\ produced \in Nat /\ accepted \in Nat
    /\ cons \in {"fresh", "getting", "out", "cleaning", "over"}
    /\ again \in BOOLEAN
    /\ answer \in {"none", "ok", "error", "timeout", "cancelled", "closed"}
    /\ delivered \in Seq(Nat)

PumpInit ==
    /\ prod = "none" /\ due = FALSE /\ requests = {} /\ raising = "none"
    /\ result = "none" /\ held = FALSE
    /\ queue = <<>> /\ produced = 0 /\ accepted = 0
    /\ cons = "fresh" /\ again = FALSE /\ answer = "none" /\ delivered = <<>>
-----------------------------------------------------------------------------
(* The producer.                                                            *)

\* What asyncio.timeout makes of a CancelledError: the deadline's own becomes
\* a TimeoutError, unless the consumer cancelled as well.
Verdict == IF "consumer" \in requests THEN "cancelled" ELSE "timeout"

\* Mutation: the sentinel is forgotten.
EndsSilently(how) ==
    /\ prod' = "done"
    /\ result' = how
    /\ held' = FALSE
    /\ due' = FALSE
    /\ UNCHANGED <<requests, raising, queue>>

\* Mutation: the sentinel waits for room in the queue.
EndsWithRoom(how) ==
    /\ queue = <<>>
    /\ prod' = "done"
    /\ result' = how
    /\ held' = FALSE
    /\ queue' = <<Finished>>
    /\ due' = FALSE
    /\ UNCHANGED <<requests, raising>>

\* From the last await to the end: the lease is released, the sentinel is put
\* if nobody has to be shown a chunk first, and the task is done.
Ends(how) ==
    /\ prod' = "done"
    /\ result' = how
    /\ held' = FALSE
    /\ queue' = IF queue = <<>> THEN <<Finished>> ELSE queue
    /\ due' = FALSE
    /\ UNCHANGED <<requests, raising>>

At(place) == prod = place /\ ~due

LeaseGranted ==
    /\ At("waiting")
    /\ prod' = "source"
    /\ held' = TRUE
    /\ UNCHANGED <<due, requests, raising, result, queue, produced, accepted,
                   generator>>

\* AgentBusyError, AgentProtectionUnavailableError
LeaseRefused ==
    /\ At("waiting")
    /\ Ends("error")
    /\ UNCHANGED <<produced, accepted, generator>>

\* A chunk: it goes into the queue at once or put() waits for room.
Chunk ==
    /\ At("source")
    /\ produced < MaxChunks
    /\ produced' = produced + 1
    /\ \/ /\ queue = <<>>
          /\ queue' = Append(queue, produced')
          /\ accepted' = produced'
          /\ UNCHANGED prod
       \/ /\ queue # <<>>
          /\ prod' = "putting"
          /\ UNCHANGED <<queue, accepted>>
    /\ UNCHANGED <<due, requests, raising, result, held, generator>>

\* budget.check() raises on a chunk; the graph is closed first.
ChunkRefused ==
    /\ At("source")
    /\ produced < MaxChunks
    /\ produced' = produced + 1
    /\ prod' = "closing"
    /\ raising' = "error"
    /\ UNCHANGED <<due, requests, result, held, queue, accepted, generator>>

Put ==
    /\ At("putting")
    /\ queue = <<>>
    /\ queue' = Append(queue, produced)
    /\ accepted' = produced
    /\ prod' = "source"
    /\ UNCHANGED <<due, requests, raising, result, held, produced, generator>>

\* The graph has no more chunks: its generator is over, nothing is awaited.
Exhausted ==
    /\ At("source")
    /\ Ends("ok")
    /\ UNCHANGED <<produced, accepted, generator>>

SourceFails ==
    /\ At("source")
    /\ Ends("error")
    /\ UNCHANGED <<produced, accepted, generator>>

\* asyncio.timeout cancels its task when the run's 60 seconds are over.
Deadline ==
    /\ prod \in {"waiting", "source", "putting", "closing"}
    /\ "deadline" \notin requests
    /\ requests' = requests \cup {"deadline"}
    /\ due' = TRUE
    /\ UNCHANGED <<prod, raising, result, held, queue, produced, accepted,
                   generator>>

\* The CancelledError arrives.  Without a lease nothing is left to do; else
\* the graph unwinds, which may await; a chunk put() still held is dropped.
Interrupted ==
    /\ due
    /\ \/ /\ prod = "waiting"
          /\ Ends(Verdict)
       \/ /\ prod \in {"source", "putting", "closing"}
          /\ prod' = "closing"
          /\ raising' = "cancelled"
          /\ due' = FALSE
          /\ UNCHANGED <<requests, result, held, queue>>
    /\ UNCHANGED <<produced, accepted, generator>>

\* The graph is closed; closing it may raise an error of its own.
Closed ==
    /\ At("closing")
    /\ \E how \in {IF raising = "cancelled" THEN Verdict ELSE "error", "error"} :
           Ends(how)
    /\ UNCHANGED <<produced, accepted, generator>>
-----------------------------------------------------------------------------
(* The consumer.                                                            *)

Start ==
    /\ cons = "fresh"
    /\ cons' = "getting"
    /\ prod' = "waiting"
    /\ UNCHANGED <<due, requests, raising, result, held, queue, produced,
                   accepted, again, answer, delivered>>

\* The finally clause up to its await: a producer at work is cancelled.
Leave(why) ==
    /\ cons' = "cleaning"
    /\ answer' = why
    /\ IF prod = "done"
       THEN UNCHANGED <<due, requests>>
       ELSE due' = TRUE /\ requests' = requests \cup {"consumer"}
    /\ UNCHANGED <<prod, raising, result, held, produced, accepted, again>>

\* Mutation: a producer that is done ends the loop, whatever the queue holds.
ResumeOnDone ==
    /\ cons = "out"
    /\ IF prod = "done"
       THEN Leave(result)
       ELSE cons' = "getting"
            /\ UNCHANGED <<task, produced, accepted, again, answer>>
    /\ UNCHANGED <<queue, delivered>>

\* The caller asks for the next chunk: the loop's test, then queue.get().
Resume ==
    /\ cons = "out"
    /\ IF prod = "done" /\ queue = <<>>
       THEN Leave(result)
       ELSE cons' = "getting"
            /\ UNCHANGED <<task, produced, accepted, again, answer>>
    /\ UNCHANGED <<queue, delivered>>

GetChunk ==
    /\ cons = "getting"
    /\ queue # <<>> /\ Head(queue) # Finished
    /\ queue' = Tail(queue)
    /\ delivered' = Append(delivered, Head(queue))
    /\ cons' = "out"
    /\ UNCHANGED <<task, produced, accepted, again, answer>>

\* The sentinel: the producer is awaited and its exception raised.
GetFinished ==
    /\ cons = "getting"
    /\ queue # <<>> /\ Head(queue) = Finished
    /\ queue' = Tail(queue)
    /\ Leave(result)
    /\ UNCHANGED delivered

\* The task that iterates is cancelled while the generator awaits.
CallerCancels ==
    /\ cons = "getting"
    /\ Leave("cancelled")
    /\ UNCHANGED <<queue, delivered>>

\* Mutation: a cancellation during the cleanup ends the cleanup.
CleanupCancelled ==
    /\ cons = "cleaning"
    /\ again' = TRUE
    /\ cons' = "over"
    /\ answer' = "cancelled"
    /\ UNCHANGED <<task, queue, produced, accepted, delivered>>

\* ... and again, any number of times: the shielded cleanup goes on.
CallerCancelsAgain ==
    /\ cons = "cleaning"
    /\ again' = TRUE
    /\ UNCHANGED <<task, queue, produced, accepted, cons, answer, delivered>>

CallerCloses ==
    /\ cons = "out"
    /\ Leave("closed")
    /\ UNCHANGED <<queue, delivered>>

\* A generator that was never started has nothing to clean up.
CallerClosesUnstarted ==
    /\ cons = "fresh"
    /\ cons' = "over"
    /\ answer' = "closed"
    /\ UNCHANGED <<task, queue, produced, accepted, again, delivered>>

\* Mutation: the producer's exception is not looked at.
CleanedQuietly ==
    /\ cons = "cleaning"
    /\ prod = "done"
    /\ cons' = "over"
    /\ answer' = IF again THEN "cancelled" ELSE answer
    /\ UNCHANGED <<task, queue, produced, accepted, again, delivered>>

\* The last cancellation goes first, then the producer's exception, then what
\* the generator was left with.
Cleaned ==
    /\ cons = "cleaning"
    /\ prod = "done"
    /\ cons' = "over"
    /\ answer' = IF again THEN "cancelled"
                 ELSE IF result # "cancelled" /\ result # "ok" THEN result
                 ELSE answer
    /\ UNCHANGED <<task, queue, produced, accepted, again, delivered>>
-----------------------------------------------------------------------------
Producer ==
    \/ LeaseGranted \/ LeaseRefused \/ Chunk \/ ChunkRefused \/ Put \/ Exhausted
    \/ SourceFails \/ Deadline \/ Interrupted \/ Closed

Consumer ==
    \/ Start \/ Resume \/ GetChunk \/ GetFinished \/ CallerCancels
    \/ CallerCancelsAgain \/ CallerCloses \/ CallerClosesUnstarted \/ Cleaned

PumpNext == Producer \/ Consumer

\* The event loop runs what is ready and the clock passes the deadline; the
\* graph's own cleanup ends.  Neither the graph nor the caller need ever move.
Fairness ==
    /\ WF_pumpVars(Deadline) /\ WF_pumpVars(Interrupted)
    /\ WF_pumpVars(Closed) /\ WF_pumpVars(Put)
    /\ WF_pumpVars(GetChunk) /\ WF_pumpVars(GetFinished)
    /\ WF_pumpVars(Cleaned)

PumpSpec == PumpInit /\ [][PumpNext]_pumpVars /\ Fairness
-----------------------------------------------------------------------------
(* Properties.                                                              *)

\* Safety.  When the generator is over, its producer is done and its lease
\* released, however often the caller cancelled the cleanup (the comment at
\* agent_service.py:366).
CleanEnd == cons = "over" => prod \in {"none", "done"} /\ ~held

\* Safety.  The sentinel is only seen of a producer that is done: `await
\* producer' never suspends, so a cancellation cannot reach the producer by it.
SentinelIsLast ==
    \A i \in 1..Len(queue) : queue[i] = Finished => prod = "done" /\ i = Len(queue)

\* Safety.  The caller sees the accepted chunks in order, none twice, and when
\* the stream ends or fails by itself it has seen all of them first.
AllDelivered ==
    /\ \A i \in 1..Len(delivered) : delivered[i] = i
    /\ cons = "cleaning" /\ answer \in {"ok", "error", "timeout"} =>
           Len(delivered) = accepted
    /\ cons = "over" /\ answer = "ok" => Len(delivered) = produced

\* Safety.  A stream that failed never looks complete: unless the caller's
\* last cancellation takes precedence, the producer's error reaches it.
ErrorSurfaces ==
    cons = "over" =>
        /\ answer \in {"ok", "closed"} => result \in {"none", "ok", "cancelled"}
        /\ answer = "ok" => result = "ok"

\* Safety.  What a caller sees of a stream is the stream: every chunk once and
\* in order, and an end only if it came to one.
StreamFaithful == AllDelivered /\ ErrorSurfaces

\* Liveness.  A producer ends, and with it its lease, even if the caller stops
\* iterating with the queue full and never comes back.
ProducerEnds == prod = "waiting" ~> prod = "done" /\ ~held

\* Liveness.  A caller that waits for the next chunk gets one or an end.
CallerAnswered == cons = "getting" ~> cons \in {"out", "over"}

\* Liveness.  Neither side of a stream waits for ever, whatever the other does.
BothEnd == ProducerEnds /\ CallerAnswered
-----------------------------------------------------------------------------
(* What the safety properties rest on, inductive as a whole.                *)

QueueEmptyOfChunks == queue = <<>> \/ queue = <<Finished>>

\* Where the two sides can be, seen together.
Together ==
    /\ cons = "fresh" => prod = "none"
    /\ prod = "none" => cons \in {"fresh", "over"} /\ queue = <<>>
    /\ prod = "done" <=> result # "none"
    /\ due => prod \notin {"none", "done"}
    /\ held => prod \in {"source", "putting", "closing"}
    /\ cons = "over" => prod \in {"none", "done"}
    /\ "consumer" \in requests => cons \in {"cleaning", "over"}
    /\ result = "cancelled" => "consumer" \in requests
    /\ cons = "getting" /\ prod = "done" => queue # <<>>

\* Every accepted chunk is delivered or in the queue.
Counted ==
    /\ \A i \in 1..Len(delivered) : delivered[i] = i
    /\ IF QueueEmptyOfChunks
       THEN Len(delivered) = accepted
       ELSE queue = <<accepted>> /\ accepted = Len(delivered) + 1
    /\ queue = <<Finished>> => prod = "done"
    /\ prod \in {"none", "waiting", "source"} \/ result = "ok" => accepted = produced
    /\ prod = "putting" => produced = accepted + 1

\* What the generator is left with is what the producer ended with, or what
\* its caller did.
Reported ==
    /\ cons \in {"fresh", "getting", "out"} => answer = "none"
    /\ cons = "cleaning" =>
           \/ answer \in {"cancelled", "closed"}
           \/ prod = "done" /\ answer = result /\ QueueEmptyOfChunks
    /\ cons = "over" =>
           /\ answer = "ok" => result = "ok" /\ QueueEmptyOfChunks
           /\ answer = "closed" => result \in {"none", "ok", "cancelled"}

\* Safety.  Producer, queue and consumer agree at every step: a consumer never
\* waits for a producer that is done and left nothing in the queue.
PumpInv == Together /\ Counted /\ Reported
=============================================================================
