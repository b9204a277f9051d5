------------------------------ MODULE RunBudget ------------------------------
(***************************************************************************)
(* The ledger every execution branch of an agent run shares                *)
(* (data_agent/services/agent_budget.py): model requests and tool calls    *)
(* are reserved under its lock before their side effect, the first refusal *)
(* is kept, hold_run_budget() surfaces a refusal that the code in between  *)
(* swallowed, and the ledger tells whether the answer may be cached.       *)
(*                                                                         *)
(* A branch is a task or worker thread of the graph: the parent agent, a   *)
(* subagent, a summarisation.  sent, ran and blemish are what really       *)
(* happened, kept apart from the ledger so that properties can compare.    *)
(***************************************************************************)
EXTENDS Naturals, FiniteSets

CONSTANTS Runs,
          Branches,
          ModelLimit,  \* AGENT_MODEL_CALL_LIMIT
          ToolLimit,   \* AGENT_TOOL_CALL_LIMIT
          MaxTries     \* attempts of one model call: 1 + MODEL_MAX_RETRIES

ASSUME BudgetAssumption ==
    /\ IsFiniteSet(Branches)
    /\ ModelLimit \in Nat \ {0}
    /\ ToolLimit \in Nat \ {0}
    /\ MaxTries \in Nat \ {0}

VARIABLES
    ledger,   \* the RunBudget of a run
    body,     \* where the with-statement of hold_run_budget() is
    outcome,  \* how its body was left
    branch,   \* where each branch is
    tries,    \* attempts of the model call a branch is in
    sent,     \* model requests that went on the wire
    ran,      \* tools whose handler was entered
    blemish   \* what happened that an answer from the cache must not hide

budgetVars == <<ledger, body, outcome, branch, tries, sent, ran, blemish>>

Ledger == [model: Nat, tool: Nat, failure: {"none", "model", "tool"},
           observed: BOOLEAN, safe: BOOLEAN, completed: BOOLEAN]
NewLedger == [model |-> 0, tool |-> 0, failure |-> "none",
              observed |-> FALSE, safe |-> TRUE, completed |-> FALSE]

\* request: about to reserve an attempt    reserved: reserved, not yet sent
\* wire: the request was sent              failed: the attempt failed
\* admitted: tool reserved, not entered    tool: the tool runs
\* raised: an exception is in flight
Place == {"idle", "request", "reserved", "wire", "failed", "admitted", "tool",
          "raised"}
Blemishes == {"interrupt", "incomplete", "model failed", "tool", "refused"}

BudgetTypeOK ==
    /\ ledger \in [Runs -> Ledger]
    /\ body \in [Runs -> {"off", "running", "leaving", "over"}]
    /\ outcome \in [Runs -> {"none", "success", "error", "refused", "cancelled"}]
    /\ branch \in [Runs -> [Branches -> Place]]
    /\ tries \in [Runs -> [Branches -> 0..MaxTries]]
    /\ sent \in [Runs -> Nat]
    /\ ran \in [Runs -> Nat]
    /\ blemish \in [Runs -> SUBSET Blemishes]

BudgetInit ==
    /\ ledger = [r \in Runs |-> NewLedger]
    /\ body = [r \in Runs |-> "off"]
    /\ outcome = [r \in Runs |-> "none"]
    /\ branch = [r \in Runs |-> [b \in Branches |-> "idle"]]
    /\ tries = [r \in Runs |-> [b \in Branches |-> 0]]
    /\ sent = [r \in Runs |-> 0]
    /\ ran = [r \in Runs |-> 0]
    /\ blemish = [r \in Runs |-> {}]

Refused(r) == ledger[r].failure # "none"
Moves(r, b, place) == branch' = [branch EXCEPT ![r][b] = place]
Marks(r, what) == blemish' = [blemish EXCEPT ![r] = @ \cup {what}]

AllowsAnswerCache(r) ==
    /\ ledger[r].completed
    /\ ledger[r].observed
    /\ ledger[r].safe
    /\ ~Refused(r)
    /\ ledger[r].tool = 0
-----------------------------------------------------------------------------
(* reserve(kind), one critical section of the ledger's lock.                *)

Grants(r, kind, limit) == ~Refused(r) /\ ledger[r][kind] < limit

ReserveGranted(r, kind, limit) ==
    /\ Grants(r, kind, limit)
    /\ ledger' = [ledger EXCEPT ![r][kind] = @ + 1]

ReserveRefused(r, kind, limit) ==
    /\ ~Grants(r, kind, limit)
    /\ ledger' = [ledger EXCEPT ![r].failure = IF Refused(r) THEN @ ELSE kind]
    /\ Marks(r, "refused")
-----------------------------------------------------------------------------
(* One model call of a branch, retried by the SDK.                          *)

CallModel(r, b) ==
    /\ body[r] = "running"
    /\ branch[r][b] = "idle"
    /\ Moves(r, b, "request")
    /\ tries' = [tries EXCEPT ![r][b] = 1]
    /\ UNCHANGED <<ledger, body, outcome, sent, ran, blemish>>

\* Mutation: a call is charged once, not every attempt of it.
ReserveOncePerCall(r, b) ==
    /\ branch[r][b] = "request"
    /\ IF tries[r][b] = 1
       THEN ReserveGranted(r, "model", ModelLimit)
       ELSE UNCHANGED ledger
    /\ Moves(r, b, "reserved")
    /\ UNCHANGED <<body, outcome, tries, sent, ran, blemish>>

\* The request hook of the HTTP client, before every attempt.
ReserveAttempt(r, b) ==
    /\ branch[r][b] = "request"
    /\ ReserveGranted(r, "model", ModelLimit)
    /\ Moves(r, b, "reserved")
    /\ UNCHANGED <<body, outcome, tries, sent, ran, blemish>>

\* The SDK takes the hook's refusal for a failed attempt.
RefuseAttempt(r, b) ==
    /\ branch[r][b] = "request"
    /\ ReserveRefused(r, "model", ModelLimit)
    /\ Moves(r, b, "failed")
    /\ UNCHANGED <<body, outcome, tries, sent, ran>>

Transmit(r, b) ==
    /\ branch[r][b] = "reserved"
    /\ sent' = [sent EXCEPT ![r] = @ + 1]
    /\ Moves(r, b, "wire")
    /\ UNCHANGED <<ledger, body, outcome, tries, ran, blemish>>

\* The attempt fails before or after it was sent; it stays charged.
AttemptFails(r, b) ==
    /\ branch[r][b] \in {"reserved", "wire"}
    /\ Moves(r, b, "failed")
    /\ UNCHANGED <<ledger, body, outcome, tries, sent, ran, blemish>>

Retry(r, b) ==
    /\ branch[r][b] = "failed"
    /\ tries[r][b] < MaxTries
    /\ tries' = [tries EXCEPT ![r][b] = @ + 1]
    /\ Moves(r, b, "request")
    /\ UNCHANGED <<ledger, body, outcome, sent, ran, blemish>>

\* Mutation: a call that fails does not take the right to cache away.
GiveUpKeepsCache(r, b) ==
    /\ branch[r][b] = "failed"
    /\ tries' = [tries EXCEPT ![r][b] = 0]
    /\ Moves(r, b, "raised")
    /\ Marks(r, "model failed")
    /\ UNCHANGED <<ledger, body, outcome, sent, ran>>

\* No attempt is left, the error is not one the SDK retries, or the branch is
\* cancelled: the call raises, which gives up the cache.
GiveUp(r, b) ==
    /\ branch[r][b] = "failed"
    /\ tries' = [tries EXCEPT ![r][b] = 0]
    /\ Moves(r, b, "raised")
    /\ ledger' = [ledger EXCEPT ![r].safe = FALSE]
    /\ Marks(r, "model failed")
    /\ UNCHANGED <<body, outcome, sent, ran>>

\* observe_model_result(): complete when every message stopped by itself and
\* asks for no tool.
ModelAnswers(r, b, complete) ==
    /\ branch[r][b] = "wire"
    /\ ledger' = [ledger EXCEPT ![r].observed = TRUE, ![r].safe = @ /\ complete]
    /\ IF complete THEN UNCHANGED blemish ELSE Marks(r, "incomplete")
    /\ tries' = [tries EXCEPT ![r][b] = 0]
    /\ Moves(r, b, "idle")
    /\ UNCHANGED <<body, outcome, sent, ran>>
-----------------------------------------------------------------------------
(* One tool call of a branch.                                               *)

ReserveTool(r, b) ==
    /\ body[r] = "running"
    /\ branch[r][b] = "idle"
    /\ ReserveGranted(r, "tool", ToolLimit)
    /\ Moves(r, b, "admitted")
    /\ UNCHANGED <<body, outcome, tries, sent, ran, blemish>>

RefuseTool(r, b) ==
    /\ body[r] = "running"
    /\ branch[r][b] = "idle"
    /\ ReserveRefused(r, "tool", ToolLimit)
    /\ Moves(r, b, "raised")
    /\ UNCHANGED <<body, outcome, tries, sent, ran>>

EnterTool(r, b) ==
    /\ branch[r][b] = "admitted"
    /\ ran' = [ran EXCEPT ![r] = @ + 1]
    /\ Marks(r, "tool")
    /\ Moves(r, b, "tool")
    /\ UNCHANGED <<ledger, body, outcome, tries, sent>>

LeaveTool(r, b) ==
    /\ branch[r][b] = "tool"
    /\ \E place \in {"idle", "raised"} : Moves(r, b, place)
    /\ UNCHANGED <<ledger, body, outcome, tries, sent, ran, blemish>>

\* A fallback or an error message to the model takes the exception's place.
Swallow(r, b) ==
    /\ branch[r][b] = "raised"
    /\ Moves(r, b, "idle")
    /\ UNCHANGED <<ledger, body, outcome, tries, sent, ran, blemish>>
-----------------------------------------------------------------------------
(* hold_run_budget() around the graph.                                      *)

\* interrupts: the caller asked the graph to stop before or after a node,
\* which gives up the cache at once.
Open(r, interrupts) ==
    /\ body[r] = "off"
    /\ body' = [body EXCEPT ![r] = "running"]
    /\ ledger' = [ledger EXCEPT ![r] = [NewLedger EXCEPT !.safe = ~interrupts]]
    /\ IF interrupts THEN Marks(r, "interrupt") ELSE UNCHANGED blemish
    /\ UNCHANGED <<outcome, branch, tries, sent, ran>>

Leaves(r, how) ==
    /\ body' = [body EXCEPT ![r] = "leaving"]
    /\ outcome' = [outcome EXCEPT ![r] = how]
    /\ UNCHANGED <<ledger, branch, tries, sent, ran, blemish>>

\* Mutation: the ledger is not asked again when the graph returns.
ReturnUnchecked(r) ==
    /\ body[r] = "running"
    /\ \A b \in Branches : branch[r][b] = "idle"
    /\ Leaves(r, "success")

\* The graph returns: none of its branches is still at work.
Return(r) ==
    /\ body[r] = "running"
    /\ \A b \in Branches : branch[r][b] = "idle"
    /\ Leaves(r, IF Refused(r) THEN "refused" ELSE "success")

\* An exception leaves the graph; siblings may be abandoned at work.
Escape(r) ==
    /\ body[r] = "running"
    /\ \E b \in Branches : branch[r][b] = "raised"
    /\ Leaves(r, IF Refused(r) THEN "refused" ELSE "error")

\* The stream's own check between two chunks finds a refusal.
Checkpoint(r) ==
    /\ body[r] = "running"
    /\ Refused(r)
    /\ Leaves(r, "refused")

\* Cancellation or generator close, not an Exception: the ledger is not asked.
Cancel(r) ==
    /\ body[r] = "running"
    /\ Leaves(r, "cancelled")

\* _finish() in the finally clause
FinishBudget(r) ==
    /\ body[r] = "leaving"
    /\ body' = [body EXCEPT ![r] = "over"]
    /\ ledger' = [ledger EXCEPT ![r].completed = (outcome[r] = "success")]
    /\ UNCHANGED <<outcome, branch, tries, sent, ran, blemish>>
-----------------------------------------------------------------------------
BranchStep(r, b) ==
    \/ CallModel(r, b) \/ ReserveAttempt(r, b) \/ RefuseAttempt(r, b)
    \/ Transmit(r, b) \/ AttemptFails(r, b) \/ Retry(r, b) \/ GiveUp(r, b)
    \/ \E complete \in BOOLEAN : ModelAnswers(r, b, complete)
    \/ ReserveTool(r, b) \/ RefuseTool(r, b) \/ EnterTool(r, b)
    \/ LeaveTool(r, b) \/ Swallow(r, b)

BodyStep(r) ==
    \/ Return(r) \/ Escape(r) \/ Checkpoint(r) \/ Cancel(r)
    \/ FinishBudget(r)

BudgetNext ==
    \E r \in Runs :
        \/ \E interrupts \in BOOLEAN : Open(r, interrupts)
        \/ \E b \in Branches : BranchStep(r, b)
        \/ BodyStep(r)

BudgetSpec == BudgetInit /\ [][BudgetNext]_budgetVars
-----------------------------------------------------------------------------
(* Properties.                                                              *)

\* Safety.  Whatever the branches do in parallel, retry or abandon, a run
\* puts no more model requests on the wire and enters no more tools than
\* its limits (README: 8 model and 12 tool calls shared by the whole run).
WithinBudget ==
    \A r \in Runs : sent[r] <= ModelLimit /\ ran[r] <= ToolLimit

\* Action property.  A refusal of either kind is final for both: from then
\* on nothing is reserved, whoever swallowed the exception.
RefusalIsFinal ==
    [][\A r \in Runs : Refused(r) =>
           /\ ledger'[r].failure = ledger[r].failure
           /\ ledger'[r].model = ledger[r].model
           /\ ledger'[r].tool = ledger[r].tool]_budgetVars

\* Safety.  A run is reported as a success only if nothing was refused in
\* it, even when the graph swallowed the refusal and returned normally.
NoHiddenRefusal ==
    \A r \in Runs : outcome[r] = "success" => "refused" \notin blemish[r]

\* Safety.  The ledger admits an answer to the cache only if the run ended
\* well and no interrupt, truncated or failed model call, tool or refusal
\* was part of it.
CacheEvidence ==
    \A r \in Runs : AllowsAnswerCache(r) =>
        outcome[r] = "success" /\ blemish[r] = {}
-----------------------------------------------------------------------------
(* What the properties rest on, inductive as a whole.                       *)

At(r, place) == {b \in Branches : branch[r][b] = place}
AllIdle(r) == \A b \in Branches : branch[r][b] = "idle"

\* Whatever was sent or entered was reserved before, and a reservation that
\* is not used yet is still there for its branch.
Accounted(r) ==
    /\ sent[r] + Cardinality(At(r, "reserved")) <= ledger[r].model
    /\ ledger[r].model <= ModelLimit
    /\ ran[r] + Cardinality(At(r, "admitted")) <= ledger[r].tool
    /\ ledger[r].tool <= ToolLimit

Settled(r) ==
    /\ body[r] = "off" =>
           AllIdle(r) /\ ledger[r] = NewLedger /\ sent[r] = 0 /\ ran[r] = 0
                      /\ blemish[r] = {}
    /\ outcome[r] # "none" => body[r] \in {"leaving", "over"}
    /\ outcome[r] = "success" => AllIdle(r) /\ ~Refused(r)
    /\ ledger[r].completed => outcome[r] = "success"

Evident(r) ==
    /\ "refused" \in blemish[r] => Refused(r)
    /\ \A b \in {"interrupt", "incomplete", "model failed"} :
           b \in blemish[r] => ~ledger[r].safe
    /\ "tool" \in blemish[r] => ran[r] > 0

\* Safety.  At every moment the ledger covers what its branches have sent,
\* entered or may still send, knows how the run ended and remembers every
\* event that forbids caching.
LedgerInv == \A r \in Runs : Accounted(r) /\ Settled(r) /\ Evident(r)
=============================================================================
