------------------------------ MODULE LlmService ------------------------------
(***************************************************************************)
(* Calls of a language model under a budget: llm/service.py, budget.py,    *)
(* structured.py, the three vendors and the rows they leave in the ledger. *)
(*                                                                         *)
(* A call is authorised against what the ledger holds at that moment, is   *)
(* attempted a few times without a transaction, and writes one row per     *)
(* billed attempt afterwards, each in a transaction of its own.  Prices    *)
(* are units: a full completion is one, a pass of the guardrail is one.    *)
(* The few hundred characters of a repair note are not priced.             *)
(***************************************************************************)
EXTENDS Integers, Sequences, FiniteSets, Functions

CONSTANTS
  LlmCalls,      \* requests that may be in flight together
  LlmBatches,    \* batches that calls may be made for
  NoLlmBatch,    \* the scope of a call that belongs to no batch
  Vendors,       \* subset of {"deepseek", "bedrock", "agentcore"}
  MaxAttempts,   \* LLM_MAX_ATTEMPTS
  Limits         \* the ceilings an administrator may set

ASSUME LlmAssumption ==
  /\ NoLlmBatch \notin LlmBatches
  /\ Vendors \subseteq {"deepseek", "bedrock", "agentcore"}
  /\ MaxAttempts \in Nat \ {0}
  /\ Limits \subseteq [calls : Nat, batchCost : Nat, monthCost : Nat]
ASSUME SomeCallsAssumption == IsFiniteSet(LlmCalls) /\ LlmCalls # {}

VARIABLES
  vendor,        \* the configured provider
  limit,         \* the organization's LLM limits
  spent,         \* model_calls: the cost recorded in this calendar month
  batchSpend,    \* model_calls: rows and cost of every batch
  llmCall,       \* what every request is doing
  peak,          \* history: the largest ceilings there ever were
  payable,       \* history: cost that vendors reported with their answers, but
                 \* for what died with a process or belongs to older months
  lostScreen     \* history: a guardrail pass was paid for and never reported

llmTables == <<limit, spent, batchSpend>>
llmHistory == <<peak, payable, lostScreen>>
llmVars == <<vendor, llmTables, llmCall, llmHistory>>

CompletionPrice == 1
ScreenPrice == 1

NoLlmCall == [at |-> "idle"]
Calling(b, tries, due) ==
  [at |-> "calling", batch |-> b, tries |-> tries, due |-> due]
Ledgering(b, due) == [at |-> "recording", batch |-> b, due |-> due]

\* What one attempt may come to.  rows: the costs of the ledger rows it will
\* get, none if it is not billable; a lost screen was billed all the same.
NoRows == << >>
Failed(lost) == [kind |-> "failed", rows |-> NoRows, lost |-> lost]
Blocked == [kind |-> "blocked", rows |-> <<ScreenPrice>>, lost |-> FALSE]
\* A completion that validates, or does not; its usage block may be missing.
Completions(screen) ==
  {[kind |-> k, rows |-> <<u + screen>>, lost |-> FALSE] :
     k \in {"valid", "invalid"}, u \in {0, CompletionPrice}}

\* HTTP errors, timeouts, and bodies without a readable completion.
DeepSeekOutcomes == Completions(0) \cup {Failed(FALSE)}
\* The customer's own text is screened before the model is called; if the
\* model then fails, the error carries no usage.  Other text is not screened.
BedrockOutcomes ==
  {Failed(FALSE), Blocked, Failed(TRUE)} \cup Completions(ScreenPrice)
    \cup Completions(0)
\* The same behind one more hop; its guardrail reports with the answer.
AgentCoreOutcomes ==
  {Failed(FALSE), Blocked} \cup Completions(ScreenPrice) \cup Completions(0)

Outcomes ==
  CASE vendor = "deepseek" -> DeepSeekOutcomes
    [] vendor = "bedrock" -> BedrockOutcomes
    [] vendor = "agentcore" -> AgentCoreOutcomes

\* _estimate_cost: only Bedrock prices its guardrail, twice to be safe.
GuardrailEstimate == IF vendor = "bedrock" THEN 2 * ScreenPrice ELSE 0
Estimate == (CompletionPrice + GuardrailEstimate) * MaxAttempts

LlmInit ==
  /\ vendor \in Vendors
  /\ limit \in Limits
  /\ spent = 0
  /\ batchSpend = [b \in LlmBatches |-> [calls |-> 0, cost |-> 0]]
  /\ llmCall = [c \in LlmCalls |-> NoLlmCall]
  /\ peak = limit
  /\ payable = 0 /\ lostScreen = FALSE

LlmCallBecomes(c, q) == llmCall' = [llmCall EXCEPT ![c] = q]

\* evaluate_budget: a zero ceiling switches everything off; a batch is
\* checked only for a call that is made for one.
Enabled == limit.calls # 0 /\ limit.batchCost # 0 /\ limit.monthCost # 0

BatchAllows(b) ==
  b # NoLlmBatch =>
    /\ batchSpend[b].calls + 1 <= limit.calls
    /\ batchSpend[b].cost + Estimate <= limit.batchCost

MonthAllows_AfterTheFact == spent <= limit.monthCost
MonthAllows == spent + Estimate <= limit.monthCost

\* generate, up to the first attempt.  A refused call leaves no trace.
Authorize(c, b) ==
  /\ llmCall[c] = NoLlmCall
  /\ Enabled /\ BatchAllows(b) /\ MonthAllows
  /\ LlmCallBecomes(c, Calling(b, 0, NoRows))
  /\ UNCHANGED <<vendor, llmTables, llmHistory>>

Total(costs) == SumFunction(costs)

\* generate_structured: a usable answer ends the call, and so does a block;
\* everything else is repeated with a repair note.
Ends_OneMore(o, tries) == o.kind \in {"valid", "blocked"} \/ tries > MaxAttempts
Ends(o, tries) == o.kind \in {"valid", "blocked"} \/ tries = MaxAttempts

AttemptCall(c, o) ==
  LET q == llmCall[c]
      due == q.due \o o.rows
  IN  /\ q.at = "calling"
      /\ LlmCallBecomes(c,
           IF ~Ends(o, q.tries + 1) THEN Calling(q.batch, q.tries + 1, due)
           ELSE IF due = NoRows THEN NoLlmCall
           ELSE Ledgering(q.batch, due))
      /\ payable' = payable + Total(o.rows)
      /\ lostScreen' = (lostScreen \/ o.lost)
      /\ UNCHANGED <<vendor, llmTables, peak>>

AfterRow_First(q) == NoLlmCall
AfterRow(q) ==
  IF Len(q.due) = 1 THEN NoLlmCall ELSE Ledgering(q.batch, Tail(q.due))

\* _record, record_model_call: one committed row, in the month it is written.
RecordModelCall(c) ==
  LET q == llmCall[c]
      cost == Head(q.due)
  IN  /\ q.at = "recording"
      /\ spent' = spent + cost
      /\ batchSpend' = IF q.batch = NoLlmBatch THEN batchSpend
           ELSE [batchSpend EXCEPT ![q.batch] =
                   [calls |-> @.calls + 1, cost |-> @.cost + cost]]
      /\ LlmCallBecomes(c, AfterRow(q))
      /\ UNCHANGED <<vendor, limit, llmHistory>>

\* The process dies, or the ledger cannot be written.
AbandonCall(c) ==
  /\ llmCall[c] # NoLlmCall
  /\ payable' = payable - Total(llmCall[c].due)
  /\ LlmCallBecomes(c, NoLlmCall)
  /\ UNCHANGED <<vendor, llmTables, peak, lostScreen>>

Larger(a, b) == IF a > b THEN a ELSE b

SetLlmLimits(l) ==
  /\ l # limit
  /\ limit' = l
  /\ peak' = [f \in DOMAIN peak |-> Larger(peak[f], l[f])]
  /\ UNCHANGED <<vendor, spent, batchSpend, llmCall, payable, lostScreen>>

MonthEnds ==
  /\ spent' = 0
  /\ payable' = payable - spent
  /\ UNCHANGED <<vendor, limit, batchSpend, llmCall, peak, lostScreen>>

LlmNext ==
  \/ \E c \in LlmCalls :
       \/ \E b \in LlmBatches \cup {NoLlmBatch} : Authorize(c, b)
       \/ \E o \in Outcomes : AttemptCall(c, o)
       \/ RecordModelCall(c)
       \/ AbandonCall(c)
  \/ \E l \in Limits : SetLlmLimits(l)
  \/ MonthEnds

LlmSpec == LlmInit /\ [][LlmNext]_llmVars

-----------------------------------------------------------------------------
WorstCall == MaxAttempts * (CompletionPrice + ScreenPrice)
InFlightMost == Cardinality(LlmCalls) * WorstCall

Unwritten ==
  SumFunction([c \in LlmCalls |->
    IF llmCall[c] = NoLlmCall THEN 0 ELSE Total(llmCall[c].due)])

\* The ledger, the limits and the calls hold what the code can put there: a
\* call is given up after MaxAttempts, and never owes more rows than it made
\* attempts.
LlmTypeOK ==
  /\ vendor \in Vendors /\ limit \in Limits /\ spent \in Nat
  /\ batchSpend \in [LlmBatches -> [calls : Nat, cost : Nat]]
  /\ \A c \in LlmCalls : llmCall[c] # NoLlmCall =>
       /\ llmCall[c].at \in {"calling", "recording"}
       /\ llmCall[c].batch \in LlmBatches \cup {NoLlmBatch}
       /\ Len(llmCall[c].due) <= MaxAttempts
       /\ llmCall[c].at = "calling" =>
            llmCall[c].tries < MaxAttempts /\ Len(llmCall[c].due) <= llmCall[c].tries

\* budget.py: the check reads the ledger before the calls of the others have
\* been recorded.  A month still ends within its ceiling but for the calls in
\* flight, also when calls admitted in one month are recorded in the next.
MonthBudgetIsSoft ==
  spent <= Larger(0, peak.monthCost - Estimate) + InFlightMost

\* ... and a batch within its two ceilings, although one authorised call may
\* leave a row per attempt.
BatchBudgetIsSoft ==
  \A b \in LlmBatches :
    /\ batchSpend[b].calls <= peak.calls - 1 + Cardinality(LlmCalls) * MaxAttempts
    /\ batchSpend[b].cost <= Larger(0, peak.batchCost - Estimate) + InFlightMost

\* service.py, _record: every cost a vendor reported is in the ledger, once,
\* or owed by a call that is still writing; only a process that dies in
\* between loses some.  A repair that succeeds does not hide the first try.
LedgerIsComplete ==
  spent + Unwritten = payable

\* budget.py 17-23 and service.py 276-279: one caller alone never exceeds the
\* ceiling.  The code does not keep this for AgentCore: see the README.
MonthBudgetIsHard == spent <= peak.monthCost

\* bedrock_provider.py 546-550, structured.py 369-376: guardrail spend that
\* was charged reaches the ledger.  The code does not keep this: see the README.
ScreeningIsLedgered == ~lostScreen
=============================================================================
