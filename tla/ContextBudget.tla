---------------------------- MODULE ContextBudget ----------------------------
(***************************************************************************)
(* How a request is kept inside the window of its model: the plugin        *)
(* estimates what the host is about to send (lib/token-utils.ts,           *)
(* enforce-budget.ts), shortens the largest tool outputs when the context  *)
(* is full (truncate-tools.ts), and shortens, then clears, outputs until   *)
(* the estimate fits (enforce-budget.ts).                                  *)
(*                                                                         *)
(* Both work on the copy of the history that one request sends: the        *)
(* history of the host keeps every output whole.  Tokens are counted in    *)
(* units of some hundreds; an output is shortened to its first and last    *)
(* 2000 characters, ShortTokens, or replaced by a placeholder of none.     *)
(***************************************************************************)
EXTENDS Integers, FiniteSets, Sequences

CONSTANTS
  MaxMessages,     \* bound on the messages of the history
  Windows,         \* the windows a model may report, 0 when it reports none
  Fallback,        \* compress.contextLimitFallback, 0 when it is not set
  CompletionReserve, \* compress.completionReserveTokens
  OutputReserve,   \* OUTPUT_RESERVE_TOKENS
  SystemTokens,    \* what the system prompt and the tool schemas take
  OutputSizes,     \* the sizes a tool output may have
  LongOutput,      \* KEEP_PREFIX_CHARS + KEEP_SUFFIX_CHARS
  ShortTokens,     \* an output that was shortened to them, with the marker
  MinOutput,       \* MIN_OUTPUT_TOKENS
  MinClear,        \* MIN_CLEAR_TOKENS
  Recent           \* PROTECT_RECENT_MESSAGES

ASSUME BudgetAssumption ==
  /\ {MaxMessages, Fallback, CompletionReserve, OutputReserve, SystemTokens} \subseteq Nat
  /\ {LongOutput, ShortTokens, MinOutput, MinClear, Recent} \subseteq Nat
  /\ Windows \subseteq Nat /\ OutputSizes \subseteq Nat \ {0}

VARIABLES
  history,  \* the messages the host lists
  window,   \* state.modelContextLimit, 0 for undefined
  system    \* state.systemPromptTokens, 0 for undefined

budgetVars == <<history, window, system>>

\* "spared": compress.protectedTools, and compress itself.
Tools == {"any", "spared"}

\* usage: the tokens the host reports of an assistant message, 0 for none;
\* old: it is older than the last compaction; cut: what the request it answers
\* had less than the whole history, in tokens (a history variable).
Said(role, text) ==
  [role |-> role, text |-> text, tool |-> "any", out |-> 0, whole |-> TRUE,
   usage |-> 0, old |-> FALSE, cut |-> 0]

BudgetInit ==
  /\ history = <<>>
  /\ window \in Windows
  /\ system = 0

Places(v) == DOMAIN v

Tokens(m) == m.text + m.out

\* The tokens of the messages of v in S.
Sum(v, S) ==
  LET sum[n \in 0 .. Len(v)] ==
        IF n = 0 THEN 0 ELSE sum[n - 1] + IF n \in S THEN Tokens(v[n]) ELSE 0
  IN sum[Len(v)]

\* What the backend counts.
Wire(v) == SystemTokens + Sum(v, Places(v))

-----------------------------------------------------------------------------
(* getCurrentTokenUsage and estimateWireTokens.                            *)

\* cacheSystemPromptTokens: once positive, it is never computed again.
Cached(v) ==
  LET reports == {i \in Places(v) : v[i].usage > 0}
      users == {i \in Places(v) : v[i].role = "user"}
      First(S) == CHOOSE i \in S : \A k \in S : i <= k
      text == IF users = {} THEN 0 ELSE v[First(users)].text
  IN IF system > 0 \/ reports = {} THEN system
     ELSE LET prompt == v[First(reports)].usage - v[First(reports)].text
          IN IF prompt > text THEN prompt - text ELSE 0

Newest(S) == IF S = {} THEN 0 ELSE CHOOSE i \in S : \A k \in S : k <= i

\* The last assistant message with a report, 0 when there is none.
LastReport(v) == Newest({i \in Places(v) : v[i].usage > 0})

CurrentTokens(v) ==
  IF LastReport(v) = 0 THEN Sum(v, Places(v))
  ELSE IF v[LastReport(v)].old THEN 0
  ELSE v[LastReport(v)].usage

\* A fault of CountedFrom: additions are counted from the last assistant
\* message on, also where it has no report.
CountedFromRole(v) == Newest({i \in Places(v) : v[i].role = "assistant"})

CountedFrom(v) == LastReport(v)

Estimate(v) ==
  IF CurrentTokens(v) > 0 /\ LastReport(v) > 0
  THEN CurrentTokens(v) + Sum(v, {i \in Places(v) : i > CountedFrom(v)})
  ELSE Sum(v, Places(v)) + Cached(v)

-----------------------------------------------------------------------------
(* Shortening.                                                             *)

\* One pass over outputs in an order: as long as need exceeds limit, an output
\* of more than floor tokens becomes one of size tokens.
Pass(start, order, limit, size, floor) ==
  LET after[n \in 0 .. Len(order)] ==
        IF n = 0 THEN start
        ELSE LET acc == after[n - 1]
                 i == order[n]
             IN IF acc.need <= limit \/ acc.view[i].out <= floor THEN acc
                ELSE [view |-> [acc.view EXCEPT ![i].out = size, ![i].whole = FALSE],
                      need |-> acc.need - (acc.view[i].out - size)]
  IN after[Len(order)]

\* The places of S, each behind those earlier than it.
Ranked(S, earlier) ==
  [n \in 1 .. Cardinality(S) |-> CHOOSE i \in S : Cardinality(earlier[i]) = n - 1]

LargestFirst(v, S) ==
  Ranked(S, [i \in S |-> {k \in S : v[k].out > v[i].out \/ (v[k].out = v[i].out /\ k < i)}])

OldestFirst(S) == Ranked(S, [i \in S |-> {k \in S : k < i}])

Outputs(v) == {i \in Places(v) : v[i].out > 0 /\ i <= Len(v) - Recent}

Smaller(a, b) == IF a <= b THEN a ELSE b

\* truncateLargeToolOutputs.  An output just over the length is not spared,
\* though the marker makes it longer.
Truncated(v) ==
  LET limit == IF window > 0 THEN window ELSE Fallback
      threshold == Smaller(limit, limit - Cached(v) - OutputReserve)
      current == CurrentTokens(v)
      large == {i \in Outputs(v) : v[i].out >= MinOutput}
  IN IF limit = 0 \/ current = 0 \/ threshold <= 0 \/ current < threshold THEN v
     ELSE Pass([view |-> v, need |-> current], LargestFirst(v, large),
               (9 * threshold) \div 10, ShortTokens, LongOutput).view

-----------------------------------------------------------------------------
(* enforceContextBudget.                                                   *)

Budget == window - CompletionReserve

\* The outputs that may be touched: not those of the first user message, of
\* the last messages, of protected tools or of compress.
Candidates(v) == {i \in Outputs(v) : v[i].tool = "any"}

Shortened(v, estimate) ==
  Pass([view |-> v, need |-> estimate],
       LargestFirst(v, {i \in Candidates(v) : v[i].whole}),
       Budget, ShortTokens, IF LongOutput > ShortTokens THEN LongOutput ELSE ShortTokens)

\* A fault of Cleared: what bears the marker of the first phase is passed over,
\* as there.
ClearedWhole(v, start) ==
  Pass(start, OldestFirst({i \in Candidates(v) : start.view[i].whole}), Budget, 0, MinClear)

Cleared(v, start) == Pass(start, OldestFirst(Candidates(v)), Budget, 0, MinClear)

Enforced(v) ==
  IF window = 0 \/ Budget <= 0 \/ Estimate(v) <= Budget THEN v
  ELSE Cleared(v, Shortened(v, Estimate(v))).view

\* What one request sends.
View(h) == Enforced(Truncated(h))

-----------------------------------------------------------------------------
(* The host and the model.                                                 *)

Room == Len(history) < MaxMessages

Say ==
  /\ Room
  /\ history' = Append(history, Said("user", 1))
  /\ UNCHANGED <<window, system>>

\* The backend refuses what leaves no room for the completion.
Accepted(v) == window = 0 \/ Wire(v) <= Budget

Report(v) ==
  [Said("assistant", 1) EXCEPT !.usage = Wire(v) + 1, !.cut = Wire(history) - Wire(v)]

Called(v, tool, size) == [Report(v) EXCEPT !.tool = tool, !.out = size]

\* The replies of the model: a text, a tool call with its output, a reply that
\* ends without a report, and the message of a request that was refused.
Replies(v) ==
  IF Accepted(v)
  THEN {Report(v), Said("assistant", 1)} \cup
       {Called(v, tool, size) : tool \in Tools, size \in OutputSizes}
  ELSE {Said("assistant", 0)}

Send ==
  /\ Room
  /\ history # <<>>
  /\ system' = Cached(history)
  /\ \E reply \in Replies(View(history)) : history' = Append(history, reply)
  /\ UNCHANGED window

\* The model may change between two requests: to one whose window is known, or
\* to one without.
SwitchModel == window' \in Windows \ {window} /\ UNCHANGED <<history, system>>

\* The host puts a summary in the place of what was said; its report is of the
\* context before.
Compact ==
  /\ LastReport(history) > 0
  /\ history' = <<Said("user", 1), [Said("assistant", 1) EXCEPT 
                                        !.usage = Wire(history) + 1, !.old = TRUE]>>
  /\ UNCHANGED <<window, system>>

BudgetNext == Say \/ Send \/ SwitchModel \/ Compact

BudgetSpec == BudgetInit /\ [][BudgetNext]_budgetVars

-----------------------------------------------------------------------------
(* The inductive invariant.                                                *)

Message ==
  [role : {"user", "assistant"}, text : {0, 1}, tool : Tools, out : Nat, whole : {TRUE},
   usage : Nat, old : BOOLEAN, cut : Int]

\* A report is of a reply, behind the user's first message, and counts the
\* system prompt; it counts all before it but what was cut of it.
Reports(h) ==
  \A k \in Places(h) :
    h[k].usage > 0 =>
      /\ h[k].role = "assistant" /\ h[k].text = 1
      /\ h[k].usage >= SystemTokens + 2
      /\ ~h[k].old => h[k].usage = SystemTokens + Sum(h, 1 .. k - 1) + 1 - h[k].cut

BudgetIInv ==
  /\ history \in Seq(Message) /\ window \in Windows
  /\ system = 0 \/ (system \in Nat /\ system >= SystemTokens)
  /\ history # <<>> => history[1].role = "user" /\ history[1].text = 1
  /\ Reports(history)

-----------------------------------------------------------------------------
(* Properties.                                                             *)

\* What the estimate of v cannot see.  Where it counts the content: a system
\* prompt it never learned.  Where it starts from a report: the tool output that
\* came in the reporting message itself, what was cut of the request reported
\* on, and what the outputs before it are longer by than they were, which is
\* less than nothing where they are shorter.
Unseen(v) ==
  LET k == LastReport(v)
      before == 1 .. k - 1
  IN IF k = 0 \/ v[k].old THEN IF Cached(v) > 0 THEN 0 ELSE SystemTokens
     ELSE v[k].out + v[k].cut + Sum(v, before) - Sum(history, before)

\* What the backend will count is covered by the estimate the guard goes by and
\* what that cannot see, on every history: no message after the report it
\* starts from is missed, refused, aborted and unreported replies among them,
\* and none is taken for part of a report of before a compaction.
EstimateCoversRequest ==
  LET v == Truncated(history) IN Estimate(v) + Unseen(v) >= Wire(v)

\* What the guard says it saved is what it took from the request: after both
\* phases the estimate less that fits the budget, or no output it may touch is
\* worth clearing.
GuardDelivers ==
  LET v == Truncated(history)
      sent == Enforced(v)
  IN window > 0 /\ Budget > 0 =>
       \/ Estimate(v) - (Wire(v) - Wire(sent)) <= Budget
       \/ \A i \in Candidates(sent) : sent[i].out <= MinClear
=============================================================================
