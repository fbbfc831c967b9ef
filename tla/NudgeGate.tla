----------------------------- MODULE NudgeGate -----------------------------
(***************************************************************************)
(* When a request carries a compression nudge.  Each request measures the  *)
(* context by what the last reply reported (the size of the prompt before  *)
(* the reply, and so before the compression the reply asked for), compares *)
(* it with the baselines kept in the session's nudge state, and saves that *)
(* state when it asks for it.  A size is a number of token units.          *)
(***************************************************************************)
EXTENDS Integers, FiniteSetsExt

CONSTANTS
    Window,       \* the model's context limit; no prompt is larger
    Emergency,    \* emergencyThresholdPercent of it
    MaxLimit, MinLimit, NudgeFloor,
    Growth,       \* nudgeGrowthTokens
    Floor,        \* max(minNudgeGrowthFloor, minNudgeGrowthRatio x Growth)
    Interval,     \* nudgeFrequency, in messages
    Iteration,    \* iterationNudgeThreshold, in messages
    Tiers,        \* the tier triggers considered, a subset of {2, 3}
    Shrinks       \* by how much a compression may shrink the context

ASSUME SizesAssumption ==
    /\ {Window, Growth, Interval, Iteration} \subseteq Nat \ {0}
    /\ {Emergency, MaxLimit, MinLimit, NudgeFloor, Floor} \subseteq Nat
    /\ Tiers \subseteq {2, 3} /\ Shrinks \subseteq Nat \ {0}

VARIABLES
    phase,     \* "ready" for a request or a user message, "asked" while the model replies
    reports,   \* does the provider report usage
    size,      \* the prompt of the next request
    raw,       \* the same with nothing compressed, if usage is estimated
    reported,  \* what the last reply reported, 0 if it was the summary of a compaction
    since,     \* messages since the last user message and the last compress call (saturated)
    attempt,   \* the last compress call of this turn
    nudges,    \* the nudge state of the session
    saved,     \* the one in the session file
    outcome,   \* what the last request carried, or the reply that followed
    low        \* the least size measured since the last nudge; Unset when there is no nudge
               \* or a compress call has answered it

vars == <<phase, reports, size, raw, reported, since, attempt, nudges, saved, outcome, low>>

Unset == -1
NotYet == -1
NoAttempt == [made |-> FALSE, ok |-> FALSE, capture |-> FALSE, processed |-> FALSE]
NoAnchor == -1   \* else how many messages ago the newest anchor is (saturated)
NoAnchors == [limit |-> NoAnchor, iteration |-> NoAnchor, turn |-> FALSE]
EmptyNudges == [base |-> Unset, shown |-> Unset, tier |-> [t \in Tiers |-> Unset], set |-> FALSE,
                anchors |-> NoAnchors]

Least(a, b) == IF a < b THEN a ELSE b

-----------------------------------------------------------------------------
(* The measures of a request.                                              *)

Reported == reports /\ reported # NotYet
Current == IF Reported THEN reported ELSE size
BeforePrune == IF Reported THEN reported ELSE raw

\* a compress call among the last three messages silences the limit
OverMax == Current > MaxLimit /\ since.compress >= 3
OverMin == Current >= MinLimit
InEmergency == Current >= Emergency

\* JavaScript's Math.round of a fraction
Rounded(n, d) == (2 * n + d) \div (2 * d)

\* the baseline after a compression, moved in proportion to what it removed of the growth
NewBaseline ==
    LET growth == BeforePrune - nudges.base
        removed == BeforePrune - Current
    IN IF nudges.base # Unset /\ removed > 0 /\ growth > 0
       THEN nudges.base + Rounded((Current - nudges.base) * Least(growth, 2 * removed), growth)
       ELSE Current

-----------------------------------------------------------------------------
(* The request after a compress call: it only resets.                      *)

AnswersCompress == attempt.made /\ ~attempt.processed

AfterCompress ==
    LET settles == attempt.ok /\ nudges.shown # Unset /\ ~nudges.set
    IN [base |-> IF settles THEN NewBaseline ELSE nudges.base,
        shown |-> Unset,
        tier |-> IF attempt.capture THEN nudges.tier ELSE [t \in Tiers |-> Current],
        set |-> nudges.set \/ settles,
        anchors |-> NoAnchors]

-----------------------------------------------------------------------------
(* Any other request.                                                      *)

Added(age) == IF age = NoAnchor \/ age >= Interval THEN 0 ELSE age

AnchorsNow ==
    LET a == nudges.anchors
        long == since.user >= Iteration /\ since.user > 0
    IN CASE OverMax -> [limit |-> Added(a.limit),
                        iteration |-> IF OverMin THEN a.iteration ELSE NoAnchor,
                        turn |-> OverMin /\ a.turn]
         [] ~OverMax /\ OverMin -> [limit |-> NoAnchor,
                        iteration |-> IF long THEN Added(a.iteration) ELSE a.iteration,
                        turn |-> a.turn \/ (since.user = 0 /\ reported # NotYet)]
         [] OTHER -> NoAnchors

\* a context far below its baseline becomes the baseline
Corrected == nudges.base # Unset /\ Current < nudges.base - Growth
Base == IF Corrected \/ nudges.base = Unset THEN Current ELSE nudges.base
Shown == IF Corrected THEN Unset ELSE nudges.shown

Reference == IF Shown # Unset THEN Shown ELSE IF Corrected THEN Current ELSE nudges.base
Grown(by) == Reference # Unset /\ Current - Reference >= by
Threshold == IF Shown # Unset THEN Growth \div 2 ELSE Growth

\* a fault of Allowed: the growth floor holds in an emergency too
AllowedByGrowth == Grown(Threshold) /\ Grown(Floor)

Allowed ==
    InEmergency \/ (Grown(Threshold) /\ (OverMax \/ Current >= NudgeFloor) /\ Grown(Floor))

Notice(targets) == InEmergency /\ ~targets /\ (Shown = Unset \/ Grown(Floor))

\* the tiers whose summaries are ready and whose cadence is met; the lowest fires
Due(ready) == {t \in ready : nudges.tier[t] = Unset \/ Current - nudges.tier[t] >= Floor}

Carried(targets, ready) ==
    CASE Allowed /\ targets -> "nudge"
      [] Notice(targets) -> "notice"
      [] ~(Allowed /\ targets) /\ ~Notice(targets) /\ Due(ready) # {} -> "tier"
      [] OTHER -> IF targets THEN "none" ELSE "nothing"

Evaluated(carried, ready) ==
    [base |-> Base,
     shown |-> IF carried \in {"nudge", "notice", "tier"} THEN Current ELSE Shown,
     tier |-> IF carried = "tier" THEN [nudges.tier EXCEPT ![Min(Due(ready))] = Current]
              ELSE nudges.tier,
     set |-> FALSE,
     anchors |-> AnchorsNow]

\* a fault of Persists: a nudge alone is not saved
PersistsChanges == AnchorsNow # nudges.anchors \/ nudges.base = Unset \/ Corrected

Persists == AnchorsNow # nudges.anchors \/ Allowed \/ nudges.base = Unset \/ Corrected

-----------------------------------------------------------------------------
Init ==
    /\ phase = "ready" /\ reports \in BOOLEAN
    /\ size = 1 /\ raw = 1 /\ reported = NotYet
    /\ since = [user |-> 0, compress |-> 3] /\ attempt = NoAttempt
    /\ nudges = EmptyNudges /\ saved = EmptyNudges
    /\ outcome = "none" /\ low = Unset

\* the first request after a compress call
Settle ==
    /\ phase = "ready" /\ phase' = "asked"
    /\ AnswersCompress
    /\ nudges' = AfterCompress /\ saved' = AfterCompress
    /\ attempt' = [attempt EXCEPT !.processed = TRUE]
    /\ outcome' = "none" /\ low' = Unset
    /\ UNCHANGED <<reports, size, raw, reported, since>>

\* any other, with something to compress or not, and summaries of some tiers piled up
Request ==
    /\ phase = "ready" /\ phase' = "asked"
    /\ ~AnswersCompress
    /\ \E targets \in BOOLEAN, ready \in SUBSET Tiers :
          /\ outcome' = Carried(targets, ready)
          /\ nudges' = Evaluated(outcome', ready)
          /\ low' = IF outcome' = "nudge" THEN Current
                    ELSE IF low = Unset THEN Unset ELSE Least(low, Current)
    /\ saved' = IF Persists THEN nudges' ELSE saved
    /\ UNCHANGED <<reports, size, raw, reported, since, attempt>>

\* a message behind the last one
Older(n, most) == Least(n + 1, most)
AgedAnchors(a) ==
    [a EXCEPT !.limit = IF @ = NoAnchor THEN @ ELSE Older(@, Interval),
              !.iteration = IF @ = NoAnchor THEN @ ELSE Older(@, Interval)]
Aged(ns) == [ns EXCEPT !.anchors = AgedAnchors(@)]

\* the reply makes the prompt longer by n, and reports what it was with itself
Replied(n) ==
    /\ phase = "asked" /\ phase' = "ready"
    /\ reported' = Least(size + 1, Window)
    /\ raw' = IF reports THEN raw ELSE Least(raw + n, 2 * Window)
    /\ UNCHANGED reports

Work ==
    \E n \in {1, 2} :
        /\ Replied(n)
        /\ size' = Least(size + n, Window)
        /\ since' = [user |-> Older(since.user, Iteration), compress |-> Older(since.compress, 3)]
        /\ nudges' = Aged(nudges) /\ saved' = Aged(saved)
        /\ UNCHANGED <<attempt, outcome, low>>

\* the model calls compress, on messages or on blocks; a call that succeeds saves the state
Compress ==
    \E ok \in BOOLEAN, capture \in BOOLEAN, by \in Shrinks :
        /\ Replied(1)
        /\ by < size
        /\ size' = IF ok THEN Least(size + 1 - by, Window) ELSE Least(size + 1, Window)
        /\ since' = [user |-> Older(since.user, Iteration), compress |-> 0]
        /\ attempt' = [made |-> TRUE, ok |-> ok \/ attempt.ok, capture |-> capture, processed |-> FALSE]
        /\ nudges' = Aged(nudges) /\ saved' = IF ok THEN Aged(nudges) ELSE Aged(saved)
        /\ outcome' = "compress" /\ low' = Unset

UserMessage ==
    /\ phase = "ready" /\ since.user > 0
    /\ since' = [user |-> 0, compress |-> Older(since.compress, 3)]
    /\ attempt' = NoAttempt
    /\ nudges' = Aged(nudges) /\ saved' = Aged(saved)
    /\ UNCHANGED <<phase, reports, size, raw, reported, outcome, low>>

\* the process restarts: the nudge state is read back; which call was processed is not in it
Restart ==
    /\ phase = "ready"
    /\ nudges' = saved
    /\ attempt' = [attempt EXCEPT !.processed = FALSE]
    /\ UNCHANGED <<phase, reports, size, raw, reported, since, saved, outcome, low>>

\* the host replaces the history by a summary: the nudge state starts anew, and
\* what the summary reports counts as nothing
Compaction ==
    /\ phase = "ready" /\ since.user > 0
    /\ size' = 1 /\ raw' = 1 /\ reported' = 0
    /\ since' = [user |-> 0, compress |-> 3]
    /\ attempt' = NoAttempt
    /\ nudges' = EmptyNudges /\ saved' = EmptyNudges
    /\ outcome' = "compress"
    /\ UNCHANGED <<phase, reports, low>>

Next == Settle \/ Request \/ Work \/ Compress \/ UserMessage \/ Restart \/ Compaction

\* the session goes on: requests are made and the model does work between its compress calls
Spec == Init /\ [][Next]_vars /\ WF_vars(Settle \/ Request) /\ WF_vars(Work)

-----------------------------------------------------------------------------
(* The inductive invariant.                                                *)

SizesOrUnset == Nat \cup {Unset}
Ages == Nat \cup {NoAnchor}
NudgeStates ==
    [base : SizesOrUnset, shown : SizesOrUnset, tier : [Tiers -> SizesOrUnset], set : BOOLEAN,
     anchors : [limit : Ages, iteration : Ages, turn : BOOLEAN]]

NudgeTypeOK ==
    /\ phase \in {"ready", "asked"} /\ reports \in BOOLEAN
    /\ size \in Nat /\ raw \in Nat /\ reported \in Nat \cup {NotYet} /\ low \in SizesOrUnset
    /\ since \in [user : Nat, compress : Nat]
    /\ attempt \in [made : BOOLEAN, ok : BOOLEAN, capture : BOOLEAN, processed : BOOLEAN]
    /\ nudges \in NudgeStates /\ saved \in NudgeStates
    /\ outcome \in {"none", "nothing", "nudge", "notice", "tier", "compress"}

\* what growth is measured from is not below what was measured since the last nudge
Measures(ns) ==
    low # Unset => LET from == IF ns.shown # Unset THEN ns.shown ELSE ns.base
               IN from # Unset => low <= from

\* in memory, and in the file a restart would read
NudgeIInv == NudgeTypeOK /\ Measures(nudges) /\ Measures(saved)

-----------------------------------------------------------------------------
(* Properties.                                                             *)

Requested == phase = "ready" /\ phase' = "asked"

\* Below the emergency threshold the model hears a nudge again only after the
\* context has grown by the floor from the least size measured since the last
\* nudge: whatever corrected baselines, tier triggers, compactions of the host
\* and restarts come in between, and although not every change of the nudge
\* state is saved (the anti-thrashing gates of inject.ts:386-400 and 862-870).
\* A compress call answers the nudge, whether it succeeds or not, and so does
\* the request that settles one, after a restart any call of the turn: of the
\* next nudge nothing is asked then.
NudgesSpaced ==
    [][Requested /\ outcome' = "nudge" /\ ~InEmergency /\ low # Unset
       => Current - low >= Floor]_vars

\* A session that goes on is never left to fill its context in silence: again
\* and again a request carries a nudge, a notice or a tier trigger, the model
\* compresses, or there is nothing left to compress.  (Unless it is restarted
\* for ever: each restart settles the last compress call of the turn anew.)
NeverSilent ==
    []<>(outcome \in {"nudge", "notice", "tier", "compress", "nothing"}) \/ []<><<Restart>>_vars
=============================================================================
