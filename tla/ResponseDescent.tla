-------------------------- MODULE ResponseDescent --------------------------
(***************************************************************************)
(* What is left to do for a request of Response, as a sequence of counts   *)
(* that gets smaller with every step.                                      *)
(***************************************************************************)
EXTENDS Response, Descent

\* The places of a request, which it never goes back in.
Stages == [idle |-> 8, options |-> 7, route |-> 6, validate |-> 5, negotiate |-> 4,
           generate |-> 3, respond |-> 2, handed |-> 1, done |-> 1, crashed |-> 1]

\* What a list has still to hold, when it holds so much.
Lacking(min, held) == IF held < Length(min) THEN Length(min) - held ELSE 0

\* The parts a call has still to take, with the one it may await, and for unique
\* values the attempts it has for them.
PartsLeft(call, awaited) ==
    CASE call.phase = "item" -> Lacking(MinItems(call.schema), Len(call.made))
      [] call.phase = "unique" ->
             MaxAttempts * Lacking(MinItems(call.schema), Len(call.made)) - call.tries
      [] call.phase = "property" -> Cardinality(call.todo) + awaited
      [] call.phase = "required" ->
             Len(call.queue) + awaited + Lacking(MinProps(call.schema), 0) + 1
      [] call.phase \in {"entry", "free"} ->
             Lacking(MinProps(call.schema), Cardinality(DOMAIN call.made))
      [] OTHER -> 0

\* The call at this level is at work, waits for the one above it, or has a value or
\* an error to take.
Turn(level) ==
    CASE level < Len(stack)                         -> 2
      [] level = Len(stack) /\ result = NoResult    -> 3
      [] level = Len(stack) /\ result.status = "ok" -> 1
      [] OTHER                                      -> 0

\* All calls but one at work have asked for a part.
Awaited(level) == IF level < Len(stack) \/ result # NoResult THEN 1 ELSE 0

\* Level 0 is the caller of the first generator.  How much a call has to do is known
\* when it has chosen its generator.
StepsLeft(level) ==
    CASE level = 0 -> Turn(0)
      [] level \in 1 .. Len(stack) /\ stack[level].phase # "enter" ->
             4 * PartsLeft(stack[level], Awaited(level)) + Turn(level)
      [] OTHER -> Unknown

MembersLeft(level) ==
    IF level \in 1 .. Len(merging) THEN Len(merging[level].todo) ELSE Unknown

\* The place of the request, the methods to try, the keys to visit, the calls from
\* the first on, and those of the merger.
Work ==
    [k \in 1 .. MaxLevel + MaxMerging + 4 |->
        CASE k = 1 -> Stages[at]
          [] k = 2 -> Len(probing)
          [] k = 3 -> Cardinality(keys)
          [] k \in 4 .. MaxLevel + 4 -> StepsLeft(k - 4)
          [] OTHER -> MembersLeft(k - MaxLevel - 4)]

\* Every step of a request brings it nearer to its end: unique values are not drawn
\* without end, no schema refers to itself for ever, and nothing that was done is
\* done again.  The order has no endless descent (NoEndlessDescent in
\* DescentProofs), so a request can stop, but it cannot go on for ever.
EveryStepIsNearer == [][Nearer(Work', Work)]_vars
=============================================================================
