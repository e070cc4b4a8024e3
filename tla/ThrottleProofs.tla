--------------------------- MODULE ThrottleProofs ---------------------------
(***************************************************************************)
(* Proofs about Throttle: whatever values the headers have and in whatever *)
(* order they come, for all lengths of the backoffs.                       *)
(***************************************************************************)
EXTENDS Throttle, TLAPS

\* What the rest rests on: the state is well typed in every behaviour.
THEOREM TypeCorrect == Spec => []TypeOK
<1> USE TimeAssumption, HeadersAssumption DEF TypeOK
<1>1. Init => TypeOK
  BY DEF Init
<1>2. TypeOK /\ [Next]_vars => TypeOK'
  <2> SUFFICES ASSUME TypeOK, [Next]_vars PROVE TypeOK'
    OBVIOUS
  <2>1. CASE Tick
    BY <2>1 DEF Tick, params
  <2>2. ASSUME NEW value \in LimitStatuses, LimitStatusHeader(value) PROVE TypeOK'
    BY <2>2 DEF LimitStatusHeader, UpdateSuspendUntil, SuspendUntil, Later
  <2>3. ASSUME NEW value \in ResetTimestamps, LimitResetTimestampHeader(value) PROVE TypeOK'
    BY <2>3 DEF LimitResetTimestampHeader, UpdateSuspendUntil, SuspendUntil, Later
  <2>4. ASSUME NEW status \in {200, 403, 429}, MessageEnd(status) PROVE TypeOK'
    BY <2>4 DEF MessageEnd, params, Later
  <2>5. CASE UNCHANGED vars
    BY <2>5 DEF vars, params, history
  <2> QED
    BY <2>1, <2>2, <2>3, <2>4, <2>5 DEF Next
<1> QED
  BY <1>1, <1>2, PTL DEF Spec

\* While the limit is on record as exhausted the suspension reaches its reset
\* (throttle.cpp:82): no order of headers and no status breaks it.
THEOREM ExhaustedSuspendsHolds == Spec => []ExhaustedSuspends
<1> USE TimeAssumption, HeadersAssumption DEF TypeOK, ExhaustedSuspends, Exhausted
<1>1. Init => ExhaustedSuspends
  BY DEF Init
<1>2. TypeOK /\ ExhaustedSuspends /\ [Next]_vars => ExhaustedSuspends'
  <2> SUFFICES ASSUME TypeOK, ExhaustedSuspends, [Next]_vars PROVE ExhaustedSuspends'
    OBVIOUS
  <2>1. CASE Tick
    BY <2>1 DEF Tick, params
  <2>2. ASSUME NEW value \in LimitStatuses, LimitStatusHeader(value) PROVE ExhaustedSuspends'
    BY <2>2 DEF LimitStatusHeader, UpdateSuspendUntil, SuspendUntil, Later
  <2>3. ASSUME NEW value \in ResetTimestamps, LimitResetTimestampHeader(value)
        PROVE  ExhaustedSuspends'
    BY <2>3 DEF LimitResetTimestampHeader, UpdateSuspendUntil, SuspendUntil, Later
  <2>4. ASSUME NEW status \in {200, 403, 429}, MessageEnd(status) PROVE ExhaustedSuspends'
    BY <2>4 DEF MessageEnd, params, Later
  <2>5. CASE UNCHANGED vars
    BY <2>5 DEF vars, params, history
  <2> QED
    BY <2>1, <2>2, <2>3, <2>4, <2>5 DEF Next
<1> QED
  BY <1>1, <1>2, TypeCorrect, PTL DEF Spec

\* A block after a 403 is cut short by a header only (throttle.cpp:126).
THEOREM ForbiddenBlocksHolds == Spec => []ForbiddenBlocks
<1> USE TimeAssumption, HeadersAssumption DEF TypeOK, ForbiddenBlocks
<1>1. Init => ForbiddenBlocks
  BY DEF Init
<1>2. TypeOK /\ ForbiddenBlocks /\ [Next]_vars => ForbiddenBlocks'
  <2> SUFFICES ASSUME TypeOK, ForbiddenBlocks, [Next]_vars PROVE ForbiddenBlocks'
    OBVIOUS
  <2>1. CASE Tick
    BY <2>1 DEF Tick, params
  <2>2. ASSUME NEW value \in LimitStatuses, LimitStatusHeader(value) PROVE ForbiddenBlocks'
    BY <2>2 DEF LimitStatusHeader, UpdateSuspendUntil, SuspendUntil, Later
  <2>3. ASSUME NEW value \in ResetTimestamps, LimitResetTimestampHeader(value)
        PROVE  ForbiddenBlocks'
    BY <2>3 DEF LimitResetTimestampHeader, UpdateSuspendUntil, SuspendUntil, Later
  <2>4. ASSUME NEW status \in {200, 403, 429}, MessageEnd(status) PROVE ForbiddenBlocks'
    <3>1. CASE Enabled /\ status = 403
      BY <2>4, <3>1 DEF MessageEnd, Later
    <3>2. CASE ~(Enabled /\ status = 403)
      <4>1. lifted' = lifted /\ blockedUntil' = blockedUntil
        BY <2>4, <3>2 DEF MessageEnd
      <4>2. suspend_until' >= suspend_until
        BY <2>4, <3>2 DEF MessageEnd, Later
      <4> QED
        BY <4>1, <4>2, <2>4 DEF MessageEnd
    <3> QED
      BY <3>1, <3>2
  <2>5. CASE UNCHANGED vars
    BY <2>5 DEF vars, params, history
  <2> QED
    BY <2>1, <2>2, <2>3, <2>4, <2>5 DEF Next
<1> QED
  BY <1>1, <1>2, TypeCorrect, PTL DEF Spec

\* Suspensions do not add up: however many responses say so, the end is no later than the
\* longer backoff from now, or than a reset the exchange has named (throttle.cpp:82, 126).
SuspensionBounded ==
    \/ suspend_until <= now + Later(DEFAULT_BACKOFF, BLOCKED_BACKOFF)
    \/ \E reset \in ResetTimestamps : suspend_until + Offset <= reset
THEOREM SuspensionsDoNotAddUp == Spec => []SuspensionBounded
<1> DEFINE ResetKnown == limit_reset_timestamp \in ResetTimestamps \cup {0}
<1> USE TimeAssumption, HeadersAssumption DEF TypeOK
<1>1. Init => SuspensionBounded /\ ResetKnown
  BY DEF Init, SuspensionBounded, Later
<1>2. TypeOK /\ SuspensionBounded /\ ResetKnown /\ [Next]_vars => (SuspensionBounded /\ ResetKnown)'
  <2> SUFFICES ASSUME TypeOK, SuspensionBounded, ResetKnown, [Next]_vars
               PROVE  SuspensionBounded' /\ ResetKnown'
    OBVIOUS
  <2>1. CASE Tick
    BY <2>1 DEF Tick, params, SuspensionBounded, Later
  <2>2. ASSUME NEW status \in Int, NEW reset \in ResetTimestamps \cup {0}, now' = now,
               UpdateSuspendUntil(status, reset)
        PROVE  SuspensionBounded'
    <3>1. CASE suspend_until' \in {0, suspend_until}
      <4>1. CASE suspend_until' = 0
        BY <2>2, <4>1 DEF SuspensionBounded, Later
      <4>2. CASE suspend_until' = suspend_until
        BY <2>2, <4>2 DEF SuspensionBounded
      <4> QED
        BY <3>1, <4>1, <4>2
    <3>2. CASE suspend_until' \notin {0, suspend_until}
      <4>1. suspend_until' = SuspendUntil(reset) /\ reset # 0
        BY <2>2, <3>2 DEF UpdateSuspendUntil, Exhausted
      <4>2. CASE now + Offset < reset
        BY <2>2, <3>2, <4>1, <4>2 DEF SuspendUntil, SuspensionBounded, Later
      <4>3. CASE ~(now + Offset < reset)
        BY <2>2, <3>2, <4>1, <4>3 DEF SuspendUntil, SuspensionBounded, Later
      <4> QED
        BY <4>2, <4>3
    <3> QED
      BY <3>1, <3>2
  <2>3. ASSUME NEW value \in LimitStatuses, LimitStatusHeader(value)
        PROVE  SuspensionBounded' /\ ResetKnown'
    BY <2>2, <2>3 DEF LimitStatusHeader
  <2>4. ASSUME NEW value \in ResetTimestamps, LimitResetTimestampHeader(value)
        PROVE  SuspensionBounded' /\ ResetKnown'
    BY <2>2, <2>4 DEF LimitResetTimestampHeader
  <2>5. ASSUME NEW status \in {200, 403, 429}, MessageEnd(status)
        PROVE  SuspensionBounded' /\ ResetKnown'
    <3>1. now' = now /\ limit_reset_timestamp' = limit_reset_timestamp
      BY <2>5 DEF MessageEnd, params
    <3>2. \/ suspend_until' = suspend_until
          \/ suspend_until' \in {now + BLOCKED_BACKOFF, now + DEFAULT_BACKOFF}
      BY <2>5 DEF MessageEnd, Later
    <3> QED
      BY <3>1, <3>2 DEF SuspensionBounded, Later
  <2>6. CASE UNCHANGED vars
    BY <2>6 DEF vars, params, SuspensionBounded
  <2> QED
    BY <2>1, <2>3, <2>4, <2>5, <2>6 DEF Next
<1> QED
  BY <1>1, <1>2, TypeCorrect, PTL DEF Spec
=============================================================================
