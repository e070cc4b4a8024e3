------------------------------ MODULE Throttle ------------------------------
(***************************************************************************)
(* tools::Throttle, which every REST client of the gateway consults before *)
(* it sends: nothing is sent before suspend_until_.                        *)
(*                                                                         *)
(* The clients share one Throttle.  Each calls it for the headers and for  *)
(* the end of each response, as the bytes come in, so that the headers of  *)
(* one response and those of another may be interleaved; nothing is kept   *)
(* per client or per response.                                             *)
(*                                                                         *)
(* Time is counted in ticks.  The realtime clock, which the exchange's     *)
(* reset timestamps refer to, is ahead of the system clock by Offset.      *)
(***************************************************************************)
EXTENDS Integers

CONSTANTS
    Enabled,          \* settings.experimental.enable_rate_limit
    DEFAULT_BACKOFF,
    BLOCKED_BACKOFF,
    Offset,
    LimitStatuses,    \* values the header X-Bapi-Limit-Status may have
    ResetTimestamps,  \* values of X-Bapi-Limit-Reset-Timestamp
    MaxTime           \* bound on the system clock

ASSUME EnabledAssumption == Enabled \in BOOLEAN
ASSUME TimeAssumption ==
    /\ DEFAULT_BACKOFF \in Nat \ {0} /\ BLOCKED_BACKOFF \in Nat \ {0}
    /\ Offset \in Nat /\ MaxTime \in Nat
ASSUME HeadersAssumption == LimitStatuses \subseteq Int /\ ResetTimestamps \subseteq Nat

VARIABLES
    now,             \* clock::get_system()
    limit_status, limit_reset_timestamp,  \* params_
    suspend_until,   \* 0 for none
    \* history
    blockedUntil,    \* when the block of the last 403 ends, 0 for none
    lifted           \* "yes" once a header has lifted the suspension since then

params == <<limit_status, limit_reset_timestamp>>
history == <<blockedUntil, lifted>>
vars == <<now, params, suspend_until, history>>

Init ==
    /\ now = 1
    /\ limit_status = 0 /\ limit_reset_timestamp = 0
    /\ suspend_until = 0
    /\ blockedUntil = 0 /\ lifted = "no"

Later(s, t) == IF s > t THEN s ELSE t

Tick ==
    /\ now < MaxTime
    /\ now' = now + 1
    /\ UNCHANGED <<params, suspend_until, blockedUntil, lifted>>

-----------------------------------------------------------------------------
(* Mutants *)

\* The suspension ends with the default backoff.
SuspendUntilAlwaysDefault(reset) == Later(suspend_until, now + DEFAULT_BACKOFF)

\* An earlier suspension is overwritten.
SuspendUntilOverwrites(reset) ==
    IF now + Offset < reset THEN reset - Offset ELSE now + DEFAULT_BACKOFF

-----------------------------------------------------------------------------
(* update_suspend_until *)

Exhausted(status, reset) == status <= 0 /\ reset # 0

\* The end of the suspension for an exhausted limit that is reset at this timestamp.
SuspendUntil(reset) ==
    IF now + Offset < reset
    THEN Later(suspend_until, reset - Offset)
    ELSE Later(suspend_until, now + DEFAULT_BACKOFF)

\* Mutant: a limit that is not exhausted suspends until its reset, too, which
\* is before the clock's epoch where no timestamp has been read yet.
UpdateSuspendUntilNoLift(status, reset) ==
    /\ suspend_until' = IF Exhausted(status, reset) THEN SuspendUntil(reset) ELSE reset - Offset
    /\ UNCHANGED lifted

\* Called only if the value in the header is a new one.
UpdateSuspendUntil(status, reset) ==
    IF ~Enabled
    THEN UNCHANGED <<suspend_until, lifted>>
    ELSE IF Exhausted(status, reset)
    THEN suspend_until' = SuspendUntil(reset) /\ UNCHANGED lifted
    ELSE suspend_until' = 0 /\ lifted' = "yes"

LimitStatusHeader(value) ==
    /\ value # limit_status
    /\ limit_status' = value
    /\ UpdateSuspendUntil(value, limit_reset_timestamp)
    /\ UNCHANGED <<now, limit_reset_timestamp, blockedUntil>>

LimitResetTimestampHeader(value) ==
    /\ value # limit_reset_timestamp
    /\ limit_reset_timestamp' = value
    /\ UpdateSuspendUntil(limit_status, value)
    /\ UNCHANGED <<now, limit_status, blockedUntil>>

\* A response ends.  429 is noticed only while there is no suspension on record,
\* which may be one that has expired.
MessageEnd(status) ==
    /\ suspend_until' = IF ~Enabled THEN suspend_until
                        ELSE IF status = 403 THEN Later(suspend_until, now + BLOCKED_BACKOFF)
                        ELSE IF status = 429 /\ suspend_until = 0 THEN now + DEFAULT_BACKOFF
                        ELSE suspend_until
    /\ blockedUntil' = IF Enabled /\ status = 403 THEN now + BLOCKED_BACKOFF ELSE blockedUntil
    /\ lifted' = IF Enabled /\ status = 403 THEN "no" ELSE lifted
    /\ UNCHANGED <<now, params>>

Next ==
    \/ Tick
    \/ \E value \in LimitStatuses : LimitStatusHeader(value)
    \/ \E value \in ResetTimestamps : LimitResetTimestampHeader(value)
    \/ \E status \in {200, 403, 429} : MessageEnd(status)

Spec == Init /\ [][Next]_vars
-----------------------------------------------------------------------------
(* Properties *)

TypeOK ==
    /\ now \in Nat
    /\ limit_status \in Int /\ limit_reset_timestamp \in Nat
    /\ suspend_until \in Nat /\ blockedUntil \in Nat
    /\ lifted \in {"yes", "no"}

\* As long as the limit is on record as exhausted, nothing is sent before it is
\* reset -- in whichever order the headers come, from however many responses, with
\* the reset still to come or already past (throttle.cpp:82).
ExhaustedSuspends ==
    Enabled /\ Exhausted(limit_status, limit_reset_timestamp) =>
        suspend_until + Offset >= limit_reset_timestamp

\* A 403 blocks for the whole of BLOCKED_BACKOFF, unless a header that has a limit
\* left lifts it: neither a 429 nor a reset that comes earlier shortens it
\* (throttle.cpp:126).
ForbiddenBlocks == lifted = "no" => suspend_until >= blockedUntil
=============================================================================
