-------------------------- MODULE EndpointPollProofs --------------------------
(***************************************************************************)
(* Proofs about EndpointPoll, for any cadence, interval, cap and length of *)
(* a poll, any outcomes and any bounds.                                    *)
(***************************************************************************)
EXTENDS EndpointPoll, FiniteSetTheorems, TLAPS

-----------------------------------------------------------------------------
(* Arithmetic of the stored times and of the backoff. *)

\* The durations are whole numbers of ticks, and the tick rate, the cadence,
\* the interval and the cap are not zero.
LEMMA Durations ==
    /\ TicksPerSecond \in Nat \ {0} /\ Base \in Nat \ {0}
    /\ Interval \in Nat \ {0} /\ Cap \in Nat \ {0}
    /\ MaxPoll \in Nat /\ MaxExponent \in Nat
BY TimingAssumption

\* A stored time has lost less than a second.
LEMMA StoredTime ==
    ASSUME NEW t \in Int
    PROVE  Stored(t) \in Int /\ Stored(t) <= t /\ Stored(t) > t - TicksPerSecond
<1>1. t % TicksPerSecond \in 0 .. (TicksPerSecond - 1)
  BY Durations
<1> QED BY <1>1, Durations DEF Stored

\* A time of the resource's life is stored as such a time.
LEMMA StoredNat ==
    ASSUME NEW t \in Nat
    PROVE  Stored(t) \in Nat
<1>1. t % TicksPerSecond \in Nat /\ t - (t % TicksPerSecond) >= 0
  BY Durations
<1> QED BY <1>1 DEF Stored

\* A power of two counts the subsets of a set, and so it is a natural number.
LEMMA PowerOfTwo ==
    ASSUME NEW n \in Nat
    PROVE  2 ^ n \in Nat
<1>1. IsFiniteSet(1 .. n) /\ Cardinality(1 .. n) = n
  BY FS_Interval, SMTT(20)
<1>2. IsFiniteSet(SUBSET (1 .. n)) /\ Cardinality(SUBSET (1 .. n)) = 2 ^ n
  BY Zenon, <1>1, FS_SUBSET
<1>3. Cardinality(SUBSET (1 .. n)) \in Nat
  BY <1>2, FS_CardinalityType
<1> QED BY <1>2, <1>3

\* A backoff is a delay up to the cap.
LEMMA BackoffBounds ==
    ASSUME NEW n \in Nat
    PROVE  backoff_seconds(n + 1) \in 0 .. Cap
<1>1. 2 ^ (n + 1 - 1) \in Nat
  <2>1. n + 1 - 1 = n
    OBVIOUS
  <2> QED BY <2>1, PowerOfTwo
<1> DEFINE delay == Base * 2 ^ (n + 1 - 1)
<1>2. delay \in Nat
  BY <1>1, Durations
<1>3. backoff_seconds(n + 1) = Smaller(delay, Cap)
  BY DEF backoff_seconds
<1> HIDE DEF delay
<1> QED BY <1>2, <1>3, Durations DEF Smaller

-----------------------------------------------------------------------------
(* Types. *)

ConditionsType ==
    [Conditions -> [status : {"", "True", "False", "Unknown"}, since : Int]]

StatusType ==
    [lastPolled : Int, failures : Nat, nextPollAfter : Int, readings : Int,
     firmware : Int, conditions : ConditionsType]

PollType ==
    [phase : {"idle", "polling"}, at : Int, gen : Int,
     health : Health \cup {"readings"}, seen : StatusType]

LedgerType ==
    [goodAt : Int, failedAt : Int, streak : Nat, recorded : Int,
     steadySince : Nat, overlap : {"yes", "no"}]

TypeOK ==
    /\ clock \in Nat /\ spec \in Nat /\ nextFire \in Nat /\ changes \in Nat
    /\ pending \in {"yes", "no"}
    /\ status \in StatusType
    /\ poll \in [Handlers -> PollType]
    /\ bmc \in Health
    /\ ledger \in LedgerType

\* A merged condition has the status that the poll found.
LEMMA MergedConditions ==
    ASSUME NEW prior \in ConditionsType, NEW outcome, NEW at \in Int
    PROVE  LET merged == merge_conditions(prior, Desired(outcome), at)
           IN  /\ merged \in ConditionsType
               /\ \A c \in Conditions : merged[c].status = Desired(outcome)[c]
<1>1. \A c \in Conditions : Desired(outcome)[c] \in {"True", "False", "Unknown"}
  BY Zenon DEF Desired, Conditions
<1>2. Stored(at) \in Int
  BY StoredTime
<1> QED BY Zenon, <1>1, <1>2 DEF merge_conditions, ConditionsType

-----------------------------------------------------------------------------
(* Invariants. *)

Polling(h) == poll[h] # Idle

\* Polls are no longer than MaxPoll, and what is stored or planned is at most
\* as far ahead of the clock as the cadence and the cap allow.
ClockInv ==
    /\ nextFire <= clock + Base
    /\ ledger.steadySince <= clock
    /\ status.lastPolled <= clock
    /\ status.nextPollAfter <= clock + Cap
    /\ \A h \in Handlers : Polling(h) =>
         /\ poll[h].at \in Nat
         /\ poll[h].at <= clock
         /\ clock <= poll[h].at + MaxPoll

\* As long as no polls have overlapped, a poll works on the present status.
AloneInv ==
    ledger.overlap = "no" =>
        \A h \in Handlers : Polling(h) =>
            /\ poll[h].seen = status
            /\ \A g \in Handlers : Polling(g) => g = h

\* No delay has overflowed in the present run of failures: the one after
\* MaxExponent + 1 failures is the last that can be computed.
DelaysFit == ledger.streak <= MaxExponent + 1

\* As long as no polls have overlapped, the status counts the failures in a row,
\* up to the first delay that overflows, and dates the last poll of either kind.
CountInv ==
    ledger.overlap = "no" =>
        /\ DelaysFit => status.failures = ledger.streak
        /\ DelaysFit /\ ledger.streak > 0 =>
             /\ ledger.failedAt \in Nat
             /\ status.nextPollAfter =
                  Stored(ledger.failedAt + backoff_seconds(ledger.streak))
        /\ ledger.goodAt # Never =>
             ledger.goodAt \in Nat /\ status.lastPolled = Stored(ledger.goodAt)

\* A poll that can only find what the BMC and the spec are now.
Current(h) == Polling(h) /\ poll[h].gen = spec /\ poll[h].health = bmc

\* The status shows the BMC of the present spec, and that it answers.
Shown == status.conditions["Ready"].status = "True" /\ status.readings = spec

\* By this time the poll that recovers has begun.
Latest == ledger.steadySince + MaxPoll + Larger(Cap, Interval) + Base

\* Only polls from before the last change can find anything else, and the
\* status they leave delays the next poll by the cap or by the interval.
RecoveryInv ==
    /\ \A h \in Handlers : Polling(h) /\ ~ Current(h) =>
         poll[h].at <= ledger.steadySince
    /\ bmc \in Successes /\ ~ Shown =>
         /\ status.nextPollAfter <= ledger.steadySince + Cap
         /\ status.lastPolled <= ledger.steadySince + MaxPoll
         /\ \/ \E h \in Handlers : Current(h) /\ poll[h].at <= Latest
            \/ nextFire <= Latest /\ clock <= Latest

-----------------------------------------------------------------------------
(* What the steps that the handlers share do. *)

\* The state of a handler that is not polling is well formed.
LEMMA IdleType == Idle \in PollType
BY DEF Idle, PollType, StatusType, ConditionsType, Never

\* A poll begins on the present spec, status and BMC.
LEMMA BeginStep ==
    ASSUME TypeOK, NEW h \in Handlers, Begin(h)
    PROVE  /\ poll' \in [Handlers -> PollType] /\ ledger' \in LedgerType
           /\ poll'[h] # Idle
           /\ poll'[h].at = clock /\ poll'[h].gen = spec
           /\ poll'[h].health = bmc /\ poll'[h].seen = status
           /\ \A g \in Handlers : g # h => poll'[g] = poll[g]
           /\ ledger'.goodAt = ledger.goodAt /\ ledger'.failedAt = ledger.failedAt
           /\ ledger'.streak = ledger.streak /\ ledger'.steadySince = ledger.steadySince
           /\ ledger'.overlap = "no" =>
                ledger.overlap = "no" /\ \A g \in Handlers : poll[g] = Idle
<1> DEFINE r == [phase |-> "polling", at |-> clock, gen |-> spec, health |-> bmc,
                 seen |-> status]
<1>1. r \in PollType
  BY DEF TypeOK, PollType
<1>2. r # Idle
  BY Zenon DEF Idle
<1>3. r.at = clock /\ r.gen = spec /\ r.health = bmc /\ r.seen = status
  OBVIOUS
<1>4. poll' = [poll EXCEPT ![h] = r]
  BY DEF Begin
<1> HIDE DEF r
<1>5. poll' \in [Handlers -> PollType] /\ poll'[h] = r
      /\ \A g \in Handlers : g # h => poll'[g] = poll[g]
  BY <1>1, <1>4 DEF TypeOK
<1>6. /\ ledger' \in LedgerType
      /\ ledger'.goodAt = ledger.goodAt /\ ledger'.failedAt = ledger.failedAt
      /\ ledger'.streak = ledger.streak /\ ledger'.steadySince = ledger.steadySince
      /\ ledger'.overlap = IF \A g \in Handlers : Free(g) THEN ledger.overlap ELSE "yes"
  BY DEF Begin, TypeOK, LedgerType
<1> QED BY <1>2, <1>3, <1>5, <1>6 DEF Free

\* A poll ends.
LEMMA EndStep ==
    ASSUME TypeOK, NEW h \in Handlers, poll' = [poll EXCEPT ![h] = Idle]
    PROVE  /\ poll' \in [Handlers -> PollType]
           /\ poll'[h] = Idle
           /\ \A g \in Handlers : g # h => poll'[g] = poll[g]
BY IdleType DEF TypeOK

\* A successful poll: what it leaves in the status.
LEMMA SuccessStep ==
    ASSUME TypeOK, NEW h \in Handlers, PollSucceeds(h)
    PROVE  /\ Polling(h)
           /\ \E outcome \in Successes : Meets(h, outcome)
           /\ status' \in StatusType /\ ledger' \in LedgerType
           /\ status'.lastPolled = Stored(poll[h].at)
           /\ status'.failures = 0
           /\ status'.nextPollAfter = Never
           /\ status'.readings = poll[h].gen
           /\ \A c \in Conditions : status'.conditions[c].status = "True"
           /\ \E outcome \in Successes : status'.conditions =
                merge_conditions(poll[h].seen.conditions, Desired(outcome), poll[h].at)
           /\ ledger'.streak = 0 /\ ledger'.goodAt = poll[h].at
           /\ ledger'.failedAt = ledger.failedAt
           /\ ledger'.steadySince = ledger.steadySince
           /\ ledger'.overlap = ledger.overlap
           /\ poll' = [poll EXCEPT ![h] = Idle]
           /\ UNCHANGED <<clock, spec, pending, nextFire, bmc, changes>>
<1>1. PICK outcome \in Successes :
        /\ poll[h] # Idle
        /\ Meets(h, outcome)
        /\ status' = MergeSuccess(status,
              build_success_status(poll[h].seen, outcome, poll[h].gen, poll[h].at))
        /\ ledger' = [ledger EXCEPT !.streak = 0, !.goodAt = poll[h].at,
                                    !.recorded = poll[h].gen]
        /\ poll' = [poll EXCEPT ![h] = Idle]
        /\ UNCHANGED <<clock, spec, pending, nextFire, bmc, changes>>
  BY Zenon DEF PollSucceeds
<1>2. /\ poll[h].at \in Int /\ poll[h].gen \in Int
      /\ poll[h].seen.conditions \in ConditionsType
  BY DEF TypeOK, PollType, StatusType
<1> DEFINE merged == merge_conditions(poll[h].seen.conditions, Desired(outcome), poll[h].at)
<1>3. merged \in ConditionsType /\ \A c \in Conditions : merged[c].status = "True"
  <2>1. \A c \in Conditions : Desired(outcome)[c] = "True"
    BY Zenon DEF Desired, Conditions, Successes
  <2> QED BY <1>2, <2>1, MergedConditions
<1> HIDE DEF merged
<1> DEFINE patch == [lastPolled |-> Stored(poll[h].at), failures |-> 0,
                     nextPollAfter |-> Never, readings |-> poll[h].gen,
                     firmware |-> IF outcome = "readings" THEN poll[h].gen ELSE Never,
                     conditions |-> merged]
<1>4. status' = [patch EXCEPT !.firmware = IF @ = Never THEN status.firmware ELSE @]
  BY <1>1 DEF MergeSuccess, build_success_status, merged
<1>5. /\ status' \in StatusType
      /\ status'.lastPolled = Stored(poll[h].at) /\ status'.failures = 0
      /\ status'.nextPollAfter = Never /\ status'.readings = poll[h].gen
      /\ status'.conditions = merged
  BY <1>2, <1>3, <1>4, StoredTime DEF TypeOK, StatusType, Never
<1>6. /\ ledger' \in LedgerType /\ ledger'.streak = 0 /\ ledger'.goodAt = poll[h].at
      /\ ledger'.failedAt = ledger.failedAt
      /\ ledger'.steadySince = ledger.steadySince
      /\ ledger'.overlap = ledger.overlap
  BY Zenon, <1>1, <1>2 DEF TypeOK, LedgerType
<1> QED BY <1>1, <1>3, <1>5, <1>6 DEF Polling, merged

\* A failed poll: what it leaves in the status.
LEMMA FailureStep ==
    ASSUME TypeOK, NEW h \in Handlers, PollFails(h)
    PROVE  /\ Polling(h)
           /\ \E outcome \in PollErrors : Meets(h, outcome)
           /\ status' \in StatusType /\ ledger' \in LedgerType
           /\ status'.lastPolled = status.lastPolled
           /\ status'.readings = status.readings
           /\ status'.failures = poll[h].seen.failures + 1
           /\ status'.nextPollAfter =
                Stored(poll[h].at + backoff_seconds(poll[h].seen.failures + 1))
           /\ status'.conditions["Ready"].status = "False"
           /\ \E outcome \in PollErrors : status'.conditions =
                merge_conditions(poll[h].seen.conditions, Desired(outcome), poll[h].at)
           /\ ledger'.streak = ledger.streak + 1 /\ ledger'.failedAt = poll[h].at
           /\ ledger'.goodAt = ledger.goodAt
           /\ ledger'.steadySince = ledger.steadySince
           /\ ledger'.overlap = ledger.overlap
           /\ poll' = [poll EXCEPT ![h] = Idle]
           /\ UNCHANGED <<clock, spec, pending, nextFire, bmc, changes>>
<1>1. PICK outcome \in PollErrors :
        /\ poll[h] # Idle
        /\ Meets(h, outcome)
        /\ status' = MergeError(status,
              build_error_status(poll[h].seen, outcome, poll[h].at))
        /\ ledger' = [ledger EXCEPT !.streak = @ + 1, !.failedAt = poll[h].at,
                                    !.recorded = poll[h].gen]
        /\ poll' = [poll EXCEPT ![h] = Idle]
        /\ UNCHANGED <<clock, spec, pending, nextFire, bmc, changes>>
  BY Zenon DEF PollFails
<1>2. /\ poll[h].at \in Int /\ poll[h].gen \in Int /\ poll[h].seen.failures \in Nat
      /\ poll[h].seen.conditions \in ConditionsType
  BY DEF TypeOK, PollType, StatusType
<1> DEFINE merged == merge_conditions(poll[h].seen.conditions, Desired(outcome), poll[h].at)
           again == Stored(poll[h].at + backoff_seconds(poll[h].seen.failures + 1))
<1>3. merged \in ConditionsType /\ merged["Ready"].status = "False"
  <2>1. "Ready" \in Conditions /\ Desired(outcome)["Ready"] = "False"
    BY Zenon DEF Desired, Conditions, Successes, PollErrors
  <2> QED BY <1>2, <2>1, MergedConditions
<1>4. again \in Int
  BY <1>2, BackoffBounds, StoredTime, Durations
<1>5. status' = [lastPolled |-> status.lastPolled, readings |-> status.readings,
                 firmware |-> status.firmware,
                 failures |-> poll[h].seen.failures + 1,
                 nextPollAfter |-> again, conditions |-> merged]
  BY <1>1 DEF MergeError, build_error_status
<1> HIDE DEF merged, again
<1>6. /\ status' \in StatusType
      /\ status'.lastPolled = status.lastPolled /\ status'.readings = status.readings
      /\ status'.failures = poll[h].seen.failures + 1
      /\ status'.nextPollAfter = again /\ status'.conditions = merged
  BY <1>2, <1>3, <1>4, <1>5 DEF TypeOK, StatusType
<1>7. /\ ledger' \in LedgerType /\ ledger'.streak = ledger.streak + 1
      /\ ledger'.failedAt = poll[h].at /\ ledger'.goodAt = ledger.goodAt
      /\ ledger'.steadySince = ledger.steadySince
      /\ ledger'.overlap = ledger.overlap
  <2>1. ledger.streak + 1 \in Nat
    BY DEF TypeOK, LedgerType
  <2> QED BY <1>1, <1>2, <2>1, Zenon DEF TypeOK, LedgerType
<1> QED BY <1>1, <1>3, <1>6, <1>7 DEF Polling, merged, again

\* A poll that raises leaves the status alone; the streak and its date move
\* only if it was the delay that raised.
LEMMA RaiseStep ==
    ASSUME TypeOK, NEW h \in Handlers, PollRaises(h)
    PROVE  /\ Polling(h)
           /\ \E outcome \in PollErrors \cup {"exception"} : Meets(h, outcome)
           /\ \/ UNCHANGED ledger
              \/ Overflows(poll[h].seen)
           /\ ledger' \in LedgerType
           /\ ledger'.goodAt = ledger.goodAt
           /\ ledger'.steadySince = ledger.steadySince
           /\ ledger'.overlap = ledger.overlap
           /\ pending' \in {"yes", "no"}
           /\ poll' = [poll EXCEPT ![h] = Idle]
           /\ UNCHANGED <<clock, spec, nextFire, status, bmc, changes>>
<1>1. /\ Polling(h) /\ pending' \in {"yes", "no"}
      /\ \E outcome \in PollErrors \cup {"exception"} : Meets(h, outcome)
      /\ poll' = [poll EXCEPT ![h] = Idle]
      /\ UNCHANGED <<clock, spec, nextFire, status, bmc, changes>>
  BY DEF PollRaises, Polling, TypeOK
<1>2. CASE Meets(h, "exception")
  BY <1>1, <1>2 DEF PollRaises, TypeOK, LedgerType
<1>3. CASE ~ Meets(h, "exception")
  <2>1. /\ Overflows(poll[h].seen)
        /\ ledger' = [ledger EXCEPT !.streak = @ + 1, !.failedAt = poll[h].at]
    BY <1>3 DEF PollRaises
  <2>2. poll[h].at \in Int /\ ledger.streak + 1 \in Nat
    BY DEF TypeOK, PollType, LedgerType
  <2>3. /\ ledger' \in LedgerType /\ ledger'.goodAt = ledger.goodAt
        /\ ledger'.steadySince = ledger.steadySince
        /\ ledger'.overlap = ledger.overlap
    BY <2>1, <2>2, Zenon DEF TypeOK, LedgerType
  <2> QED BY <1>1, <2>1, <2>3
<1> QED BY <1>2, <1>3

\* An edit and a change of health date themselves in the ledger.
LEMMA ChangeStep ==
    ASSUME TypeOK, EditSpec \/ \E outcome \in Health : HealthChanges(outcome)
    PROVE  /\ TypeOK'
           /\ ledger'.steadySince = clock
           /\ ledger'.goodAt = ledger.goodAt /\ ledger'.failedAt = ledger.failedAt
           /\ ledger'.streak = ledger.streak /\ ledger'.overlap = ledger.overlap
           /\ UNCHANGED <<clock, nextFire, status, poll>>
<1>1. ledger' = [ledger EXCEPT !.steadySince = clock] /\ UNCHANGED <<clock, nextFire, status, poll>>
  BY DEF EditSpec, HealthChanges
<1>2. /\ ledger' \in LedgerType /\ ledger'.steadySince = clock
      /\ ledger'.goodAt = ledger.goodAt /\ ledger'.failedAt = ledger.failedAt
      /\ ledger'.streak = ledger.streak /\ ledger'.overlap = ledger.overlap
  BY <1>1 DEF TypeOK, LedgerType
<1>3. spec' \in Nat /\ pending' \in {"yes", "no"} /\ bmc' \in Health /\ changes' \in Nat
  BY DEF EditSpec, HealthChanges, TypeOK
<1> QED BY <1>1, <1>2, <1>3 DEF TypeOK

\* The initial states are well typed.
LEMMA InitTypeOK == Init => TypeOK
<1> SUFFICES ASSUME Init PROVE TypeOK
  OBVIOUS
<1>1. Idle.seen \in StatusType
  BY IdleType DEF PollType
<1>2. poll \in [Handlers -> PollType]
  BY IdleType DEF Init
<1>3. ledger \in LedgerType
  BY DEF Init, LedgerType, Never
<1> QED BY <1>1, <1>2, <1>3 DEF Init, TypeOK

\* Every step keeps the state well typed.
LEMMA NextTypeOK == TypeOK /\ [Next]_vars => TypeOK'
<1> SUFFICES ASSUME TypeOK, [Next]_vars PROVE TypeOK'
  OBVIOUS
<1>1. CASE FireSkips
  BY <1>1, Durations DEF FireSkips, TypeOK
<1>2. CASE FirePolls
  <2>1. Begin("timer") /\ "timer" \in Handlers
    BY <1>2 DEF FirePolls, Handlers
  <2> QED BY <1>2, <2>1, BeginStep, Durations DEF FirePolls, TypeOK
<1>3. CASE ChangePolls
  <2>1. Begin("change") /\ "change" \in Handlers
    BY <1>3 DEF ChangePolls, Handlers
  <2> QED BY <1>3, <2>1, BeginStep DEF ChangePolls, TypeOK
<1>4. ASSUME NEW h \in Handlers, PollSucceeds(h) PROVE TypeOK'
  BY <1>4, SuccessStep, EndStep DEF TypeOK
<1>5. ASSUME NEW h \in Handlers, PollFails(h) PROVE TypeOK'
  BY <1>5, FailureStep, EndStep DEF TypeOK
<1>6. ASSUME NEW h \in Handlers, PollRaises(h) PROVE TypeOK'
  BY <1>6, RaiseStep, EndStep DEF TypeOK
<1>7. CASE EditSpec \/ \E outcome \in Health : HealthChanges(outcome)
  BY <1>7, ChangeStep
<1>8. CASE Tick
  BY <1>8 DEF Tick, TypeOK
<1>9. CASE UNCHANGED vars
  BY <1>9 DEF vars, TypeOK
<1> QED
  BY <1>1, <1>2, <1>3, <1>4, <1>5, <1>6, <1>7, <1>8, <1>9 DEF Next

-----------------------------------------------------------------------------
(* The invariants hold. *)

\* What the types say of the numbers.
LEMMA Numbers ==
    ASSUME TypeOK
    PROVE  /\ clock \in Nat /\ nextFire \in Nat /\ spec \in Nat
           /\ status.lastPolled \in Int /\ status.nextPollAfter \in Int
           /\ status.failures \in Nat
           /\ ledger.steadySince \in Nat /\ ledger.streak \in Nat
           /\ ledger.goodAt \in Int /\ ledger.failedAt \in Int
           /\ \A h \in Handlers : poll[h].at \in Int /\ poll[h].seen.failures \in Nat
BY DEF TypeOK, StatusType, LedgerType, PollType

\* The invariant of the times holds at the start.
LEMMA InitClock == Init => ClockInv
<1> SUFFICES ASSUME Init PROVE ClockInv
  OBVIOUS
<1>1. /\ clock = 0 /\ nextFire = 0 /\ ledger.steadySince = 0
      /\ status.lastPolled = -1 /\ status.nextPollAfter = -1
      /\ \A h \in Handlers : poll[h] = Idle
  BY Zenon DEF Init, Idle, Never
<1> QED BY <1>1, Durations DEF ClockInv, Polling

\* The invariant of the times is kept by every step.
LEMMA NextClock == TypeOK /\ ClockInv /\ [Next]_vars => ClockInv'
<1> SUFFICES ASSUME TypeOK, ClockInv, [Next]_vars PROVE ClockInv'
  OBVIOUS
<1>1. CASE FireSkips
  <2>1. nextFire' = clock + Base /\ UNCHANGED <<clock, status, poll, ledger>>
    BY <1>1 DEF FireSkips
  <2> QED BY <2>1, Numbers, Durations DEF ClockInv, Polling
<1>2. ASSUME NEW h \in Handlers, Begin(h), UNCHANGED <<clock, status>>,
             nextFire' \in {nextFire, clock + Base}
      PROVE  ClockInv'
  BY <1>2, BeginStep, Numbers, Durations DEF ClockInv, Polling
<1>3. CASE FirePolls
  BY <1>2, <1>3 DEF FirePolls, Handlers
<1>4. CASE ChangePolls
  BY <1>2, <1>4 DEF ChangePolls, Handlers
<1>5. ASSUME NEW h \in Handlers, PollSucceeds(h) PROVE ClockInv'
  <2>1. poll[h].at \in Nat /\ poll[h].at <= clock
    BY <1>5, SuccessStep DEF ClockInv
  <2>2. status'.lastPolled <= clock /\ status'.nextPollAfter = -1
    BY <1>5, <2>1, SuccessStep, StoredTime, Numbers DEF Never
  <2>3. UNCHANGED <<clock, nextFire>> /\ ledger'.steadySince = ledger.steadySince
    BY <1>5, SuccessStep
  <2>4. poll'[h] = Idle /\ \A g \in Handlers : g # h => poll'[g] = poll[g]
    BY <1>5, SuccessStep, EndStep
  <2> QED BY <2>2, <2>3, <2>4, Numbers, Durations DEF ClockInv, Polling
<1>6. ASSUME NEW h \in Handlers, PollFails(h) PROVE ClockInv'
  <2>1. poll[h].at \in Nat /\ poll[h].at <= clock /\ poll[h].seen.failures \in Nat
    BY <1>6, FailureStep, Numbers DEF ClockInv
  <2>2. backoff_seconds(poll[h].seen.failures + 1) \in 0 .. Cap
    BY <2>1, BackoffBounds
  <2>3. status'.lastPolled = status.lastPolled /\ status'.nextPollAfter <= clock + Cap
    BY <1>6, <2>1, <2>2, FailureStep, StoredTime, Numbers, Durations
  <2>4. UNCHANGED <<clock, nextFire>> /\ ledger'.steadySince = ledger.steadySince
    BY <1>6, FailureStep
  <2>5. poll'[h] = Idle /\ \A g \in Handlers : g # h => poll'[g] = poll[g]
    BY <1>6, FailureStep, EndStep
  <2> QED BY <2>3, <2>4, <2>5, Numbers DEF ClockInv, Polling
<1>7. ASSUME NEW h \in Handlers, PollRaises(h) PROVE ClockInv'
  <2>1. UNCHANGED <<clock, nextFire, status>> /\ ledger'.steadySince = ledger.steadySince
    BY <1>7, RaiseStep
  <2>2. poll'[h] = Idle /\ \A g \in Handlers : g # h => poll'[g] = poll[g]
    BY <1>7, RaiseStep, EndStep
  <2> QED BY <2>1, <2>2 DEF ClockInv, Polling
<1>8. CASE EditSpec \/ \E outcome \in Health : HealthChanges(outcome)
  BY <1>8, ChangeStep, Numbers DEF ClockInv, Polling
<1>9. CASE Tick
  <2>1. /\ clock' = clock + 1 /\ UNCHANGED <<nextFire, status, poll, ledger>>
        /\ \A h \in Handlers : poll[h] # Idle => clock < poll[h].at + MaxPoll
    BY <1>9 DEF Tick
  <2> QED BY <2>1, Numbers, Durations DEF ClockInv, Polling
<1>10. CASE UNCHANGED vars
  BY <1>10 DEF vars, ClockInv, Polling
<1> QED
  BY <1>1, <1>3, <1>4, <1>5, <1>6, <1>7, <1>8, <1>9, <1>10 DEF Next

\* That polls which have not overlapped work on the present status holds at the
\* start.
LEMMA InitAlone == Init => AloneInv
BY DEF Init, AloneInv, Polling

\* That polls which have not overlapped work on the present status is kept by
\* every step.
LEMMA NextAlone == TypeOK /\ AloneInv /\ [Next]_vars => AloneInv'
<1> SUFFICES ASSUME TypeOK, AloneInv, [Next]_vars, ledger'.overlap = "no"
             PROVE  \A h \in Handlers : poll'[h] # Idle =>
                        /\ poll'[h].seen = status'
                        /\ \A g \in Handlers : poll'[g] # Idle => g = h
  BY DEF AloneInv, Polling
<1>1. ASSUME NEW h \in Handlers, Begin(h), UNCHANGED status
      PROVE  \A k \in Handlers : poll'[k] # Idle =>
                 /\ poll'[k].seen = status'
                 /\ \A g \in Handlers : poll'[g] # Idle => g = k
  BY <1>1, BeginStep
<1>2. CASE FirePolls
  BY <1>1, <1>2 DEF FirePolls, Handlers
<1>3. CASE ChangePolls
  BY <1>1, <1>3 DEF ChangePolls, Handlers
<1>4. ASSUME NEW h \in Handlers, poll[h] # Idle, ledger.overlap = "no",
             poll' = [poll EXCEPT ![h] = Idle]
      PROVE  \A g \in Handlers : poll'[g] = Idle
  BY Zenon, <1>4, EndStep DEF AloneInv, Polling
<1>5. ASSUME NEW h \in Handlers, PollSucceeds(h) \/ PollFails(h) \/ PollRaises(h)
      PROVE  \A g \in Handlers : poll'[g] = Idle
  <2>1. /\ poll[h] # Idle /\ ledger'.overlap = ledger.overlap
        /\ poll' = [poll EXCEPT ![h] = Idle]
    BY <1>5, SuccessStep, FailureStep, RaiseStep DEF Polling
  <2> QED BY Zenon, <1>4, <2>1
<1>6. CASE FireSkips \/ Tick \/ UNCHANGED vars
  <2>1. UNCHANGED <<status, poll, ledger>>
    BY <1>6 DEF FireSkips, Tick, vars
  <2> QED BY <2>1 DEF AloneInv, Polling
<1>7. CASE EditSpec \/ \E outcome \in Health : HealthChanges(outcome)
  <2>1. UNCHANGED <<status, poll>> /\ ledger'.overlap = ledger.overlap
    BY <1>7, ChangeStep
  <2> QED BY <2>1 DEF AloneInv, Polling
<1> QED
  BY <1>2, <1>3, <1>5, <1>6, <1>7 DEF Next

\* That the status counts the failures holds at the start.
LEMMA InitCount == Init => CountInv
<1> SUFFICES ASSUME Init PROVE CountInv
  OBVIOUS
<1>1. status.failures = 0 /\ ledger.streak = 0 /\ ledger.goodAt = Never
  BY Zenon DEF Init, Idle
<1> QED BY <1>1 DEF CountInv

\* That the status counts the failures is kept by every step.
LEMMA NextCount ==
    TypeOK /\ ClockInv /\ AloneInv /\ CountInv /\ [Next]_vars => CountInv'
<1> SUFFICES ASSUME TypeOK, ClockInv, AloneInv, CountInv, [Next]_vars,
                    ledger'.overlap = "no"
             PROVE  CountInv'
  BY DEF CountInv
<1>1. ASSUME ledger.overlap = "no", UNCHANGED status, ledger'.streak = ledger.streak,
             ledger'.failedAt = ledger.failedAt, ledger'.goodAt = ledger.goodAt
      PROVE  CountInv'
  BY <1>1 DEF CountInv, DelaysFit
<1>2. CASE FirePolls
  BY <1>1, <1>2, BeginStep DEF FirePolls, Handlers
<1>3. CASE ChangePolls
  BY <1>1, <1>3, BeginStep DEF ChangePolls, Handlers
<1>4. ASSUME NEW h \in Handlers, PollSucceeds(h) PROVE CountInv'
  <2>1. /\ ledger'.streak = 0 /\ status'.failures = 0
        /\ ledger'.goodAt = poll[h].at /\ status'.lastPolled = Stored(poll[h].at)
    BY <1>4, SuccessStep
  <2>2. poll[h].at \in Nat
    BY <1>4, SuccessStep DEF ClockInv
  <2> QED BY <2>1, <2>2 DEF CountInv
<1>5. ASSUME NEW h \in Handlers, PollFails(h) PROVE CountInv'
  <2>1. /\ ledger.overlap = "no" /\ poll[h].seen = status
        /\ poll[h].at \in Nat
    BY <1>5, FailureStep DEF ClockInv, AloneInv
  <2>2. /\ ledger'.streak = ledger.streak + 1 /\ ledger'.failedAt = poll[h].at
        /\ ledger'.goodAt = ledger.goodAt /\ status'.lastPolled = status.lastPolled
        /\ status'.failures = status.failures + 1
        /\ status'.nextPollAfter = Stored(poll[h].at + backoff_seconds(status.failures + 1))
    BY <1>5, <2>1, FailureStep
  <2>3. DelaysFit' => status.failures = ledger.streak
    BY <2>1, <2>2, Numbers, Durations DEF CountInv, DelaysFit
  <2> QED BY <2>1, <2>2, <2>3 DEF CountInv
<1>6. ASSUME NEW h \in Handlers, PollRaises(h) PROVE CountInv'
  <2>1. /\ ledger.overlap = "no" /\ poll[h].seen = status
        /\ UNCHANGED status /\ ledger'.goodAt = ledger.goodAt
    BY <1>6, RaiseStep DEF AloneInv
  <2>2. CASE UNCHANGED ledger
    BY <1>1, <2>1, <2>2
  <2>3. CASE ~ UNCHANGED ledger
    <3>1. Overflows(status) /\ ledger'.streak = ledger.streak + 1
      BY <1>6, <2>1, <2>3 DEF PollRaises, TypeOK, LedgerType
    <3>2. ~ DelaysFit'
      BY <2>1, <3>1, Numbers, Durations DEF CountInv, DelaysFit, Overflows
    <3> QED BY <2>1, <3>2 DEF CountInv
  <2> QED BY <2>2, <2>3
<1>7. CASE EditSpec \/ \E outcome \in Health : HealthChanges(outcome)
  BY <1>1, <1>7, ChangeStep
<1>8. CASE FireSkips \/ Tick \/ UNCHANGED vars
  <2>1. UNCHANGED <<status, ledger>>
    BY <1>8 DEF FireSkips, Tick, vars
  <2> QED BY <1>1, <2>1
<1> QED
  BY <1>2, <1>3, <1>4, <1>5, <1>6, <1>7, <1>8 DEF Next

\* The invariant of the recovery holds at the start.
LEMMA InitRecovery == Init => RecoveryInv
<1> SUFFICES ASSUME Init PROVE RecoveryInv
  OBVIOUS
<1>1. /\ clock = 0 /\ nextFire = 0 /\ ledger.steadySince = 0
      /\ status.lastPolled = -1 /\ status.nextPollAfter = -1
      /\ \A h \in Handlers : poll[h] = Idle
  BY Zenon DEF Init, Idle, Never
<1> QED BY <1>1, Durations DEF RecoveryInv, Polling, Latest, Larger

\* A poll from before the last change ends in time for the timer to begin the
\* one that recovers.
LEMMA OldPoll ==
    ASSUME TypeOK, ClockInv, RecoveryInv, NEW h \in Handlers, Polling(h), ~ Current(h)
    PROVE  /\ poll[h].at \in Nat /\ poll[h].at <= ledger.steadySince
           /\ clock <= ledger.steadySince + MaxPoll
           /\ nextFire <= Latest /\ clock <= Latest
<1>1. /\ poll[h].at \in Nat /\ poll[h].at <= ledger.steadySince
      /\ clock <= poll[h].at + MaxPoll /\ nextFire <= clock + Base
  BY DEF ClockInv, RecoveryInv
<1>2. Larger(Cap, Interval) \in Nat
  BY Durations DEF Larger
<1> QED BY <1>1, <1>2, Numbers, Durations DEF Latest

\* A poll of the present BMC finds what the BMC is now.
LEMMA CurrentPoll ==
    ASSUME NEW h \in Handlers, Current(h), bmc \in Successes,
           NEW outcome \in PollErrors \cup {"exception"}
    PROVE  ~ Meets(h, outcome)
BY Zenon DEF Current, Meets, Successes, PollErrors

\* The invariant of the recovery is kept by every step.
LEMMA NextRecovery == TypeOK /\ ClockInv /\ RecoveryInv /\ [Next]_vars => RecoveryInv'
<1> SUFFICES ASSUME TypeOK, ClockInv, RecoveryInv, [Next]_vars PROVE RecoveryInv'
  OBVIOUS
<1>0. /\ Larger(Cap, Interval) \in Nat
      /\ Cap <= Larger(Cap, Interval) /\ Interval <= Larger(Cap, Interval)
  BY Durations DEF Larger
<1>1. CASE FireSkips
  <2>1. /\ nextFire' = clock + Base /\ ~ poll_due(status, clock)
        /\ UNCHANGED <<clock, spec, status, poll, bmc, ledger>>
    BY <1>1 DEF FireSkips
  <2>2. ASSUME bmc \in Successes, ~ Shown
        PROVE  clock <= ledger.steadySince + MaxPoll + Larger(Cap, Interval)
    BY <1>0, <2>1, <2>2, Numbers, Durations
       DEF RecoveryInv, poll_due, POLL_DUE_TOLERANCE
  <2>3. bmc \in Successes /\ ~ Shown => nextFire' <= Latest /\ clock <= Latest
    BY <1>0, <2>1, <2>2, Numbers, Durations DEF Latest
  <2> QED BY <2>1, <2>3 DEF RecoveryInv, Polling, Current, Shown, Latest
<1>2. ASSUME NEW h \in Handlers, Free(h), Begin(h), UNCHANGED <<clock, spec, status, bmc>>
      PROVE  RecoveryInv'
  <2>1. /\ poll'[h] # Idle /\ poll'[h].at = clock
        /\ poll'[h].gen = spec /\ poll'[h].health = bmc
        /\ \A g \in Handlers : g # h => poll'[g] = poll[g]
        /\ ledger'.steadySince = ledger.steadySince
    BY <1>2, BeginStep
  <2>2. Current(h)' /\ \A g \in Handlers : Current(g) => Current(g)' /\ poll'[g] = poll[g]
    BY <1>2, <2>1 DEF Current, Polling, Free
  <2>3. \A g \in Handlers : Polling(g)' /\ ~ Current(g)' =>
            Polling(g) /\ ~ Current(g) /\ poll'[g] = poll[g]
    BY <1>2, <2>1, <2>2 DEF Current, Polling
  <2>4. Latest' = Latest /\ (Shown' <=> Shown)
    BY <1>2, <2>1 DEF Latest, Shown
  <2> QED BY <1>2, <2>1, <2>2, <2>3, <2>4 DEF RecoveryInv
<1>3. CASE FirePolls
  BY <1>2, <1>3 DEF FirePolls, Handlers
<1>4. CASE ChangePolls
  BY <1>2, <1>4 DEF ChangePolls, Handlers
<1>5. ASSUME NEW h \in Handlers, Polling(h), poll' = [poll EXCEPT ![h] = Idle],
             UNCHANGED <<clock, spec, nextFire, bmc>>,
             ledger'.steadySince = ledger.steadySince,
             bmc \in Successes /\ ~ Shown' =>
                 /\ ~ Current(h)
                 /\ status'.nextPollAfter <= ledger.steadySince + Cap
                 /\ status'.lastPolled <= ledger.steadySince + MaxPoll
      PROVE  RecoveryInv'
  <2>1. poll'[h] = Idle /\ \A g \in Handlers : g # h => poll'[g] = poll[g]
    BY Zenon, <1>5, EndStep
  <2>2. \A g \in Handlers : Polling(g)' /\ ~ Current(g)' =>
            Polling(g) /\ ~ Current(g) /\ poll'[g] = poll[g]
    BY <1>5, <2>1 DEF Current, Polling
  <2>3. ASSUME bmc' \in Successes, ~ Shown'
        PROVE  nextFire' <= Latest' /\ clock' <= Latest'
    <3>1. Latest' = Latest
      BY <1>5 DEF Latest
    <3> QED BY <1>5, <2>3, <3>1, OldPoll
  <2> QED BY <1>5, <2>2, <2>3 DEF RecoveryInv
<1>6. ASSUME NEW h \in Handlers, PollSucceeds(h) PROVE RecoveryInv'
  <2>1. /\ Polling(h) /\ poll' = [poll EXCEPT ![h] = Idle]
        /\ UNCHANGED <<clock, spec, nextFire, bmc>>
        /\ ledger'.steadySince = ledger.steadySince
        /\ status'.lastPolled = Stored(poll[h].at) /\ status'.nextPollAfter = -1
        /\ status'.readings = poll[h].gen
        /\ status'.conditions["Ready"].status = "True"
    BY <1>6, SuccessStep DEF Never, Conditions
  <2>2. Current(h) => Shown'
    BY <2>1 DEF Current, Shown
  <2>3. ~ Current(h) => status'.lastPolled <= ledger.steadySince + MaxPoll
    BY <2>1, OldPoll, StoredTime, Numbers, Durations
  <2>4. status'.nextPollAfter <= ledger.steadySince + Cap
    BY <2>1, Numbers, Durations
  <2> QED BY Zenon, <1>5, <2>1, <2>2, <2>3, <2>4
<1>7. ASSUME NEW h \in Handlers, PollFails(h) PROVE RecoveryInv'
  <2>1. /\ Polling(h) /\ poll' = [poll EXCEPT ![h] = Idle]
        /\ UNCHANGED <<clock, spec, nextFire, bmc>>
        /\ ledger'.steadySince = ledger.steadySince
        /\ status'.lastPolled = status.lastPolled
        /\ status'.nextPollAfter =
             Stored(poll[h].at + backoff_seconds(poll[h].seen.failures + 1))
    BY <1>7, FailureStep
  <2>2. bmc \in Successes => ~ Current(h)
    BY <1>7, FailureStep, CurrentPoll
  <2>3. ASSUME ~ Current(h)
        PROVE  status'.nextPollAfter <= ledger.steadySince + Cap
    <3>1. backoff_seconds(poll[h].seen.failures + 1) \in 0 .. Cap
      BY Numbers, BackoffBounds
    <3>2. poll[h].at \in Nat /\ poll[h].at <= ledger.steadySince
      BY <2>1, <2>3, OldPoll
    <3> QED BY <2>1, <3>1, <3>2, StoredTime, Numbers, Durations
  <2>4. ASSUME ~ Current(h)
        PROVE  status'.lastPolled <= ledger.steadySince + MaxPoll
    <3>1. clock <= ledger.steadySince + MaxPoll /\ status.lastPolled <= clock
      BY <2>1, <2>4, OldPoll DEF ClockInv
    <3> QED BY <2>1, <3>1, Numbers, Durations
  <2> QED BY Zenon, <1>5, <2>1, <2>2, <2>3, <2>4
<1>8. ASSUME NEW h \in Handlers, PollRaises(h) PROVE RecoveryInv'
  <2>1. /\ Polling(h) /\ poll' = [poll EXCEPT ![h] = Idle]
        /\ UNCHANGED <<clock, spec, nextFire, bmc, status>>
        /\ ledger'.steadySince = ledger.steadySince
    BY <1>8, RaiseStep
  <2>2. bmc \in Successes => ~ Current(h)
    BY <1>8, RaiseStep, CurrentPoll
  <2>3. bmc \in Successes /\ ~ Shown' =>
            /\ status'.nextPollAfter <= ledger.steadySince + Cap
            /\ status'.lastPolled <= ledger.steadySince + MaxPoll
    BY <2>1 DEF RecoveryInv, Shown
  <2> QED BY Zenon, <1>5, <2>1, <2>2, <2>3
<1>9. CASE EditSpec \/ \E outcome \in Health : HealthChanges(outcome)
  <2>1. ledger'.steadySince = clock /\ UNCHANGED <<clock, nextFire, status, poll>>
    BY <1>9, ChangeStep
  <2>2. nextFire <= Latest' /\ clock <= Latest'
    BY <1>0, <2>1, Numbers, Durations DEF Latest, ClockInv
  <2> QED BY <2>1, <2>2, Numbers, Durations DEF RecoveryInv, ClockInv, Polling
<1>10. CASE Tick
  <2>1. /\ clock' = clock + 1
        /\ UNCHANGED <<spec, nextFire, status, poll, bmc, ledger>>
        /\ Free("timer") => ~ (clock >= nextFire)
        /\ poll["timer"] # Idle => clock < poll["timer"].at + MaxPoll
        /\ "timer" \in Handlers
    BY <1>10 DEF Tick, Handlers
  <2>2. ASSUME nextFire <= Latest, clock <= Latest, ~ Current("timer")
        PROVE  clock + 1 <= Latest
    <3>1. CASE Free("timer")
      BY <1>0, <2>1, <2>2, <3>1, Numbers, Durations DEF Latest
    <3>2. CASE ~ Free("timer")
      <4>1. poll["timer"].at \in Nat /\ poll["timer"].at <= ledger.steadySince
        BY <2>1, <2>2, <3>2, OldPoll DEF Free, Polling
      <4> QED BY <1>0, <2>1, <3>2, <4>1, Numbers, Durations DEF Free, Latest
    <3> QED BY <3>1, <3>2
  <2>3. ASSUME clock <= Latest, Current("timer")
        PROVE  poll["timer"].at <= Latest
    <3>1. poll["timer"].at \in Nat /\ poll["timer"].at <= clock
      BY <2>1, <2>3 DEF ClockInv, Current
    <3> QED BY <1>0, <2>3, <3>1, Numbers, Durations DEF Latest
  <2> QED BY <2>1, <2>2, <2>3 DEF RecoveryInv, Polling, Current, Shown, Latest
<1>11. CASE UNCHANGED vars
  BY <1>11 DEF vars, RecoveryInv, Polling, Current, Shown, Latest
<1> QED
  BY <1>1, <1>3, <1>4, <1>6, <1>7, <1>8, <1>9, <1>10, <1>11 DEF Next

-----------------------------------------------------------------------------
(* The theorems. *)

Inv == TypeOK /\ ClockInv /\ AloneInv /\ CountInv /\ RecoveryInv

\* The controller keeps its inductive invariant: well-typed state, times that the
\* cadence and the cap bound, statuses that count the failures, and a poll that
\* recovers within reach.
THEOREM PollInvariant == Spec => []Inv
<1>1. Init => Inv
  BY InitTypeOK, InitClock, InitAlone, InitCount, InitRecovery DEF Inv
<1>2. Inv /\ [Next]_vars => Inv'
  BY NextTypeOK, NextClock, NextAlone, NextCount, NextRecovery DEF Inv
<1> QED BY <1>1, <1>2, PTL DEF Spec

\* The status tells one story however polls overlap: build_success_status and
\* build_error_status each write all of Ready, the count and the deadline, and
\* the deadline of a failed poll is never taken for none.
THEOREM StatusTellsOneStory == Spec => []ReadyAgrees
<1>1. Init => ReadyAgrees
  <2>1. Idle.seen.conditions = [c \in Conditions |-> [status |-> "", since |-> Never]]
    BY Zenon DEF Idle
  <2>2. Idle.seen.conditions["Ready"].status = ""
    <3>1. "Ready" \in Conditions
      BY DEF Conditions
    <3> DEFINE none == ""
    <3>2. Idle.seen.conditions["Ready"] = [status |-> none, since |-> Never]
      BY <2>1, <3>1, Zenon
    <3> HIDE DEF none
    <3>3. Idle.seen.conditions["Ready"].status = none
      BY <3>2
    <3> QED BY <3>3, Zenon DEF none
  <2>3. Init => status.conditions["Ready"].status = ""
    BY Zenon, <2>2 DEF Init
  <2> QED BY Zenon, <2>3 DEF ReadyAgrees
<1>2. Inv /\ ReadyAgrees /\ [Next]_vars => ReadyAgrees'
  <2> SUFFICES ASSUME Inv, ReadyAgrees, [Next]_vars PROVE ReadyAgrees'
    BY SMTT(30)
  <2> USE DEF Inv
  <2>1. ASSUME NEW h \in Handlers, PollSucceeds(h) PROVE ReadyAgrees'
    BY Zenon, <2>1, SuccessStep DEF ReadyAgrees, Conditions
  <2>2. ASSUME NEW h \in Handlers, PollFails(h) PROVE ReadyAgrees'
    <3>1. poll[h].at \in Nat /\ poll[h].seen.failures \in Nat
      BY <2>2, FailureStep, Numbers DEF ClockInv
    <3>2. backoff_seconds(poll[h].seen.failures + 1) \in 0 .. Cap
      BY <3>1, BackoffBounds
    <3>3. poll[h].at + backoff_seconds(poll[h].seen.failures + 1) \in Nat
      BY <3>1, <3>2, Durations
    <3>4. status'.nextPollAfter \in Nat
      BY <2>2, <3>3, FailureStep, StoredNat
    <3>5. status'.nextPollAfter # Never
      BY <3>4 DEF Never
    <3>6. status'.failures # 0
      BY <2>2, <3>1, FailureStep
    <3>7. status'.conditions["Ready"].status = "False" /\ "Ready" \in Conditions
      BY <2>2, FailureStep DEF Conditions
    <3> QED BY Zenon, <3>5, <3>6, <3>7 DEF ReadyAgrees
  <2>3. CASE UNCHANGED status
    BY Zenon, <2>3 DEF ReadyAgrees
  <2>4. \/ UNCHANGED status
        \/ \E h \in Handlers : PollSucceeds(h) \/ PollFails(h)
    BY Zenon DEF Next, FireSkips, FirePolls, ChangePolls, PollRaises, EditSpec,
           HealthChanges, Tick, vars
  <2> QED BY <2>1, <2>2, <2>3, <2>4
<1> QED BY <1>1, <1>2, PollInvariant, PTL DEF Spec

\* After the last edit and the last change of health an answering BMC is shown
\* within the longest wait of poll_due, one firing and two polls, whatever the
\* cadence, the interval and the cap, and however polls overlap or raise.
THEOREM RecoveryIsBounded == Spec => []RecoversInTime
<1>1. Inv => RecoversInTime
  <2> SUFFICES ASSUME Inv, bmc \in Successes, clock > ledger.steadySince + Lag, ~ Shown
               PROVE  FALSE
    BY DEF RecoversInTime, Shown
  <2>1. Larger(Cap, Interval) \in Nat
    BY Durations DEF Larger
  <2>2. clock > Latest + MaxPoll
    BY <2>1, Numbers, Durations DEF Inv, Lag, Latest
  <2>3. ASSUME NEW h \in Handlers, Current(h), poll[h].at <= Latest PROVE FALSE
    <3>1. poll[h].at \in Nat /\ clock <= poll[h].at + MaxPoll
      BY <2>3 DEF Inv, ClockInv, Current
    <3> QED BY <2>1, <2>2, <2>3, <3>1, Numbers, Durations DEF Inv, Latest
  <2>4. ~ (clock <= Latest)
    BY <2>1, <2>2, Numbers, Durations DEF Inv, Latest
  <2> QED BY <2>3, <2>4 DEF Inv, RecoveryInv
<1> QED BY <1>1, PollInvariant, PTL

\* Without overlapping polls a condition's time moves exactly when its status
\* does, to the poll that found it (_merge_conditions).
THEOREM ConditionTimes == Spec => TransitionTimesAreReal
<1> DEFINE Real == ledger.overlap = "no" => \A c \in Conditions :
                     LET old == status.conditions[c]
                         new == status'.conditions[c]
                     IN  IF new.status = old.status THEN new.since = old.since
                         ELSE new.since > clock - MaxPoll - TicksPerSecond
<1>1. Inv /\ [Next]_vars => Real
  <2> SUFFICES ASSUME Inv, [Next]_vars, ledger.overlap = "no", NEW c \in Conditions
               PROVE  IF status'.conditions[c].status = status.conditions[c].status
                      THEN status'.conditions[c].since = status.conditions[c].since
                      ELSE status'.conditions[c].since > clock - MaxPoll - TicksPerSecond
    OBVIOUS
  <2>1. CASE UNCHANGED status
    BY <2>1
  <2>2. ASSUME NEW h \in Handlers, PollSucceeds(h) \/ PollFails(h)
        PROVE  IF status'.conditions[c].status = status.conditions[c].status
               THEN status'.conditions[c].since = status.conditions[c].since
               ELSE status'.conditions[c].since > clock - MaxPoll - TicksPerSecond
    <3>1. Polling(h) /\ \E outcome : status'.conditions =
              merge_conditions(poll[h].seen.conditions, Desired(outcome), poll[h].at)
      BY Zenon, <2>2, SuccessStep, FailureStep DEF Inv
    <3>2. PICK outcome : status'.conditions =
              merge_conditions(status.conditions, Desired(outcome), poll[h].at)
      BY <3>1 DEF Inv, AloneInv
    <3>3. poll[h].at \in Nat /\ clock <= poll[h].at + MaxPoll
      BY <3>1 DEF Inv, ClockInv
    <3>4. Stored(poll[h].at) > clock - MaxPoll - TicksPerSecond
      BY <3>3, StoredTime, Numbers, Durations DEF Inv
    <3>5. status'.conditions[c] =
              IF status.conditions[c].status = Desired(outcome)[c]
              THEN status.conditions[c]
              ELSE [status |-> Desired(outcome)[c], since |-> Stored(poll[h].at)]
      BY SMTT(30), <3>2 DEF merge_conditions
    <3> QED BY SMTT(30), <3>4, <3>5
  <2>3. \/ UNCHANGED status
        \/ \E h \in Handlers : PollSucceeds(h) \/ PollFails(h)
    BY Zenon DEF Next, FireSkips, FirePolls, ChangePolls, PollRaises, EditSpec,
           HealthChanges, Tick, vars
  <2> QED BY <2>1, <2>2, <2>3
<1> QED BY <1>1, PollInvariant, PTL DEF Spec, TransitionTimesAreReal

\* Without overlapping polls, and as long as no delay overflows, the timer
\* leaves a failing BMC alone for the backoff of its failures in a row and an
\* answering one for the interval (poll_due).
THEOREM TimerWaits == Spec /\ []DelaysFit => TimerKeepsItsDistance
<1> DEFINE Waits == FirePolls /\ ledger.overlap = "no" =>
              /\ ledger.streak > 0 =>
                   clock > ledger.failedAt + backoff_seconds(ledger.streak) - TicksPerSecond
              /\ ledger.goodAt # Never =>
                   clock > ledger.goodAt + Interval - POLL_DUE_TOLERANCE - TicksPerSecond
<1>1. Inv /\ DelaysFit => Waits
  <2> SUFFICES ASSUME Inv, DelaysFit, FirePolls, ledger.overlap = "no" PROVE Waits
    OBVIOUS
  <2>1. poll_due(status, clock)
    BY DEF FirePolls
  <2>2. ASSUME ledger.streak > 0
        PROVE  clock > ledger.failedAt + backoff_seconds(ledger.streak) - TicksPerSecond
    <3>1. ledger.failedAt \in Nat /\ status.nextPollAfter =
              Stored(ledger.failedAt + backoff_seconds(ledger.streak))
      BY <2>2 DEF Inv, CountInv
    <3>2. backoff_seconds(ledger.streak) \in 0 .. Cap
      <4>1. ledger.streak - 1 \in Nat /\ (ledger.streak - 1) + 1 = ledger.streak
        BY <2>2, Numbers DEF Inv
      <4> QED BY <4>1, BackoffBounds
    <3>3. ledger.failedAt + backoff_seconds(ledger.streak) \in Nat
      BY <3>1, <3>2, Durations
    <3>4. status.nextPollAfter \in Nat /\ status.nextPollAfter >
              ledger.failedAt + backoff_seconds(ledger.streak) - TicksPerSecond
      <4> DEFINE t == ledger.failedAt + backoff_seconds(ledger.streak)
      <4>1. t \in Nat /\ t \in Int /\ status.nextPollAfter = Stored(t)
        BY <3>1, <3>3
      <4> HIDE DEF t
      <4>2. status.nextPollAfter \in Nat /\ status.nextPollAfter > t - TicksPerSecond
        BY <4>1, StoredNat, StoredTime
      <4> QED BY <4>1, <4>2, <3>1, <3>2, Durations DEF t
    <3>5. clock >= status.nextPollAfter
      BY <2>1, <3>4 DEF poll_due, Never
    <3> QED BY <3>2, <3>1, <3>4, <3>5, Numbers, Durations DEF Inv
  <2>3. ASSUME ledger.goodAt # Never
        PROVE  clock > ledger.goodAt + Interval - POLL_DUE_TOLERANCE - TicksPerSecond
    <3>1. ledger.goodAt \in Nat /\ status.lastPolled = Stored(ledger.goodAt)
      BY <2>3 DEF Inv, CountInv
    <3>2. status.lastPolled \in Nat /\ status.lastPolled > ledger.goodAt - TicksPerSecond
      BY <3>1, StoredNat, StoredTime
    <3>3. clock - status.lastPolled + POLL_DUE_TOLERANCE >= Interval
      BY <2>1, <3>2 DEF poll_due, Never
    <3> QED BY <3>1, <3>2, <3>3, Numbers, Durations DEF Inv, POLL_DUE_TOLERANCE
  <2> QED BY <2>2, <2>3
<1>2. Inv /\ DelaysFit /\ [Next]_vars => [Waits]_vars
  BY <1>1
<1> QED BY <1>2, PollInvariant, PTL DEF Spec, TimerKeepsItsDistance

=============================================================================
