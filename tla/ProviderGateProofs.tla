------------------------- MODULE ProviderGateProofs -------------------------
(***************************************************************************)
(* Proofs about ProviderGate: its type invariant and its safety            *)
(* invariants, for any callers, limits, cooldowns and retry settings.      *)
(***************************************************************************)
EXTENDS ProviderGate, FiniteSetTheorems, TLAPS

\* What a refused caller was told is never more than what is left of the cooldown: throttled()
\* only ever stretches a running cooldown.
ToldBounded == \A c \in Callers : told[c] <= cool

-----------------------------------------------------------------------------
(***************************************************************************)
(* What the helpers do.                                                    *)
(***************************************************************************)

\* Every length throttled() may choose for a cooldown is a natural number.
LEMMA CooldownNat ==
    ASSUME NEW n \in Nat, NEW asked \in Nat
    PROVE  CooldownFor(n, asked) \subseteq Nat
<1>1. MaxCooldown \in Nat
    BY GateAssumption
<1>2. SUFFICES ASSUME NEW low, NEW high, NEW b \in low .. high
               PROVE  Smaller(Larger(asked, b), MaxCooldown) \in Nat
    BY DEF CooldownFor
<1>3. b \in Int
    OBVIOUS
<1> QED
    BY <1>1, <1>3 DEF Smaller, Larger

\* throttled() never shortens a cooldown, nor lets more requests in.
LEMMA ThrottledFacts ==
    ASSUME TypeOK, NEW asked \in Nat, ThrottledBy(asked)
    PROVE  /\ cool' \in Nat /\ cool' >= cool
           /\ strikes' \in Nat /\ since' \in Nat /\ successes' \in Nat /\ allowed' \in Nat
           /\ allowed \in 1 .. limit => allowed' \in 1 .. allowed
<1> USE DEF TypeOK
<1>1. MaxCooldown \in Nat
    BY GateAssumption
<1>2. CASE cool = 0
    <2>1. /\ strikes' = strikes + 1 /\ since' = since + 1
          /\ allowed' = Halved(allowed) /\ successes' = 0
          /\ cool' \in CooldownFor(strikes + 1, asked)
        BY <1>2 DEF ThrottledBy
    <2>2. cool' \in Nat
        BY <2>1, CooldownNat
    <2> QED
        BY <1>2, <2>1, <2>2 DEF Halved, Larger
<1>3. CASE cool > 0
    <2>1. /\ cool' = IF asked > 0 THEN Stretched(asked) ELSE cool
          /\ UNCHANGED <<strikes, since, allowed, successes>>
        BY <1>3 DEF ThrottledBy
    <2> QED
        BY <1>1, <2>1 DEF Stretched, Larger, Smaller
<1> QED
    BY <1>2, <1>3

\* notify_all puts no waiter to sleep and no request on the wire.
LEMMA NotifiedFacts ==
    ASSUME TypeOK, NEW c \in Callers, NEW place \in Places, Notified(c, place)
    PROVE  /\ at' \in [Callers -> Places] /\ timer' \in [Callers -> Nat]
           /\ at'[c] = place
           /\ \A d \in Callers \ {c} : at'[d] = "sending" <=> at[d] = "sending"
           /\ \A d \in Callers \ {c} : at'[d] \notin {"asleep", "dozing"}
    BY DEF TypeOK, Notified, Woken, Places, Ends

LEMMA SilentFacts ==
    ASSUME TypeOK, NEW c \in Callers, NEW place \in Places, Silent(c, place)
    PROVE  /\ at' \in [Callers -> Places] /\ timer' = timer
           /\ at'[c] = place
           /\ \A d \in Callers \ {c} : at'[d] = at[d]
    BY DEF TypeOK, Silent

\* A request on the wire is one of those the gate counts.
LEMMA SendingFinite == IsFiniteSet(Sending) /\ Cardinality(Sending) \in Nat
    BY FS_Subset, FS_CardinalityType, GateAssumption DEF Sending

LEMMA SendingCounted ==
    ASSUME TypeOK, CapacityRespected, NEW c \in Callers, at[c] = "sending"
    PROVE  inFlight - 1 \in Nat
<1>1. c \in Sending
    BY DEF Sending
<1>2. Cardinality(Sending) # 0
    BY <1>1, SendingFinite, FS_EmptySet
<1> QED
    BY <1>2, SendingFinite DEF CapacityRespected

-----------------------------------------------------------------------------
(***************************************************************************)
(* Type correctness.  It needs the count of the requests on the wire: the  *)
(* counter is only ever decremented by a request it counts.                *)
(***************************************************************************)
LEMMA TypeInit == Init => TypeOK
<1> SUFFICES ASSUME Init PROVE TypeOK
    OBVIOUS
<1>1. service \in {"llm", "youtube"} /\ limit \in Limits /\ limit \in Nat
    BY GateAssumption DEF Init
<1> QED
    BY <1>1 DEF Init, TypeOK, Places

\* Every step keeps the state well formed.
LEMMA TypeInductive == TypeOK /\ CapacityRespected /\ [Next]_vars => TypeOK'
<1> SUFFICES ASSUME TypeOK, CapacityRespected, [Next]_vars PROVE TypeOK'
    OBVIOUS
<1>0. limit \in Nat \ {0} /\ Limits \subseteq Nat \ {0} /\ Interval \in Nat
    BY GateAssumption DEF TypeOK
<1>1. ASSUME NEW c \in Callers, Ask(c) PROVE TypeOK'
    BY <1>1, SilentFacts DEF Ask, TypeOK, gateVars, Places
<1>2. ASSUME NEW c \in Callers, Enter(c) PROVE TypeOK'
    BY <1>0, <1>2, SilentFacts DEF Enter, TypeOK, Places
<1>3. ASSUME NEW c \in Callers, Wait(c) PROVE TypeOK'
    <2>1. Delay \in Nat
        BY DEF Delay, Larger, TypeOK
    <2> QED
        BY <1>3, <2>1 DEF Wait, TypeOK, gateVars, Places
<1>4. ASSUME NEW c \in Callers, Wake(c) PROVE TypeOK'
    BY <1>4, SilentFacts DEF Wake, TypeOK, gateVars, Places
<1>5. ASSUME NEW c \in Callers, Answer(c) PROVE TypeOK'
    <2>1. PICK answer \in {"ok", "refused", "failed"} : Release(c, answer)
        BY <1>5 DEF Answer
    <2>2. at' \in [Callers -> Places] /\ timer' \in [Callers -> Nat]
        BY <2>1, NotifiedFacts DEF Release, Places
    <2>3. inFlight' \in Nat /\ peak' \in Nat
        BY <1>0, <2>1, SendingCounted DEF Release, TypeOK
    <2> QED
        BY <1>5, <2>2, <2>3 DEF Answer, TypeOK
<1>6. ASSUME NEW c \in Callers, Succeed(c) PROVE TypeOK'
    <2>1. at' \in [Callers -> Places] /\ timer' \in [Callers -> Nat]
        <3>1. Notified(c, "done") \/ Silent(c, "done")
            BY <1>6 DEF Succeed, Recovery
        <3> QED
            BY <3>1, NotifiedFacts, SilentFacts DEF Places, Ends, TypeOK
    <2>2. strikes' \in Nat /\ allowed' \in Nat /\ successes' \in Nat
        BY <1>6 DEF Succeed, Recovery, TypeOK
    <2> QED
        BY <1>6, <2>1, <2>2 DEF Succeed, TypeOK
<1>7. ASSUME NEW c \in Callers, Retry(c) PROVE TypeOK'
    <2>1. PICK asked \in RetryAfters : ThrottledBy(asked)
        BY <1>7 DEF Retry
    <2>2. asked \in Nat
        BY GateAssumption
    <2>3. at' \in [Callers -> Places] /\ timer' \in [Callers -> Nat]
        BY <1>7, NotifiedFacts DEF Retry, Places
    <2>4. /\ cool' \in Nat /\ strikes' \in Nat /\ since' \in Nat
          /\ successes' \in Nat /\ allowed' \in Nat
        BY <2>1, <2>2, ThrottledFacts
    <2>5. refusals' \in [Callers -> Nat] /\ told' \in [Callers -> Nat]
        BY <1>7, <2>4 DEF Retry, TypeOK
    <2> QED
        BY <1>7, <2>3, <2>4, <2>5 DEF Retry, TypeOK
<1>8. ASSUME NEW c \in Callers, GiveUp(c) PROVE TypeOK'
    BY <1>8, SilentFacts DEF GiveUp, TypeOK, gateVars, Places, Ends
<1>9. ASSUME NEW c \in Callers, BotCheck(c) PROVE TypeOK'
    <2>1. at' \in [Callers -> Places] /\ timer' \in [Callers -> Nat]
        BY <1>9, NotifiedFacts DEF BotCheck, Places, Ends
    <2>2. /\ cool' \in Nat /\ strikes' \in Nat /\ since' \in Nat
          /\ successes' \in Nat /\ allowed' \in Nat
        BY <1>9, ThrottledFacts DEF BotCheck
    <2> QED
        BY <1>9, <2>1, <2>2 DEF BotCheck, TypeOK
<1>10. ASSUME NEW c \in Callers, Fail(c) PROVE TypeOK'
    <2>1. Silent(c, "gaveUp") \/ Silent(c, "backoff")
        BY <1>10 DEF Fail
    <2>2. at' \in [Callers -> Places] /\ timer' = timer
        BY <2>1, SilentFacts DEF Places, Ends
    <2>3. failures' \in [Callers -> Nat]
        BY <1>10 DEF Fail, TypeOK
    <2> QED
        BY <1>10, <2>2, <2>3 DEF Fail, TypeOK, gateVars
<1>11. ASSUME NEW c \in Callers, Resend(c) PROVE TypeOK'
    BY <1>11, SilentFacts DEF Resend, TypeOK, gateVars, Places
<1>12. CASE Lookup
    <2>1. at' \in [Callers -> Places] /\ timer' \in [Callers -> Nat]
        BY <1>12 DEF Lookup, Woken, TypeOK, Places
    <2>2. /\ cool' \in Nat /\ strikes' \in Nat /\ since' \in Nat
          /\ successes' \in Nat /\ allowed' \in Nat
        BY <1>12, ThrottledFacts DEF Lookup
    <2> QED
        BY <1>12, <2>1, <2>2 DEF Lookup, TypeOK
<1>13. CASE Configure
    <2>1. at' \in [Callers -> Places] /\ timer' \in [Callers -> Nat]
        BY <1>13 DEF Configure, Woken, TypeOK, Places
    <2>2. limit' \in Limits /\ allowed' \in Nat /\ peak' \in Nat
        BY <1>0, <1>13 DEF Configure, Larger, TypeOK
    <2> QED
        BY <1>13, <2>1, <2>2 DEF Configure, TypeOK
<1>14. CASE Tick
    BY <1>14 DEF Tick, Less, TypeOK
<1>15. CASE UNCHANGED vars
    BY <1>15 DEF vars, TypeOK
<1> QED
    BY <1>1, <1>2, <1>3, <1>4, <1>5, <1>6, <1>7, <1>8, <1>9, <1>10, <1>11, <1>12, <1>13,
       <1>14, <1>15 DEF Next, CallerStep

-----------------------------------------------------------------------------
(***************************************************************************)
(* Capacity.                                                               *)
(***************************************************************************)

\* A step that puts no request on the wire and takes none off it keeps the count.
LEMMA SameSending ==
    ASSUME \A d \in Callers : at'[d] = "sending" <=> at[d] = "sending"
    PROVE  Sending' = Sending
    BY DEF Sending

\* Nor does a step that moves one caller between places off the wire.
LEMMA OffTheWire ==
    ASSUME TypeOK, NEW c \in Callers, at[c] # "sending",
           NEW place \in Places, place # "sending",
           Silent(c, place) \/ Notified(c, place)
    PROVE  Sending' = Sending
<1>1. \A d \in Callers : at'[d] = "sending" <=> at[d] = "sending"
    BY NotifiedFacts, SilentFacts
<1> QED
    BY <1>1, SameSending

\* throttled() keeps at least one slot and opens none.
LEMMA ThrottledCapacity ==
    ASSUME TypeOK, CapacityRespected, NEW asked \in Nat, ThrottledBy(asked),
           Sending' = Sending, UNCHANGED <<limit, inFlight, peak>>
    PROVE  CapacityRespected'
<1>1. allowed' \in 1 .. allowed
    BY ThrottledFacts DEF CapacityRespected
<1>2. limit \in Nat
    BY GateAssumption DEF TypeOK
<1> QED
    BY <1>1, <1>2 DEF CapacityRespected, TypeOK

\* The gate is within its capacity initially.
LEMMA CapacityInit == Init => CapacityRespected
<1> SUFFICES ASSUME Init PROVE CapacityRespected
    OBVIOUS
<1>1. limit \in Nat \ {0}
    BY GateAssumption DEF Init
<1>2. Sending = {}
    BY DEF Init, Sending
<1> QED
    BY <1>1, <1>2, FS_EmptySet DEF Init, CapacityRespected

\* No step takes the gate over its capacity.
LEMMA CapacityInductive == TypeOK /\ CapacityRespected /\ [Next]_vars => CapacityRespected'
<1> SUFFICES ASSUME TypeOK, CapacityRespected, [Next]_vars PROVE CapacityRespected'
    OBVIOUS
<1>0. limit \in Nat \ {0} /\ Limits \subseteq Nat \ {0}
    BY GateAssumption DEF TypeOK
<1>a. ASSUME Sending' = Sending, UNCHANGED <<inFlight, limit, peak, allowed>>
      PROVE  CapacityRespected'
    BY <1>a DEF CapacityRespected
<1>1. ASSUME NEW c \in Callers, Ask(c) PROVE CapacityRespected'
    BY <1>1, <1>a, OffTheWire DEF Ask, gateVars, Places
<1>2. ASSUME NEW c \in Callers, Enter(c) PROVE CapacityRespected'
    <2>1. Sending' = Sending \cup {c} /\ c \notin Sending
        BY <1>2, SilentFacts DEF Enter, Sending, Places
    <2>2. Cardinality(Sending') = Cardinality(Sending) + 1
        BY <2>1, SendingFinite, FS_AddElement
    <2>3. /\ inFlight' = inFlight + 1 /\ inFlight < allowed
          /\ UNCHANGED <<limit, allowed, peak>>
        BY <1>2 DEF Enter, Room
    <2> QED
        BY <1>0, <2>2, <2>3 DEF CapacityRespected, TypeOK
<1>3. ASSUME NEW c \in Callers, Wait(c) PROVE CapacityRespected'
    <2>1. \A d \in Callers : at'[d] = "sending" <=> at[d] = "sending"
        BY <1>3 DEF Wait, TypeOK
    <2> QED
        BY <1>3, <1>a, <2>1, SameSending DEF Wait, gateVars
<1>4. ASSUME NEW c \in Callers, Wake(c) PROVE CapacityRespected'
    BY <1>4, <1>a, OffTheWire DEF Wake, gateVars, Places
<1>5. ASSUME NEW c \in Callers, Answer(c) PROVE CapacityRespected'
    <2>1. PICK answer \in {"ok", "refused", "failed"} : Release(c, answer)
        BY <1>5 DEF Answer
    <2>2. Sending' = Sending \ {c} /\ c \in Sending
        BY <2>1, NotifiedFacts DEF Release, Sending, Places
    <2>3. Cardinality(Sending') = Cardinality(Sending) - 1
        BY <2>2, SendingFinite, FS_RemoveElement
    <2>4. /\ inFlight' = inFlight - 1 /\ UNCHANGED <<limit, allowed>>
          /\ peak' = IF inFlight = 1 THEN limit ELSE peak
        BY <1>5, <2>1 DEF Answer, Release
    <2> QED
        BY <1>0, <2>3, <2>4 DEF CapacityRespected, TypeOK
<1>6. ASSUME NEW c \in Callers, Succeed(c) PROVE CapacityRespected'
    <2>1. Notified(c, "done") \/ Silent(c, "done")
        BY <1>6 DEF Succeed, Recovery
    <2>2. Sending' = Sending
        BY <1>6, <2>1, OffTheWire DEF Succeed, Places, Ends
    <2>3. UNCHANGED <<inFlight, limit, peak>>
        BY <1>6 DEF Succeed
    <2>4. allowed' = allowed \/ (allowed < limit /\ allowed' = allowed + 1)
        BY <1>0, <1>6 DEF Succeed, Recovery, TypeOK
    <2> QED
        BY <1>0, <2>2, <2>3, <2>4 DEF CapacityRespected, TypeOK
<1>7. ASSUME NEW c \in Callers, Retry(c) PROVE CapacityRespected'
    <2>1. PICK asked \in RetryAfters : ThrottledBy(asked)
        BY <1>7 DEF Retry
    <2>2. asked \in Nat
        BY GateAssumption
    <2>3. Sending' = Sending
        BY <1>7, OffTheWire DEF Retry, Places
    <2> QED
        BY <1>7, <2>1, <2>2, <2>3, ThrottledCapacity DEF Retry
<1>8. ASSUME NEW c \in Callers, GiveUp(c) PROVE CapacityRespected'
    BY <1>8, <1>a, OffTheWire DEF GiveUp, gateVars, Places, Ends
<1>9. ASSUME NEW c \in Callers, BotCheck(c) PROVE CapacityRespected'
    <2>1. Sending' = Sending
        BY <1>9, OffTheWire DEF BotCheck, Places, Ends
    <2> QED
        BY <1>9, <2>1, ThrottledCapacity DEF BotCheck
<1>10. ASSUME NEW c \in Callers, Fail(c) PROVE CapacityRespected'
    <2>1. Silent(c, "gaveUp") \/ Silent(c, "backoff")
        BY <1>10 DEF Fail
    <2>2. Sending' = Sending
        BY <1>10, <2>1, OffTheWire DEF Fail, Places, Ends
    <2> QED
        BY <1>10, <1>a, <2>2 DEF Fail, gateVars
<1>11. ASSUME NEW c \in Callers, Resend(c) PROVE CapacityRespected'
    BY <1>11, <1>a, OffTheWire DEF Resend, gateVars, Places
<1>12. CASE Lookup
    <2>1. \A d \in Callers : at'[d] = "sending" <=> at[d] = "sending"
        BY <1>12 DEF Lookup, Woken
    <2> QED
        BY <1>12, <2>1, SameSending, ThrottledCapacity DEF Lookup
<1>13. CASE Configure
    <2>1. \A d \in Callers : at'[d] = "sending" <=> at[d] = "sending"
        BY <1>13 DEF Configure, Woken
    <2>2. PICK n \in Limits : /\ limit' = n /\ allowed' = n /\ inFlight' = inFlight
                             /\ peak' = IF inFlight = 0 THEN n ELSE Larger(peak, n)
        BY <1>13 DEF Configure
    <2> QED
        BY <1>0, <2>1, <2>2, SameSending DEF CapacityRespected, Larger, TypeOK
<1>14. CASE Tick
    BY <1>14, <1>a, SameSending DEF Tick
<1>15. CASE UNCHANGED vars
    BY <1>15, <1>a, SameSending DEF vars
<1> QED
    BY <1>1, <1>2, <1>3, <1>4, <1>5, <1>6, <1>7, <1>8, <1>9, <1>10, <1>11, <1>12, <1>13,
       <1>14, <1>15 DEF Next, CallerStep

-----------------------------------------------------------------------------
(***************************************************************************)
(* Waiters: none is stranded, none oversleeps.                             *)
(***************************************************************************)
WaitersOK == NoStrandedWaiter /\ NoOversleep

\* A step after which every waiter looks again leaves nobody waiting.
LEMMA NobodyWaits ==
    ASSUME \A d \in Callers : at'[d] \notin {"asleep", "dozing"}
    PROVE  WaitersOK'
    BY DEF WaitersOK, NoStrandedWaiter, NoOversleep

\* A step that sends nobody to wait, and moves neither the gate nor the timers, keeps it.
LEMMA SameWaiters ==
    ASSUME WaitersOK, UNCHANGED <<inFlight, allowed, cool, gap, timer>>,
           \A d \in Callers : at'[d] \in {"asleep", "dozing"} => at'[d] = at[d]
    PROVE  WaitersOK'
    BY DEF WaitersOK, NoStrandedWaiter, NoOversleep

\* No step strands a waiter.
LEMMA WaitersInductive ==
    TypeOK /\ CapacityRespected /\ WaitersOK /\ [Next]_vars => WaitersOK'
<1> SUFFICES ASSUME TypeOK, CapacityRespected, WaitersOK, [Next]_vars PROVE WaitersOK'
    OBVIOUS
<1>1. ASSUME NEW c \in Callers, Ask(c) PROVE WaitersOK'
    BY <1>1, SilentFacts, SameWaiters DEF Ask, gateVars, Places
<1>2. ASSUME NEW c \in Callers, Enter(c) PROVE WaitersOK'
    <2>1. /\ inFlight' = inFlight + 1 /\ gap' \in Nat /\ UNCHANGED <<allowed, cool>>
          /\ cool = 0 /\ gap = 0
        BY <1>2, GateAssumption DEF Enter, Room, Delay, Larger, TypeOK
    <2>2. timer' = timer /\ at'[c] = "sending" /\ \A d \in Callers \ {c} : at'[d] = at[d]
        BY <1>2, SilentFacts DEF Enter, Places
    <2>3. NoStrandedWaiter'
        BY <2>1, <2>2 DEF WaitersOK, NoStrandedWaiter, TypeOK
    <2>4. NoOversleep'
        BY <2>1, <2>2 DEF WaitersOK, NoOversleep, Larger, TypeOK
    <2> QED
        BY <2>3, <2>4 DEF WaitersOK
<1>3. ASSUME NEW c \in Callers, Wait(c) PROVE WaitersOK'
    <2>1. /\ at' = [at EXCEPT ![c] = IF Delay > 0 THEN "dozing" ELSE "asleep"]
          /\ timer' = [timer EXCEPT ![c] = Delay]
          /\ ~Room /\ UNCHANGED <<inFlight, allowed, cool, gap>>
        BY <1>3 DEF Wait, gateVars
    <2>2. Delay \in Nat /\ Delay = Larger(cool, gap)
        BY DEF Delay, Larger, TypeOK
    <2>3. NoStrandedWaiter'
        BY <2>1, <2>2 DEF WaitersOK, NoStrandedWaiter, Room, TypeOK
    <2>4. NoOversleep'
        BY <2>1, <2>2 DEF WaitersOK, NoOversleep, Larger, TypeOK
    <2> QED
        BY <2>3, <2>4 DEF WaitersOK
<1>4. ASSUME NEW c \in Callers, Wake(c) PROVE WaitersOK'
    BY <1>4, SilentFacts, SameWaiters DEF Wake, gateVars, Places
<1>5. ASSUME NEW c \in Callers, Answer(c) PROVE WaitersOK'
    <2>1. PICK answer \in {"ok", "refused", "failed"} : Notified(c, answer)
        BY <1>5 DEF Answer, Release
    <2> QED
        BY <2>1, NotifiedFacts, NobodyWaits DEF Places
<1>6. ASSUME NEW c \in Callers, Succeed(c) PROVE WaitersOK'
    <2>1. CASE Notified(c, "done")
        BY <2>1, NotifiedFacts, NobodyWaits DEF Places, Ends
    <2>2. CASE ~Notified(c, "done")
        <3>1. Silent(c, "done") /\ UNCHANGED <<inFlight, allowed, cool, gap>>
            BY <1>6, <2>2 DEF Succeed, Recovery
        <3> QED
            BY <3>1, SilentFacts, SameWaiters DEF Places, Ends
    <2> QED
        BY <2>1, <2>2
<1>7. ASSUME NEW c \in Callers, Retry(c) PROVE WaitersOK'
    BY <1>7, NotifiedFacts, NobodyWaits DEF Retry, Places
<1>8. ASSUME NEW c \in Callers, GiveUp(c) PROVE WaitersOK'
    BY <1>8, SilentFacts, SameWaiters DEF GiveUp, gateVars, Places, Ends
<1>9. ASSUME NEW c \in Callers, BotCheck(c) PROVE WaitersOK'
    BY <1>9, NotifiedFacts, NobodyWaits DEF BotCheck, Places, Ends
<1>10. ASSUME NEW c \in Callers, Fail(c) PROVE WaitersOK'
    <2>1. Silent(c, "gaveUp") \/ Silent(c, "backoff")
        BY <1>10 DEF Fail
    <2> QED
        BY <1>10, <2>1, SilentFacts, SameWaiters DEF Fail, gateVars, Places, Ends
<1>11. ASSUME NEW c \in Callers, Resend(c) PROVE WaitersOK'
    BY <1>11, SilentFacts, SameWaiters DEF Resend, gateVars, Places
<1>12. CASE Lookup
    BY <1>12, NobodyWaits DEF Lookup, Woken
<1>13. CASE Configure
    BY <1>13, NobodyWaits DEF Configure, Woken
<1>14. CASE Tick
    <2>1. NoStrandedWaiter'
        BY <1>14 DEF Tick, WaitersOK, NoStrandedWaiter
    <2>2. NoOversleep'
        BY <1>14 DEF Tick, WaitersOK, NoOversleep, Larger, Less, TypeOK
    <2> QED
        BY <2>1, <2>2 DEF WaitersOK
<1>15. CASE UNCHANGED vars
    BY <1>15, SameWaiters DEF vars
<1> QED
    BY <1>1, <1>2, <1>3, <1>4, <1>5, <1>6, <1>7, <1>8, <1>9, <1>10, <1>11, <1>12, <1>13,
       <1>14, <1>15 DEF Next, CallerStep

-----------------------------------------------------------------------------
(***************************************************************************)
(* Cooldowns: what a refused caller was told is kept.                      *)
(***************************************************************************)
CooldownOK == ToldBounded /\ ToldIsKept

\* A cooldown that only grows, and nobody new on the wire, keeps it.
LEMMA GrowingCooldown ==
    ASSUME TypeOK, CooldownOK, cool' \in Nat, cool' >= cool, told' = told,
           \A d \in Callers : at'[d] = "sending" => at[d] = "sending"
    PROVE  CooldownOK'
    BY DEF CooldownOK, ToldBounded, ToldIsKept, TypeOK

\* Every step keeps the cooldowns as they were told.
LEMMA CooldownInductive == TypeOK /\ CooldownOK /\ [Next]_vars => CooldownOK'
<1> SUFFICES ASSUME TypeOK, CooldownOK, [Next]_vars PROVE CooldownOK'
    OBVIOUS
<1>a. cool \in Nat
    BY DEF TypeOK
<1>b. ASSUME NEW c \in Callers, NEW place \in Places, place # "sending",
             Silent(c, place) \/ Notified(c, place)
      PROVE  \A d \in Callers : at'[d] = "sending" => at[d] = "sending"
    BY <1>b, SilentFacts, NotifiedFacts
<1>1. ASSUME NEW c \in Callers, Ask(c) PROVE CooldownOK'
    BY <1>1, <1>a, <1>b, GrowingCooldown DEF Ask, gateVars, Places
<1>2. ASSUME NEW c \in Callers, Enter(c) PROVE CooldownOK'
    <2>1. cool = 0 /\ cool' = cool /\ told' = told
        BY <1>2 DEF Enter, Room, Delay, Larger, TypeOK
    <2>2. \A d \in Callers : told[d] = 0
        BY <2>1 DEF CooldownOK, ToldBounded, TypeOK
    <2> QED
        BY <2>1, <2>2 DEF CooldownOK, ToldBounded, ToldIsKept
<1>3. ASSUME NEW c \in Callers, Wait(c) PROVE CooldownOK'
    BY <1>3, <1>a, GrowingCooldown DEF Wait, gateVars, TypeOK
<1>4. ASSUME NEW c \in Callers, Wake(c) PROVE CooldownOK'
    BY <1>4, <1>a, <1>b, GrowingCooldown DEF Wake, gateVars, Places
<1>5. ASSUME NEW c \in Callers, Answer(c) PROVE CooldownOK'
    <2>1. PICK answer \in {"ok", "refused", "failed"} : Notified(c, answer)
        BY <1>5 DEF Answer, Release
    <2> QED
        BY <1>5, <1>a, <1>b, <2>1, GrowingCooldown DEF Answer, Places
<1>6. ASSUME NEW c \in Callers, Succeed(c) PROVE CooldownOK'
    <2>1. Notified(c, "done") \/ Silent(c, "done")
        BY <1>6 DEF Succeed, Recovery
    <2> QED
        BY <1>6, <1>a, <1>b, <2>1, GrowingCooldown DEF Succeed, Places, Ends
<1>7. ASSUME NEW c \in Callers, Retry(c) PROVE CooldownOK'
    <2>1. PICK asked \in RetryAfters : ThrottledBy(asked)
        BY <1>7 DEF Retry
    <2>2. cool' \in Nat /\ cool' >= cool
        BY <2>1, GateAssumption, ThrottledFacts
    <2>3. told' = [told EXCEPT ![c] = cool'] /\ at'[c] = "want"
        BY <1>7, NotifiedFacts DEF Retry, Places
    <2>4. \A d \in Callers : at'[d] = "sending" => at[d] = "sending"
        BY <1>7, <1>b DEF Retry, Places
    <2>5. ToldBounded'
        BY <2>2, <2>3 DEF CooldownOK, ToldBounded, TypeOK
    <2>6. ToldIsKept'
        BY <2>3, <2>4 DEF CooldownOK, ToldIsKept, TypeOK
    <2> QED
        BY <2>5, <2>6 DEF CooldownOK
<1>8. ASSUME NEW c \in Callers, GiveUp(c) PROVE CooldownOK'
    BY <1>8, <1>a, <1>b, GrowingCooldown DEF GiveUp, gateVars, Places, Ends
<1>9. ASSUME NEW c \in Callers, BotCheck(c) PROVE CooldownOK'
    <2>1. cool' \in Nat /\ cool' >= cool
        BY <1>9, ThrottledFacts DEF BotCheck
    <2> QED
        BY <1>9, <1>b, <2>1, GrowingCooldown DEF BotCheck, Places, Ends
<1>10. ASSUME NEW c \in Callers, Fail(c) PROVE CooldownOK'
    <2>1. Silent(c, "gaveUp") \/ Silent(c, "backoff")
        BY <1>10 DEF Fail
    <2> QED
        BY <1>10, <1>a, <1>b, <2>1, GrowingCooldown DEF Fail, gateVars, Places, Ends
<1>11. ASSUME NEW c \in Callers, Resend(c) PROVE CooldownOK'
    BY <1>11, <1>a, <1>b, GrowingCooldown DEF Resend, gateVars, Places
<1>12. CASE Lookup
    <2>1. cool' \in Nat /\ cool' >= cool
        BY <1>12, ThrottledFacts DEF Lookup
    <2> QED
        BY <1>12, <2>1, GrowingCooldown DEF Lookup, Woken
<1>13. CASE Configure
    BY <1>13, <1>a, GrowingCooldown DEF Configure, Woken
<1>14. CASE Tick
    BY <1>14 DEF Tick, CooldownOK, ToldBounded, ToldIsKept, Less, TypeOK
<1>15. CASE UNCHANGED vars
    BY <1>15, <1>a, GrowingCooldown DEF vars
<1> QED
    BY <1>1, <1>2, <1>3, <1>4, <1>5, <1>6, <1>7, <1>8, <1>9, <1>10, <1>11, <1>12, <1>13,
       <1>14, <1>15 DEF Next, CallerStep

-----------------------------------------------------------------------------
(***************************************************************************)
(* The theorems.                                                           *)
(***************************************************************************)
IInv == TypeOK /\ CapacityRespected /\ WaitersOK /\ CooldownOK

\* The invariant holds initially.
LEMMA InitInv == Init => IInv
<1> SUFFICES ASSUME Init PROVE IInv
    OBVIOUS
<1>1. WaitersOK
    BY DEF Init, WaitersOK, NoStrandedWaiter, NoOversleep
<1>2. CooldownOK
    BY DEF Init, CooldownOK, ToldBounded, ToldIsKept
<1> QED
    BY <1>1, <1>2, TypeInit, CapacityInit DEF IInv

\* Every step keeps the invariant.
LEMMA NextInv == IInv /\ [Next]_vars => IInv'
    BY TypeInductive, CapacityInductive, WaitersInductive, CooldownInductive DEF IInv

\* The invariant holds in every reachable state.
LEMMA Invariance == Spec => []IInv
    BY InitInv, NextInv, PTL DEF Spec

\* The gate's state is always well formed: no release makes the counter of requests on the
\* wire negative, and no wait or cooldown is.
THEOREM TypeCorrect == Spec => []TypeOK
    BY Invariance, PTL DEF IInv

\* However many jobs share a service, it never has more requests on the wire than a limit in
\* force since it was last idle, and refusals always leave one slot.
THEOREM CapacityTheorem == Spec => []CapacityRespected
    BY Invariance, PTL DEF IInv

\* No wakeup is lost: a caller asleep without a timeout has no room to send in.
THEOREM NoStrandedWaiterTheorem == Spec => []NoStrandedWaiter
    BY Invariance, PTL DEF IInv, WaitersOK

\* A timed wait never outlasts the cooldown and the spacing it waits for.
THEOREM NoOversleepTheorem == Spec => []NoOversleep
    BY Invariance, PTL DEF IInv, WaitersOK

\* No refused request is on the wire before the cooldown it was told has passed.
THEOREM ToldIsKeptTheorem == Spec => []ToldIsKept
    BY Invariance, PTL DEF IInv, CooldownOK
=============================================================================
