---------------------------- MODULE ProviderGate ----------------------------
(***************************************************************************)
(* The gate in front of one rate-limited service, utils/rate_limit.py      *)
(* (ProviderGate), and the requests that pass it: the retry loop of        *)
(* llm/base.py (_send_with_retries) or, on the "youtube" gate, the         *)
(* downloads of services/ingest/pipeline.py (_fetch_source_audio) and the  *)
(* lookups of api/ingest.py (_probe_or_http_error).                        *)
(*                                                                         *)
(* The code keeps absolute times and compares them with the clock; here    *)
(* every time is what is left of it (0 once it has passed), and Tick takes *)
(* a unit off all of them, so time is not bounded.  Each method runs under *)
(* the gate's lock and is one step.  A caller is one request, with all of  *)
(* its attempts, from the thread of one job.                               *)
(***************************************************************************)
EXTENDS Integers, FiniteSets

CONSTANTS
    Callers,
    Limits,           \* values max_in_flight is configured with
    Interval,         \* min_interval_seconds
    Cooldown,         \* cooldown_seconds
    MaxCooldown,      \* max_cooldown_seconds
    RateLimitRetries, \* rate_limit_retries
    MaxAttempts,      \* max_retries
    RetryAfters,      \* waits a refusal may ask for; 0 when it names none
    Services,         \* kinds of service the gate may be for: "llm" and "youtube"
    MaxStrikes        \* bound: strikes after which no lookup is refused

ASSUME GateAssumption ==
    /\ IsFiniteSet(Callers)
    /\ Services \subseteq {"llm", "youtube"}
    /\ Limits \subseteq Nat \ {0} /\ Limits # {}
    /\ Interval \in Nat /\ Cooldown \in Nat /\ MaxCooldown \in Nat
    /\ RateLimitRetries \in Nat /\ MaxAttempts \in Nat
    /\ RetryAfters \subseteq Nat
    /\ MaxStrikes \in Nat

VARIABLES
    \* the gate
    service,   \* what it is for; never changes
    limit,     \* _limit.max_in_flight
    inFlight,  \* _in_flight
    allowed,   \* _allowed
    successes, \* _successes
    strikes,   \* _strikes
    cool,      \* what is left until _blocked_until
    gap,       \* what is left until _next_start
    \* its callers
    at,        \* caller -> where it is
    timer,     \* caller -> what is left of a timed wait
    refusals,  \* caller -> 429s it got
    failures,  \* caller -> other failed attempts
    told,      \* caller -> what is left of the cooldown its last refusal was told
    since,     \* history: cooldowns begun since a request last got through
    peak       \* history: the largest limit in force since no request was in flight

gateVars   == <<service, limit, inFlight, allowed, successes, strikes, cool, gap>>
callerVars == <<at, timer, refusals, failures, told>>
vars == <<service, limit, inFlight, allowed, successes, strikes, cool, gap,
          at, timer, refusals, failures, told, since, peak>>

-----------------------------------------------------------------------------
Ends    == {"done", "gaveUp"}
\* In cond.wait: "dozing" with a timeout, "asleep" without.
Places  == {"idle", "want", "asleep", "dozing", "sending", "ok", "refused", "failed", "backoff"}
           \cup Ends
Sending == {c \in Callers : at[c] = "sending"}

Larger(m, n)  == IF m > n THEN m ELSE n
Smaller(m, n) == IF m < n THEN m ELSE n
\* A wait that is over stays over; a limit never falls to nothing.
Decreased(n)  == n - 1
Less(n)       == IF n > 0 THEN n - 1 ELSE 0
HalfOf(n)     == n \div 2
Halved(n)     == Larger(1, n \div 2)

\* The cooldown and the spacing run side by side.  With no regard to inFlight, Room would be
\* OpenGate.
SumOfDelays == cool + gap
Delay       == Larger(cool, gap)
OpenGate    == Delay = 0
Room        == Delay = 0 /\ inFlight < allowed

\* notify_all: every waiter looks again.  In Notified, c itself goes on to place.
Woken == [c \in Callers |-> IF at[c] \in {"asleep", "dozing"} THEN "want" ELSE at[c]]
Notified(c, place) ==
    /\ at' = [Woken EXCEPT ![c] = place]
    /\ timer' = [d \in Callers |-> 0]
Silent(c, place) ==
    /\ at' = [at EXCEPT ![c] = place]
    /\ UNCHANGED timer

Init ==
    /\ service \in Services /\ limit \in Limits
    /\ inFlight = 0 /\ allowed = limit /\ successes = 0 /\ strikes = 0
    /\ cool = 0 /\ gap = 0
    /\ at = [c \in Callers |-> "idle"]
    /\ timer = [c \in Callers |-> 0]
    /\ refusals = [c \in Callers |-> 0]
    /\ failures = [c \in Callers |-> 0]
    /\ told = [c \in Callers |-> 0]
    /\ since = 0 /\ peak = limit

-----------------------------------------------------------------------------
Ask(c) ==
    /\ at[c] = "idle"
    /\ Silent(c, "want")
    /\ UNCHANGED <<gateVars, refusals, failures, told, since, peak>>

\* The two outcomes of one turn of the loop in slot().
Enter(c) ==
    /\ at[c] = "want" /\ Room
    /\ inFlight' = inFlight + 1
    /\ gap' = Interval
    /\ Silent(c, "sending")
    /\ UNCHANGED <<service, limit, allowed, successes, strikes, cool, refusals, failures,
                   told, since, peak>>

Wait(c) ==
    /\ at[c] = "want" /\ ~Room
    /\ at' = [at EXCEPT ![c] = IF Delay > 0 THEN "dozing" ELSE "asleep"]
    /\ timer' = [timer EXCEPT ![c] = Delay]
    /\ UNCHANGED <<gateVars, refusals, failures, told, since, peak>>

Wake(c) ==
    /\ at[c] = "dozing" /\ timer[c] = 0
    /\ Silent(c, "want")
    /\ UNCHANGED <<gateVars, refusals, failures, told, since, peak>>

\* The service answers, or the request times out: slot() is left and its waiters are told
\* (QuietRelease would not tell them).
QuietRelease(c, answer) ==
    /\ at[c] = "sending"
    /\ inFlight' = inFlight - 1
    /\ peak' = IF inFlight = 1 THEN limit ELSE peak
    /\ Silent(c, answer)
Release(c, answer) ==
    /\ at[c] = "sending"
    /\ inFlight' = inFlight - 1
    /\ peak' = IF inFlight = 1 THEN limit ELSE peak
    /\ Notified(c, answer)

Answer(c) ==
    /\ \E answer \in {"ok", "refused", "failed"} : Release(c, answer)
    /\ UNCHANGED <<service, limit, allowed, successes, strikes, cool, gap, refusals, failures,
                   told, since>>

\* succeeded(), which a download never calls.
Recovery(c) ==
    IF allowed >= limit
    THEN UNCHANGED <<allowed, successes>> /\ Silent(c, "done")
    ELSE IF successes + 1 >= allowed
    THEN allowed' = allowed + 1 /\ successes' = 0 /\ Notified(c, "done")
    ELSE successes' = successes + 1 /\ UNCHANGED allowed /\ Silent(c, "done")

Succeed(c) ==
    /\ at[c] = "ok"
    /\ \/ service = "llm" /\ strikes' = 0 /\ Recovery(c)
       \/ service = "youtube" /\ Silent(c, "done") /\ UNCHANGED <<strikes, allowed, successes>>
    /\ since' = 0
    /\ UNCHANGED <<service, limit, inFlight, cool, gap, refusals, failures, told, peak>>

\* throttled(): a refusal starts a cooldown, or stretches the one that is running.  The
\* backoff doubles with each strike, with up to a quarter of jitter, under the ceiling.
CooldownFor(n, asked) ==
    LET backoff == Cooldown * 2 ^ (n - 1)
    IN  {Smaller(Larger(asked, b), MaxCooldown) : b \in backoff .. (backoff * 5) \div 4}

\* A new wait stretches the running one; Replaced would put it in its place.
Replaced(asked)  == Smaller(asked, MaxCooldown)
Stretched(asked) == Larger(cool, Smaller(asked, MaxCooldown))

ThrottledBy(asked) ==
    \/ /\ cool = 0
       /\ strikes' = strikes + 1 /\ since' = since + 1
       /\ allowed' = Halved(allowed)
       /\ successes' = 0
       /\ cool' \in CooldownFor(strikes + 1, asked)
    \/ /\ cool > 0
       /\ cool' = IF asked > 0 THEN Stretched(asked) ELSE cool
       /\ UNCHANGED <<strikes, since, allowed, successes>>

\* A 429: the retry loop tries again after the cooldown unless it has too often.
Retry(c) ==
    /\ at[c] = "refused" /\ service = "llm" /\ refusals[c] < RateLimitRetries
    /\ \E asked \in RetryAfters : ThrottledBy(asked)
    /\ refusals' = [refusals EXCEPT ![c] = @ + 1]
    /\ told' = [told EXCEPT ![c] = cool']
    /\ Notified(c, "want")
    /\ UNCHANGED <<service, limit, inFlight, gap, failures, peak>>

GiveUp(c) ==
    /\ at[c] = "refused" /\ service = "llm" /\ refusals[c] >= RateLimitRetries
    /\ Silent(c, "gaveUp")
    /\ UNCHANGED <<gateVars, refusals, failures, told, since, peak>>

\* A bot check: the download cools the later ones down and its job goes to the backlog.
BotCheck(c) ==
    /\ at[c] = "refused" /\ service = "youtube"
    /\ ThrottledBy(0)
    /\ Notified(c, "gaveUp")
    /\ UNCHANGED <<service, limit, inFlight, gap, refusals, failures, told, peak>>

\* Any other failure: back off and try again, or stop (an unretryable status; a download).
Fail(c) ==
    /\ at[c] = "failed"
    /\ \/ Silent(c, "gaveUp") /\ UNCHANGED failures
       \/ /\ service = "llm" /\ failures[c] + 1 < MaxAttempts
          /\ failures' = [failures EXCEPT ![c] = @ + 1]
          /\ Silent(c, "backoff")
    /\ UNCHANGED <<gateVars, refusals, told, since, peak>>

Resend(c) ==
    /\ at[c] = "backoff"
    /\ Silent(c, "want")
    /\ UNCHANGED <<gateVars, refusals, failures, told, since, peak>>

-----------------------------------------------------------------------------
\* A lookup takes no slot, but a bot check it hits cools the downloads down.
Lookup ==
    /\ service = "youtube" /\ strikes < MaxStrikes
    /\ ThrottledBy(0)
    /\ at' = Woken /\ timer' = [c \in Callers |-> 0]
    /\ UNCHANGED <<service, limit, inFlight, gap, refusals, failures, told, peak>>

Configure ==
    /\ \E n \in Limits \ {limit} :
        limit' = n /\ allowed' = n /\ peak' = IF inFlight = 0 THEN n ELSE Larger(peak, n)
    /\ at' = Woken /\ timer' = [c \in Callers |-> 0]
    /\ UNCHANGED <<service, inFlight, successes, strikes, cool, gap, refusals, failures,
                   told, since>>

Tick ==
    /\ cool > 0 \/ gap > 0 \/ \E c \in Callers : timer[c] > 0 \/ told[c] > 0
    /\ cool' = Less(cool) /\ gap' = Less(gap)
    /\ timer' = [c \in Callers |-> Less(timer[c])]
    /\ told' = [c \in Callers |-> Less(told[c])]
    /\ UNCHANGED <<service, limit, inFlight, allowed, successes, strikes, at, refusals, failures,
                   since, peak>>

CallerStep(c) ==
    \/ Enter(c) \/ Wait(c) \/ Wake(c) \/ Answer(c) \/ Succeed(c)
    \/ Retry(c) \/ GiveUp(c) \/ BotCheck(c) \/ Fail(c) \/ Resend(c)

Next ==
    \/ \E c \in Callers : Ask(c) \/ CallerStep(c)
    \/ Lookup \/ Configure \/ Tick

Spec == Init /\ [][Next]_vars

\* Threads are scheduled, time passes, and every request has a timeout.
FairSpec == Spec /\ WF_vars(Tick) /\ \A c \in Callers : WF_vars(CallerStep(c))

-----------------------------------------------------------------------------
\* The gate's counters are natural numbers and every caller is at a place of its request.
TypeOK ==
    /\ service \in {"llm", "youtube"} /\ limit \in Limits /\ inFlight \in Nat /\ allowed \in Nat
    /\ successes \in Nat /\ strikes \in Nat /\ since \in Nat /\ peak \in Nat
    /\ cool \in Nat /\ gap \in Nat
    /\ at \in [Callers -> Places]
    /\ timer \in [Callers -> Nat] /\ told \in [Callers -> Nat]
    /\ refusals \in [Callers -> Nat] /\ failures \in [Callers -> Nat]

\* The service is never sent more requests at once than a limit in force since it was last idle
\* allows, over all jobs together; and however often it refuses, one may always be sent.
CapacityRespected ==
    /\ inFlight = Cardinality(Sending)
    /\ inFlight <= peak /\ limit <= peak
    /\ allowed \in 1 .. limit

\* No wakeup is lost: a caller that waits without a timeout has no room to send in.
NoStrandedWaiter == \A c \in Callers : at[c] = "asleep" => inFlight >= allowed

\* No caller sleeps past the moment the gate opens for it.
NoOversleep == \A c \in Callers : at[c] = "dozing" => timer[c] <= Larger(cool, gap)

\* A refused request never goes out again before the cooldown it was told has passed, whatever
\* other refusals came since.
ToldIsKept == \A c \in Callers : at[c] = "sending" => told[c] = 0

\* A request that asks for a slot gets its answer or gives up: the shared cooldown, the spacing
\* and the shrunken limit delay it, but nothing keeps it out for good.
EveryRequestEnds == \A c \in Callers : at[c] = "want" ~> at[c] \in Ends

\* The cooldown doubles for each further refusal without a success in between: whenever a
\* cooldown has begun since a request last got through, the strikes that doubled it are the
\* cooldowns begun since then, and none from before that success.
StrikesSinceSuccess == since > 0 => strikes = since
=============================================================================
