--------------------------- MODULE DeviceLimiter ---------------------------
(***************************************************************************)
(* aethon::control::DeviceLimiter (src/control/device_limiter.cpp): a      *)
(* token bucket and a table of shared and exclusive leases per device.     *)
(*                                                                         *)
(* Abstracted: lease owners; the counters of decisions (allowed, locked,   *)
(* rate_limited), which the code only reports.  A second is OneSecond      *)
(* clock units.  elapsed * refill_per_second is exact: it stays below 2^64 *)
(* for 213 days without a refill at 1000 tokens per second.                *)
(***************************************************************************)
EXTENDS Integers, FiniteSets

CONSTANTS
    LimitedDevice,
    DefaultLimit,       \* DeviceLimiterConfig::default_limit
    Limits,             \* the DeviceRateLimit values callers pass
    LeaseTtl,           \* DeviceLimiterConfig::default_lease_ttl_ns
    Ttls,               \* the ttl_ns values callers pass; 0 asks for the default
    Costs,              \* the cost values callers pass
    AllowUnknown,       \* DeviceLimiterConfig::allow_unknown_devices
    LimiterTime,        \* the now_ns values callers pass
    OneSecond,          \* one_second_ns
    MaxLeases           \* bound on the leases granted between resets

Limit == [burst : Nat, refill : Nat, minimum : Nat]

\* The clock never shows 0: last_refill_ns = 0 means never refilled.
\* Assumed of the constants wherever this module is instantiated.
LimiterAssumption ==
    /\ DefaultLimit \in Limit /\ Limits \subseteq Limit
    /\ LeaseTtl \in Nat /\ Ttls \subseteq Nat /\ Costs \subseteq Nat
    /\ AllowUnknown \in BOOLEAN
    /\ LimiterTime \subseteq Nat \ {0}
    /\ OneSecond \in Nat \ {0} /\ MaxLeases \in Nat

VARIABLES
    devices,    \* devices_ : device -> [limit, tokens, last_refill, leases]
    lstats,     \* the lease counters of stats_
    nextLease,  \* next_lease_id_
    paid,       \* history: per device, tokens consumed and the refill time it counts from
    dropped     \* history: leases that went with their device

limiterVars == <<devices, lstats, nextLease, paid, dropped>>

-----------------------------------------------------------------------------
ZeroLimiterStats == [granted |-> 0, released |-> 0, expired |-> 0]

Larger(a, b) == IF a > b THEN a ELSE b

Lesser(a, b) == IF a < b THEN a ELSE b

Normalized(limit) ==
    LET burst == Larger(limit.burst, 1)
    IN  [burst |-> burst, refill |-> Larger(limit.refill, 1),
         minimum |-> Lesser(Larger(limit.minimum, 1), burst)]

\* a bucket as operator[] of the map makes it
EmptyBucket == [limit |-> [burst |-> 16, refill |-> 16, minimum |-> 1], tokens |-> 0,
                last_refill |-> 0, leases |-> {}]

Bucket(d) == IF d \in DOMAIN devices THEN devices[d] ELSE EmptyBucket

Put(f, d, b) == [e \in DOMAIN f \cup {d} |-> IF e = d THEN b ELSE f[e]]

Chosen(limit) ==
    IF limit.burst = 0 /\ limit.refill = 0 THEN Normalized(DefaultLimit) ELSE limit

Registered(b, limit) ==
    LET l == Normalized(Chosen(limit))
    IN  [b EXCEPT !.limit = l, !.tokens = l.burst]

Limited(b, limit) ==
    LET l == Normalized(limit)
    IN  [b EXCEPT !.limit = l, !.tokens = Lesser(@, l.burst)]

-----------------------------------------------------------------------------
(* The token bucket.                                                       *)

Gained(b, now) == ((now - b.last_refill) * b.limit.refill) \div OneSecond

Refill(b, now) ==
    CASE b.last_refill = 0 ->
            [b EXCEPT !.last_refill = now, !.tokens = IF @ = 0 THEN b.limit.burst ELSE @]
      [] b.last_refill # 0 /\ now > b.last_refill /\ Gained(b, now) # 0 ->
            [b EXCEPT !.last_refill = now,
                      !.tokens = Lesser(b.limit.burst, @ + Lesser(Gained(b, now), b.limit.burst))]
      [] OTHER -> b

\* mutant: rounded down
RetryAfterShort(b, cost) ==
    IF cost > b.tokens THEN ((cost - b.tokens) * OneSecond) \div b.limit.refill ELSE 0

RetryAfter(b, cost) ==
    IF cost > b.tokens
    THEN ((cost - b.tokens) * OneSecond + b.limit.refill - 1) \div b.limit.refill
    ELSE 0

EffectiveCost(b, cost) == Larger(cost, b.limit.minimum)

-----------------------------------------------------------------------------
(* Leases.                                                                 *)

Live(b, now) == {l \in b.leases : l.expires > now}

Unexpired(f, now) == [d \in DOMAIN f |-> [f[d] EXCEPT !.leases = Live(f[d], now)]]

Held(f) == UNION {{<<d, l>> : l \in f[d].leases} : d \in DOMAIN f}

Lapsed(now) == {h \in Held(devices) : h[2].expires <= now}

CountExpired(now) == [lstats EXCEPT !.expired = @ + Cardinality(Lapsed(now))]

\* mutant: only an exclusive request looks at the leases
LeaseConflictShared(leases, mode) == leases # {} /\ mode = "exclusive"

LeaseConflict(leases, mode) ==
    leases # {} /\ (mode = "exclusive" \/ \E l \in leases : l.mode = "exclusive")

-----------------------------------------------------------------------------
NothingPaid(d, b) == [paid EXCEPT ![d] = [spent |-> 0, since |-> b.last_refill]]

RegisterDevice(d, limit) ==
    /\ devices' = Put(devices, d, Registered(Bucket(d), limit))
    /\ paid' = NothingPaid(d, Bucket(d))
    /\ UNCHANGED <<lstats, nextLease, dropped>>

UnregisterDevice(d) ==
    /\ d \in DOMAIN devices
    /\ devices' = [e \in DOMAIN devices \ {d} |-> devices[e]]
    /\ paid' = NothingPaid(d, EmptyBucket)
    /\ dropped' = dropped + Cardinality(devices[d].leases)
    /\ UNCHANGED <<lstats, nextLease>>

SetLimit(d, limit) ==
    /\ devices' = Put(devices, d, Limited(Bucket(d), limit))
    /\ paid' = NothingPaid(d, Bucket(d))
    /\ UNCHANGED <<lstats, nextLease, dropped>>

Known(d) == d \in DOMAIN devices \/ AllowUnknown

\* acquire() and check() register an unknown device with the default limit and
\* drop every lease that has expired, on all devices
Prepared(d, now) ==
    LET b == IF d \in DOMAIN devices THEN devices[d] ELSE Registered(EmptyBucket, DefaultLimit)
    IN  Unexpired(Put(devices, d, b), now)

AcquireLocked(d, mode, now) ==
    LET prepared == Prepared(d, now)
    IN  /\ Known(d)
        /\ LeaseConflict(prepared[d].leases, mode)
        /\ devices' = prepared
        /\ lstats' = CountExpired(now)
        /\ UNCHANGED <<nextLease, paid, dropped>>

NextLeaseId == nextLease + 1

AcquireGranted(d, mode, ttl, now) ==
    LET prepared == Prepared(d, now)
        granted  == [id |-> nextLease, mode |-> mode,
                     expires |-> now + (IF ttl = 0 THEN LeaseTtl ELSE ttl)]
    IN  /\ Known(d)
        /\ ~LeaseConflict(prepared[d].leases, mode)
        /\ lstats.granted < MaxLeases
        /\ devices' = [prepared EXCEPT ![d].leases = @ \cup {granted}]
        /\ nextLease' = NextLeaseId
        /\ lstats' = [CountExpired(now) EXCEPT !.granted = @ + 1]
        /\ UNCHANGED <<paid, dropped>>

Release(id) ==
    /\ \E d \in DOMAIN devices : \E l \in devices[d].leases :
          /\ l.id = id
          /\ devices' = [devices EXCEPT ![d].leases = @ \ {l}]
    /\ lstats' = [lstats EXCEPT !.released = @ + 1]
    /\ UNCHANGED <<nextLease, paid, dropped>>

ExpireLeases(now) ==
    /\ devices' = Unexpired(devices, now)
    /\ lstats' = CountExpired(now)
    /\ UNCHANGED <<nextLease, paid, dropped>>

\* what check() leaves behind, and the bucket it decides from
Checked(d, now) == [Prepared(d, now) EXCEPT ![d] = Refill(@, now)]

Allowed(b, cost) == ~LeaseConflict(b.leases, "shared") /\ b.tokens >= EffectiveCost(b, cost)

Since(d, now) == IF Bucket(d).last_refill = 0 THEN now ELSE paid[d].since

Check(d, now) ==
    /\ Known(d)
    /\ devices' = Checked(d, now)
    /\ lstats' = CountExpired(now)
    /\ paid' = [paid EXCEPT ![d].since = Since(d, now)]
    /\ UNCHANGED <<nextLease, dropped>>

\* consume() that check() allows; otherwise it is no more than the check
Consume(d, cost, now) ==
    LET b == Checked(d, now)[d]
        price == EffectiveCost(b, cost)
    IN  /\ Known(d)
        /\ Allowed(b, cost)
        /\ devices' = [Checked(d, now) EXCEPT ![d].tokens = @ - price]
        /\ lstats' = CountExpired(now)
        /\ paid' = [paid EXCEPT ![d] = [spent |-> @.spent + price, since |-> Since(d, now)]]
        /\ UNCHANGED <<nextLease, dropped>>

NoPayments == [d \in LimitedDevice |-> [spent |-> 0, since |-> 0]]

ResetLimiter ==
    /\ devices' = << >>
    /\ lstats' = ZeroLimiterStats
    /\ nextLease' = 1
    /\ paid' = NoPayments
    /\ dropped' = 0

-----------------------------------------------------------------------------
InitLimiter ==
    /\ devices = << >> /\ lstats = ZeroLimiterStats /\ nextLease = 1
    /\ paid = NoPayments /\ dropped = 0

Mode == {"shared", "exclusive"}

NextLimiter ==
    \/ \E d \in LimitedDevice, limit \in Limits : RegisterDevice(d, limit)
    \/ \E d \in LimitedDevice : UnregisterDevice(d)
    \/ \E d \in LimitedDevice, limit \in Limits : SetLimit(d, limit)
    \/ \E d \in LimitedDevice, mode \in Mode, now \in LimiterTime : AcquireLocked(d, mode, now)
    \/ \E d \in LimitedDevice, mode \in Mode, ttl \in Ttls, now \in LimiterTime : AcquireGranted(d, mode, ttl, now)
    \/ \E id \in 1..MaxLeases : Release(id)
    \/ \E now \in LimiterTime : ExpireLeases(now)
    \/ \E d \in LimitedDevice, now \in LimiterTime : Check(d, now)
    \/ \E d \in LimitedDevice, cost \in Costs, now \in LimiterTime : Consume(d, cost, now)
    \/ ResetLimiter

LimiterSpec == InitLimiter /\ [][NextLimiter]_limiterVars

-----------------------------------------------------------------------------
(* Properties.                                                             *)

\* An exclusive lease is the only lease of its device, whatever the order of
\* grants, expiries, releases and registrations, and however far the clocks of
\* the callers disagree.
LeaseExclusive ==
    \A d \in DOMAIN devices : \A l \in devices[d].leases :
        l.mode = "exclusive" => devices[d].leases = {l}

\* Every lease ever granted is held, was released, expired, or went with its
\* device, and was counted in one of these only.
LeaseConservation ==
    lstats.granted = lstats.released + lstats.expired + dropped + Cardinality(Held(devices))

\* The promise of a token bucket: what was consumed since the limit was set and
\* what is still available never exceed the burst plus what refill_per_second
\* yields over the time the refills cover, although every refill rounds down,
\* tokens are capped and callers pass times out of order.
RateBound ==
    \A d \in DOMAIN devices :
        LET b == devices[d]
        IN  OneSecond * (paid[d].spent + b.tokens)
                <= OneSecond * b.limit.burst + b.limit.refill * (b.last_refill - paid[d].since)

\* A caller that waits for the retry_after_ns it was given finds enough tokens,
\* if nobody else consumes meanwhile: the wait covers the rounding of the refill
\* and the time since the last one.  (A cost above the burst never fits.)
RetryAfterSuffices ==
    \A d \in DOMAIN devices, cost \in Costs, now \in LimiterTime :
        LET b     == Refill(devices[d], now)
            price == EffectiveCost(b, cost)
        IN  (price <= b.limit.burst /\ b.last_refill <= now) =>
                Refill(b, now + RetryAfter(b, price)).tokens >= price

\* Leases are exclusive when they say so, and none is lost or counted twice.
LeasesSound == LeaseExclusive /\ LeaseConservation

\* The bucket keeps its rate, and the wait it asks for is long enough.
TokensSound == RateBound /\ RetryAfterSuffices
=============================================================================
