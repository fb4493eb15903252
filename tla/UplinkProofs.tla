---------------------------- MODULE UplinkProofs ----------------------------
(***************************************************************************)
(* Proofs about what a device may send: about DeviceLimiter, for all       *)
(* constants that satisfy LimiterAssumption, and about Uplink, for all     *)
(* packets, limits, thresholds and bounds that satisfy UplinkAssumption.   *)
(*                                                                         *)
(* Limiter.  The leases are followed as one set of pairs of device and     *)
(* lease (Held): every step takes a set of them away and counts it, adds   *)
(* at most one fresh lease, or starts over.  The buckets need the          *)
(* invariant that a bucket never refilled has not been paid from.          *)
(*                                                                         *)
(* Batcher.  A batch keeps its rules while it is open (Fine), because a    *)
(* packet joins only what it may join (MayJoin); the packets of the open   *)
(* batch are numbered on from those that left (Ordered).  A call of the    *)
(* batcher is a sequence of two kinds of small steps, closing the open     *)
(* batch (CloseOne) and adding a packet to it (AddOne), and each of them   *)
(* keeps both.                                                             *)
(*                                                                         *)
(* Controller.  Both small steps keep what is outstanding, packets and     *)
(* bytes, up to the packet added, so that an estimate that was below it    *)
(* stays below it.                                                         *)
(***************************************************************************)
EXTENDS DeviceLimiter, Uplink, SumTheorems, SequenceTheorems

-----------------------------------------------------------------------------
(* DeviceLimiter.                                                          *)

Lease == [id : Nat, mode : Mode, expires : Nat]

BucketRecord == [limit : Limit, tokens : Nat, last_refill : Nat, leases : SUBSET Lease]

\* A limit after normalisation.
NormalLimit(l) == l \in Limit /\ l.burst >= 1 /\ l.refill >= 1 /\ l.minimum \in 1..l.burst

BucketOK(b) == b \in BucketRecord /\ NormalLimit(b.limit) /\ b.tokens <= b.limit.burst

Typed(f) == DOMAIN f \subseteq LimitedDevice /\ f \in [DOMAIN f -> BucketRecord]
            /\ \A d \in DOMAIN f : BucketOK(f[d])

-----------------------------------------------------------------------------
(* One bucket.                                                             *)

\* Writing two fields of a bucket.
LEMMA TwoFields ==
    ASSUME NEW b \in BucketRecord, NEW l \in Limit, NEW n \in Nat, NEW t \in Nat
    PROVE  /\ [b EXCEPT !.limit = l, !.tokens = t] =
                [limit |-> l, tokens |-> t, last_refill |-> b.last_refill, leases |-> b.leases]
           /\ [b EXCEPT !.last_refill = n, !.tokens = t] =
                [limit |-> b.limit, tokens |-> t, last_refill |-> n, leases |-> b.leases]
<1> DEFINE p == [b EXCEPT !.limit = l]
           q == [b EXCEPT !.last_refill = n]
<1>1. p = [limit |-> l, tokens |-> b.tokens, last_refill |-> b.last_refill, leases |-> b.leases]
    BY DEF BucketRecord
<1>2. q = [limit |-> b.limit, tokens |-> b.tokens, last_refill |-> n, leases |-> b.leases]
    BY DEF BucketRecord
<1>3. /\ [b EXCEPT !.limit = l, !.tokens = t] = [p EXCEPT !.tokens = t]
      /\ [b EXCEPT !.last_refill = n, !.tokens = t] = [q EXCEPT !.tokens = t]
    BY DEF BucketRecord
<1> HIDE DEF p, q
<1> QED
    BY <1>1, <1>2, <1>3

\* Normalising a limit makes burst, refill and minimum positive and the minimum
\* affordable.
LEMMA NormalizedLimit == \A l \in Limit : NormalLimit(Normalized(l))
BY DEF NormalLimit, Normalized, Limit, Larger, Lesser

\* A bucket as operator[] makes it is a bucket.
LEMMA EmptyBucketOK == BucketOK(EmptyBucket)
BY DEF BucketOK, EmptyBucket, BucketRecord, NormalLimit, Limit, Lease

\* register_device() fills the bucket of a normalised limit and keeps leases and
\* refill time.
LEMMA RegisteredBucket ==
    ASSUME LimiterAssumption, NEW b, BucketOK(b), NEW l \in Limit
    PROVE  /\ BucketOK(Registered(b, l))
           /\ Registered(b, l).tokens = Registered(b, l).limit.burst
           /\ Registered(b, l).leases = b.leases /\ Registered(b, l).last_refill = b.last_refill
<1> DEFINE n == Normalized(Chosen(l))
<1>1. Chosen(l) \in Limit
    BY NormalizedLimit DEF Chosen, LimiterAssumption, NormalLimit
<1>2. NormalLimit(n) /\ n \in Limit /\ n.burst \in Nat
    BY <1>1, NormalizedLimit DEF NormalLimit, Limit
<1>3. Registered(b, l) = [b EXCEPT !.limit = n, !.tokens = n.burst]
    BY DEF Registered
<1> HIDE DEF n
<1>4. b \in BucketRecord
    BY DEF BucketOK
<1>5. Registered(b, l) =
        [limit |-> n, tokens |-> n.burst, last_refill |-> b.last_refill, leases |-> b.leases]
    BY <1>2, <1>3, <1>4, TwoFields
<1> QED
    BY <1>2, <1>4, <1>5 DEF BucketOK, BucketRecord

\* set_limit() caps the tokens.
LEMMA LimitedBucket ==
    ASSUME NEW b, BucketOK(b), NEW l \in Limit
    PROVE  /\ BucketOK(Limited(b, l))
           /\ Limited(b, l).leases = b.leases /\ Limited(b, l).last_refill = b.last_refill
<1> DEFINE n == Normalized(l)
           t == Lesser(b.tokens, n.burst)
<1>1. NormalLimit(n) /\ n \in Limit /\ n.burst \in Nat
    BY NormalizedLimit DEF NormalLimit, Limit
<1>2. Limited(b, l) = [b EXCEPT !.limit = n, !.tokens = t]
    BY DEF Limited
<1>3. b \in BucketRecord
    BY DEF BucketOK
<1>4. t \in Nat /\ t <= n.burst
    BY <1>1, <1>3 DEF Lesser, BucketRecord
<1> HIDE DEF n, t
<1>5. Limited(b, l) =
        [limit |-> n, tokens |-> t, last_refill |-> b.last_refill, leases |-> b.leases]
    BY <1>1, <1>2, <1>3, <1>4, TwoFields
<1> QED
    BY <1>1, <1>3, <1>4, <1>5 DEF BucketOK, BucketRecord

\* Division rounds down.
LEMMA RoundedDown ==
    ASSUME NEW a \in Nat, NEW k \in Nat \ {0}
    PROVE  a \div k \in Nat /\ k * (a \div k) <= a /\ a < k * (a \div k) + k
OBVIOUS

\* refill() keeps limit and leases, never takes tokens away or turns the clock
\* back, and adds no more than the rate yields since the last refill.
LEMMA RefilledBucket ==
    ASSUME LimiterAssumption, NEW b, BucketOK(b), NEW now \in Nat \ {0}
    PROVE  LET r == Refill(b, now)
           IN  /\ BucketOK(r) /\ r.limit = b.limit /\ r.leases = b.leases
               /\ r.tokens >= b.tokens /\ r.last_refill >= b.last_refill /\ r.last_refill # 0
               /\ b.last_refill = 0 => r.last_refill = now
               /\ b.last_refill # 0 =>
                    OneSecond * r.tokens <=
                        OneSecond * b.tokens + b.limit.refill * (r.last_refill - b.last_refill)
<1> DEFINE r == Refill(b, now)
           burst == b.limit.burst
           rate == b.limit.refill
           last == b.last_refill
           have == b.tokens
<1>1. /\ b \in BucketRecord /\ b.limit \in Limit /\ burst \in Nat /\ rate \in Nat /\ last \in Nat
      /\ have \in Nat /\ have <= burst /\ burst >= 1 /\ rate >= 1
      /\ OneSecond \in Nat \ {0} /\ NormalLimit(b.limit) /\ b.leases \in SUBSET Lease
    BY DEF BucketOK, BucketRecord, NormalLimit, Limit, LimiterAssumption
<1>2. CASE last = 0
    <2> DEFINE t == IF have = 0 THEN burst ELSE have
    <2>1. r = [b EXCEPT !.last_refill = now, !.tokens = t]
        BY <1>2 DEF Refill
    <2>2. t \in Nat /\ t <= burst /\ t >= have
        BY <1>1
    <2> HIDE DEF t
    <2>3. r = [limit |-> b.limit, tokens |-> t, last_refill |-> now, leases |-> b.leases]
        <3> HIDE DEF r
        <3> QED
            BY <1>1, <2>1, <2>2, TwoFields
    <2> QED
        BY <1>1, <1>2, <2>2, <2>3 DEF BucketOK, BucketRecord
<1>3. CASE last # 0 /\ now > last /\ Gained(b, now) # 0
    <2> DEFINE g == Gained(b, now)
               t == Lesser(burst, have + Lesser(g, burst))
    <2>1. r = [b EXCEPT !.last_refill = now, !.tokens = t]
        BY <1>3 DEF Refill
    <2>2. (now - last) * rate \in Nat
        BY <1>1, <1>3
    <2>3. g \in Nat /\ OneSecond * g <= (now - last) * rate
        BY <1>1, <2>2, RoundedDown DEF Gained
    <2>4. t \in Nat /\ t <= burst /\ t >= have /\ t <= have + g
        BY <1>1, <2>3 DEF Lesser
    <2> HIDE DEF t, g
    <2>5. r = [limit |-> b.limit, tokens |-> t, last_refill |-> now, leases |-> b.leases]
        <3> HIDE DEF r
        <3> QED
            BY <1>1, <2>1, <2>4, TwoFields
    <2>6. OneSecond * t <= OneSecond * (have + g)
        BY <1>1, <2>3, <2>4
    <2>7. OneSecond * (have + g) = OneSecond * have + OneSecond * g
        BY <1>1, <2>3
    <2>8. (now - last) * rate = rate * (now - last)
        BY <1>1
    <2>9. OneSecond * t <= OneSecond * have + rate * (now - last)
        BY <1>1, <2>2, <2>3, <2>4, <2>6, <2>7, <2>8
    <2> QED
        BY <1>1, <1>3, <2>4, <2>5, <2>9 DEF BucketOK, BucketRecord
<1>4. CASE last # 0 /\ ~(now > last /\ Gained(b, now) # 0)
    <2>1. r = b
        BY <1>4 DEF Refill
    <2>2. OneSecond * have <= OneSecond * have + rate * (last - last)
        BY <1>1
    <2> QED
        BY <1>1, <1>4, <2>1, <2>2
<1> QED
    BY <1>2, <1>3, <1>4

\* Enough time yields enough tokens: if the rate covers what is missing, the
\* refilled bucket holds it, up to the burst.
LEMMA RefillCovers ==
    ASSUME LimiterAssumption, NEW b, BucketOK(b), b.last_refill # 0, NEW now \in Nat \ {0},
           NEW missing \in Nat \ {0}, now > b.last_refill,
           OneSecond * missing <= (now - b.last_refill) * b.limit.refill,
           b.tokens + missing <= b.limit.burst
    PROVE  Refill(b, now).tokens >= b.tokens + missing
<1> DEFINE burst == b.limit.burst
           rate == b.limit.refill
           last == b.last_refill
           have == b.tokens
           g == Gained(b, now)
           t == Lesser(burst, have + Lesser(g, burst))
<1>1. /\ b \in BucketRecord /\ burst \in Nat /\ rate \in Nat /\ last \in Nat /\ have \in Nat
      /\ OneSecond \in Nat \ {0}
    BY DEF BucketOK, BucketRecord, NormalLimit, Limit, LimiterAssumption
<1>2. (now - last) * rate \in Nat
    BY <1>1
<1>3. g \in Nat /\ (now - last) * rate < OneSecond * g + OneSecond
    BY <1>1, <1>2, RoundedDown DEF Gained
<1>4. g >= missing
    <2> SUFFICES ASSUME g + 1 <= missing PROVE FALSE
        BY <1>3
    <2>1. OneSecond * (g + 1) <= OneSecond * missing
        BY <1>1, <1>3
    <2>2. OneSecond * (g + 1) = OneSecond * g + OneSecond
        BY <1>1, <1>3
    <2> QED
        BY <1>1, <1>2, <1>3, <2>1, <2>2
<1>5. Refill(b, now) = [b EXCEPT !.last_refill = now, !.tokens = t]
    BY <1>1, <1>3, <1>4 DEF Refill
<1>6. t \in Nat /\ t >= have + missing
    BY <1>1, <1>3, <1>4 DEF Lesser
<1> HIDE DEF t
<1>7. [b EXCEPT !.last_refill = now, !.tokens = t].tokens = t
    BY <1>1 DEF BucketRecord
<1> QED
    BY <1>1, <1>5, <1>6, <1>7

-----------------------------------------------------------------------------
(* The map of devices.                                                     *)

\* The bucket of a device, stored or new, is a bucket.
LEMMA BucketTyped == ASSUME Typed(devices) PROVE \A d \in LimitedDevice : BucketOK(Bucket(d))
BY EmptyBucketOK DEF Typed, Bucket

\* Storing a bucket keeps the map of buckets.
LEMMA PutTyped ==
    ASSUME NEW f, Typed(f), NEW d \in LimitedDevice, NEW b, BucketOK(b)
    PROVE  /\ Typed(Put(f, d, b)) /\ DOMAIN Put(f, d, b) = DOMAIN f \cup {d}
           /\ \A e \in DOMAIN Put(f, d, b) : Put(f, d, b)[e] = IF e = d THEN b ELSE f[e]
BY DEF Typed, Put, BucketOK

SameRate(b, c) == c.limit = b.limit /\ c.tokens = b.tokens /\ c.last_refill = b.last_refill

\* Dropping expired leases keeps the buckets otherwise.
LEMMA UnexpiredTyped ==
    ASSUME NEW f, Typed(f), NEW now
    PROVE  /\ Typed(Unexpired(f, now)) /\ DOMAIN Unexpired(f, now) = DOMAIN f
           /\ \A d \in DOMAIN f :
                /\ Unexpired(f, now)[d].leases = Live(f[d], now)
                /\ SameRate(f[d], Unexpired(f, now)[d])
<1> DEFINE u == Unexpired(f, now)
<1>1. DOMAIN u = DOMAIN f /\ \A d \in DOMAIN f : u[d] = [f[d] EXCEPT !.leases = Live(f[d], now)]
    BY DEF Unexpired
<1>2. \A d \in DOMAIN f : f[d] \in BucketRecord /\ Live(f[d], now) \in SUBSET Lease
    BY DEF Typed, Live, BucketRecord
<1>3. \A d \in DOMAIN f :
        /\ u[d] \in BucketRecord
        /\ u[d].leases = Live(f[d], now) /\ u[d].limit = f[d].limit
        /\ u[d].tokens = f[d].tokens /\ u[d].last_refill = f[d].last_refill
    BY <1>1, <1>2 DEF BucketRecord
<1>4. \A d \in DOMAIN f : BucketOK(u[d])
    BY <1>3 DEF Typed, BucketOK
<1>5. u \in [DOMAIN u -> BucketRecord]
    BY <1>1, <1>3 DEF Unexpired
<1> QED
    BY <1>1, <1>3, <1>4, <1>5 DEF Typed, SameRate

\* The bucket acquire() and check() work on before anything expires.
Opened(d) == IF d \in DOMAIN devices THEN devices[d] ELSE Registered(EmptyBucket, DefaultLimit)

\* acquire() and check() start from the stored buckets, and a full one for an
\* unknown device.
LEMMA PreparedTyped ==
    ASSUME LimiterAssumption, Typed(devices), NEW d \in LimitedDevice, NEW now
    PROVE  /\ BucketOK(Opened(d))
           /\ Typed(Prepared(d, now)) /\ DOMAIN Prepared(d, now) = DOMAIN devices \cup {d}
           /\ \A e \in DOMAIN devices \cup {d} :
                LET b == IF e = d THEN Opened(d) ELSE devices[e]
                IN  /\ Prepared(d, now)[e].leases = Live(b, now)
                    /\ SameRate(b, Prepared(d, now)[e])
<1>1. BucketOK(Opened(d))
    <2>1. DefaultLimit \in Limit
        BY DEF LimiterAssumption
    <2> QED
        BY <2>1, EmptyBucketOK, RegisteredBucket DEF Opened, Typed
<1> DEFINE f == Put(devices, d, Opened(d))
<1>2. /\ Typed(f) /\ DOMAIN f = DOMAIN devices \cup {d}
      /\ \A e \in DOMAIN f : f[e] = IF e = d THEN Opened(d) ELSE devices[e]
    BY <1>1, PutTyped
<1>3. Prepared(d, now) = Unexpired(f, now)
    BY DEF Prepared, Opened
<1> HIDE DEF f
<1> QED
    BY <1>1, <1>2, <1>3, UnexpiredTyped

\* Which pairs are held.
LEMMA HeldPairs ==
    ASSUME NEW f
    PROVE  /\ \A d, l : <<d, l>> \in Held(f) <=> d \in DOMAIN f /\ l \in f[d].leases
           /\ \A h \in Held(f) : h = <<h[1], h[2]>>
BY DEF Held

\* Two maps with the same leases hold the same pairs.
LEMMA HeldEqual ==
    ASSUME NEW f, NEW H, \A h \in H : h = <<h[1], h[2]>>,
           \A d, l : <<d, l>> \in H <=> d \in DOMAIN f /\ l \in f[d].leases
    PROVE  Held(f) = H
<1>1. \A h \in Held(f) : h \in H
    BY HeldPairs
<1>2. \A h \in H : h \in Held(f)
    BY HeldPairs
<1> QED
    BY <1>1, <1>2

\* After acquire() or check() dropped what expired, the lapsed leases are gone
\* and all others are held as before.
LEMMA PreparedHeld ==
    ASSUME LimiterAssumption, Typed(devices), NEW d \in LimitedDevice, NEW now \in LimiterTime
    PROVE  /\ Held(Prepared(d, now)) = Held(devices) \ Lapsed(now)
           /\ Held(Unexpired(devices, now)) = Held(devices) \ Lapsed(now)
<1> DEFINE H == Held(devices) \ Lapsed(now)
<1>0. \A e \in DOMAIN devices : \A l \in devices[e].leases : l.expires \in Nat
    BY DEF Typed, BucketRecord, Lease
<1>1. \A e, l : <<e, l>> \in H <=> e \in DOMAIN devices /\ l \in Live(devices[e], now)
    <2> SUFFICES ASSUME NEW e, NEW l
                 PROVE  <<e, l>> \in H <=> e \in DOMAIN devices /\ l \in Live(devices[e], now)
        OBVIOUS
    <2>1. <<e, l>> \in Held(devices) <=> e \in DOMAIN devices /\ l \in devices[e].leases
        BY HeldPairs
    <2>2. <<e, l>> \in H <=> <<e, l>> \in Held(devices) /\ ~(l.expires <= now)
        BY DEF Lapsed
    <2>3. now \in Nat
        BY DEF LimiterAssumption
    <2> QED
        BY <1>0, <2>1, <2>2, <2>3 DEF Live
<1>2. \A h \in H : h = <<h[1], h[2]>>
    BY HeldPairs
<1> HIDE DEF H
<1>3. Held(Unexpired(devices, now)) = H
    <2> DEFINE u == Unexpired(devices, now)
    <2>1. /\ DOMAIN u = DOMAIN devices
          /\ \A e \in DOMAIN devices : u[e].leases = Live(devices[e], now)
        BY UnexpiredTyped
    <2> HIDE DEF u
    <2>2. \A e, l : <<e, l>> \in H <=> e \in DOMAIN u /\ l \in u[e].leases
        BY <1>1, <2>1
    <2>3. Held(u) = H
        BY <1>2, <2>2, HeldEqual
    <2> QED
        BY <2>3 DEF u
<1>4. Held(Prepared(d, now)) = H
    <2>1. d \notin DOMAIN devices => Opened(d).leases = {}
        BY EmptyBucketOK, RegisteredBucket DEF Opened, EmptyBucket, LimiterAssumption
    <2>2. d \notin DOMAIN devices => Live(Opened(d), now) = {}
        BY <2>1 DEF Live
    <2>3. d \in DOMAIN devices => Opened(d) = devices[d]
        BY DEF Opened
    <2> DEFINE u == Prepared(d, now)
    <2>4. /\ DOMAIN u = DOMAIN devices \cup {d}
          /\ \A e \in DOMAIN devices \cup {d} :
                u[e].leases = Live(IF e = d THEN Opened(d) ELSE devices[e], now)
        BY PreparedTyped
    <2> HIDE DEF u
    <2>5. \A e, l : <<e, l>> \in H <=> e \in DOMAIN u /\ l \in u[e].leases
        <3> SUFFICES ASSUME NEW e, NEW l
                     PROVE  <<e, l>> \in H <=> e \in DOMAIN u /\ l \in u[e].leases
            OBVIOUS
        <3>1. CASE e = d
            BY <1>1, <2>2, <2>3, <2>4, <3>1
        <3>2. CASE e # d
            BY <1>1, <2>4, <3>2
        <3> QED
            BY <3>1, <3>2
    <2>6. Held(u) = H
        BY <1>2, <2>5, HeldEqual
    <2> QED
        BY <2>6 DEF u
<1> QED
    BY <1>3, <1>4 DEF H

\* Replacing the bucket of a stored device.
LEMMA ReplaceTyped ==
    ASSUME NEW f, Typed(f), NEW d \in DOMAIN f, NEW b, BucketOK(b)
    PROVE  LET g == [f EXCEPT ![d] = b]
           IN  /\ Typed(g) /\ DOMAIN g = DOMAIN f
               /\ \A e \in DOMAIN f : g[e] = IF e = d THEN b ELSE f[e]
               /\ b.leases = f[d].leases => Held(g) = Held(f)
<1> DEFINE g == [f EXCEPT ![d] = b]
<1>1. DOMAIN g = DOMAIN f /\ \A e \in DOMAIN f : g[e] = IF e = d THEN b ELSE f[e]
    BY DEF Typed
<1>2. Typed(g)
    BY DEF Typed, BucketOK
<1> HIDE DEF g
<1>3. ASSUME b.leases = f[d].leases PROVE Held(g) = Held(f)
    <2>1. \A e, l : <<e, l>> \in Held(f) <=> e \in DOMAIN g /\ l \in g[e].leases
        BY <1>1, <1>3, HeldPairs
    <2> QED
        BY <2>1, HeldPairs, HeldEqual
<1> QED
    BY <1>1, <1>2, <1>3 DEF g

\* What check() leaves behind: the refilled bucket of the device, the others as
\* acquire() and check() found them.
LEMMA CheckedTyped ==
    ASSUME LimiterAssumption, Typed(devices), NEW d \in LimitedDevice, NEW now \in LimiterTime
    PROVE  /\ Typed(Checked(d, now)) /\ DOMAIN Checked(d, now) = DOMAIN devices \cup {d}
           /\ BucketOK(Prepared(d, now)[d])
           /\ Checked(d, now)[d] = Refill(Prepared(d, now)[d], now)
           /\ \A e \in DOMAIN devices \ {d} : Checked(d, now)[e] = Prepared(d, now)[e]
           /\ Held(Checked(d, now)) = Held(devices) \ Lapsed(now)
<1> DEFINE p == Prepared(d, now)
           r == Refill(p[d], now)
<1>1. Typed(p) /\ DOMAIN p = DOMAIN devices \cup {d}
    BY PreparedTyped
<1>2. d \in DOMAIN p /\ BucketOK(p[d]) /\ now \in Nat \ {0}
    BY <1>1 DEF Typed, LimiterAssumption
<1>3. Checked(d, now) = [p EXCEPT ![d] = r]
    BY DEF Checked
<1>4. Held(p) = Held(devices) \ Lapsed(now)
    BY PreparedHeld
<1> HIDE DEF p
<1>5. BucketOK(r) /\ r.leases = p[d].leases
    BY <1>2, RefilledBucket
<1> HIDE DEF r
<1>6. LET g == [p EXCEPT ![d] = r]
      IN  /\ Typed(g) /\ DOMAIN g = DOMAIN p
          /\ \A e \in DOMAIN p : g[e] = IF e = d THEN r ELSE p[e]
          /\ Held(g) = Held(p)
    BY <1>1, <1>2, <1>5, ReplaceTyped
<1> QED
    BY <1>1, <1>2, <1>3, <1>4, <1>6 DEF p, r

\* The bucket consume() leaves.
LEMMA ConsumedBucket ==
    ASSUME NEW b, BucketOK(b), NEW cost \in Nat, Allowed(b, cost)
    PROVE  LET price == EffectiveCost(b, cost)
               c == [b EXCEPT !.tokens = @ - price]
           IN  /\ price \in Nat /\ price <= b.tokens
               /\ BucketOK(c) /\ c.leases = b.leases /\ c.limit = b.limit
               /\ c.tokens = b.tokens - price /\ c.last_refill = b.last_refill
<1> DEFINE price == EffectiveCost(b, cost)
           c == [b EXCEPT !.tokens = @ - price]
<1>1. b \in BucketRecord /\ b.tokens \in Nat /\ b.tokens <= b.limit.burst /\ b.limit.burst \in Nat
    BY DEF BucketOK, BucketRecord, Limit
<1>2. price \in Nat /\ price <= b.tokens
    BY <1>1 DEF Allowed, EffectiveCost, Larger, BucketOK, NormalLimit
<1> HIDE DEF price
<1>3. /\ c \in BucketRecord /\ c.leases = b.leases /\ c.limit = b.limit
      /\ c.tokens = b.tokens - price /\ c.last_refill = b.last_refill
    BY <1>1, <1>2 DEF BucketRecord
<1> HIDE DEF c
<1>4. BucketOK(c)
    BY <1>1, <1>2, <1>3 DEF BucketOK
<1> QED
    BY <1>2, <1>3, <1>4 DEF c, price

-----------------------------------------------------------------------------
(* The leases.                                                             *)

Out == lstats.released + lstats.expired + dropped

\* A set of leases goes and is counted.
Loses(L) ==
    /\ L \subseteq Held(devices) /\ Held(devices') = Held(devices) \ L
    /\ nextLease' = nextLease /\ lstats'.granted = lstats.granted /\ Out' = Out + Cardinality(L)

\* The same, and device d gets a lease that conflicts with none that stays.
Gains(L, d, g) ==
    /\ L \subseteq Held(devices) /\ Held(devices') = (Held(devices) \ L) \cup {<<d, g>>}
    /\ g.id = nextLease /\ nextLease' = nextLease + 1
    /\ lstats'.granted = lstats.granted + 1 /\ Out' = Out + Cardinality(L)
    /\ \A l : <<d, l>> \in Held(devices) \ L => g.mode # "exclusive" /\ l.mode # "exclusive"

StartsOver ==
    /\ Held(devices') = {} /\ nextLease' = 1 /\ lstats'.granted = 0 /\ Out' = 0

LeaseStep ==
    \/ \E L \in SUBSET Held(devices) : Loses(L)
    \/ \E L \in SUBSET Held(devices) : \E d, g : Gains(L, d, g)
    \/ StartsOver

StatsTyped == lstats \in [DOMAIN ZeroLimiterStats -> Nat] /\ dropped \in Nat

IdsFresh ==
    /\ nextLease \in Nat /\ IsFiniteSet(Held(devices))
    /\ \A h \in Held(devices) : h[2].id \in Nat /\ h[2].id < nextLease

LeaseInv == Typed(devices) /\ StatsTyped /\ IdsFresh /\ LeasesSound

\* Any set of held leases has a size.
LEMMA HeldFinite ==
    ASSUME IdsFresh, NEW L, L \subseteq Held(devices)
    PROVE  IsFiniteSet(L) /\ Cardinality(L) \in Nat
<1>1. IsFiniteSet(L)
    BY FS_Subset DEF IdsFresh
<1> QED
    BY <1>1, FS_CardinalityType

\* Counting the expired leases.
LEMMA ExpiredCounted ==
    ASSUME StatsTyped, IdsFresh, NEW now, lstats' = CountExpired(now), dropped' = dropped
    PROVE  /\ StatsTyped' /\ lstats'.granted = lstats.granted
           /\ Out' = Out + Cardinality(Lapsed(now))
<1>1. Cardinality(Lapsed(now)) \in Nat
    <2>1. Lapsed(now) \subseteq Held(devices)
        BY DEF Lapsed
    <2> QED
        BY <2>1, HeldFinite
<1>2. lstats' = [lstats EXCEPT !.expired = @ + Cardinality(Lapsed(now))]
    BY DEF CountExpired
<1> QED
    BY <1>1, <1>2 DEF StatsTyped, Out, ZeroLimiterStats

\* Every operation keeps the types and is one of the three kinds of step.
LEMMA LimiterSteps ==
    ASSUME LimiterAssumption, Typed(devices), StatsTyped, IdsFresh, [NextLimiter]_limiterVars
    PROVE  Typed(devices') /\ StatsTyped' /\ LeaseStep
<1> DEFINE Goal == Typed(devices') /\ StatsTyped' /\ LeaseStep
<1>0. /\ \A l \in Limits : l \in Limit
      /\ \A now \in LimiterTime : now \in Nat \ {0}
    BY DEF LimiterAssumption
<1>1. ASSUME Typed(devices'), Held(devices') = Held(devices), UNCHANGED <<lstats, nextLease, dropped>>
      PROVE  Goal
    <2>1. Cardinality({}) = 0 /\ Out \in Nat
        BY FS_EmptySet DEF Out, StatsTyped, ZeroLimiterStats
    <2>2. Loses({})
        BY <1>1, <2>1 DEF Loses, Out
    <2> QED
        BY <1>1, <2>2 DEF LeaseStep, StatsTyped
<1>2. ASSUME NEW now \in LimiterTime, Typed(devices'), Held(devices') = Held(devices) \ Lapsed(now),
             lstats' = CountExpired(now), UNCHANGED <<nextLease, dropped>>
      PROVE  Goal
    <2>1. /\ StatsTyped' /\ lstats'.granted = lstats.granted
          /\ Out' = Out + Cardinality(Lapsed(now))
        BY <1>2, ExpiredCounted
    <2>2. Lapsed(now) \in SUBSET Held(devices)
        BY DEF Lapsed
    <2>3. Loses(Lapsed(now))
        BY <1>2, <2>1, <2>2 DEF Loses
    <2> QED
        BY <1>2, <2>1, <2>2, <2>3 DEF LeaseStep
<1>3. ASSUME NEW d \in LimitedDevice, NEW b, BucketOK(b), b.leases = Bucket(d).leases,
             devices' = Put(devices, d, b)
      PROVE  Typed(devices') /\ Held(devices') = Held(devices)
    <2>1. /\ Typed(devices') /\ DOMAIN devices' = DOMAIN devices \cup {d}
          /\ \A e \in DOMAIN devices' : devices'[e] = IF e = d THEN b ELSE devices[e]
        <3> DEFINE g == Put(devices, d, b)
        <3>1. DOMAIN g = DOMAIN devices \cup {d}
            BY DEF Put
        <3>2. \A e \in DOMAIN g : g[e] = IF e = d THEN b ELSE devices[e]
            BY DEF Put
        <3>3. b \in BucketRecord /\ BucketOK(b)
            BY <1>3 DEF BucketOK
        <3>4. g \in [DOMAIN g -> BucketRecord]
            BY <3>3 DEF Put, Typed
        <3>5. devices' = g
            BY <1>3
        <3> HIDE DEF g
        <3> QED
            BY <3>1, <3>2, <3>3, <3>4, <3>5 DEF Typed
    <2>2. d \notin DOMAIN devices => b.leases = {}
        BY <1>3 DEF Bucket, EmptyBucket
    <2>3. d \in DOMAIN devices => b.leases = devices[d].leases
        BY <1>3 DEF Bucket
    <2>4. \A e, l : <<e, l>> \in Held(devices) <=> e \in DOMAIN devices' /\ l \in devices'[e].leases
        <3> SUFFICES ASSUME NEW e, NEW l
                     PROVE  <<e, l>> \in Held(devices) <=>
                                e \in DOMAIN devices' /\ l \in devices'[e].leases
            OBVIOUS
        <3>1. <<e, l>> \in Held(devices) <=> e \in DOMAIN devices /\ l \in devices[e].leases
            BY HeldPairs
        <3> QED
            BY <2>1, <2>2, <2>3, <3>1
    <2> QED
        BY <2>1, <2>4, HeldPairs, HeldEqual
<1>4. ASSUME NEW d \in LimitedDevice, NEW limit \in Limits, RegisterDevice(d, limit) PROVE Goal
    <2>1. BucketOK(Bucket(d))
        BY BucketTyped
    <2> DEFINE b == Registered(Bucket(d), limit)
    <2>2. BucketOK(b) /\ b.leases = Bucket(d).leases
        BY <1>0, <2>1, RegisteredBucket
    <2>3. devices' = Put(devices, d, b)
        BY <1>4 DEF RegisterDevice
    <2> HIDE DEF b
    <2> QED
        BY <1>1, <1>3, <1>4, <2>2, <2>3 DEF RegisterDevice
<1>5. ASSUME NEW d \in LimitedDevice, UnregisterDevice(d) PROVE Goal
    <2> DEFINE L == {<<d, l>> : l \in devices[d].leases}
               ls == devices[d].leases
    <2>1. d \in DOMAIN devices /\ devices' = [e \in DOMAIN devices \ {d} |-> devices[e]]
        BY <1>5 DEF UnregisterDevice
    <2>2. Typed(devices')
        BY <2>1 DEF Typed
    <2>3. L \subseteq Held(devices)
        BY <2>1, HeldPairs
    <2>4. Held(devices') = Held(devices) \ L
        <3>1. \A e, l : <<e, l>> \in Held(devices) \ L <=>
                            e \in DOMAIN devices' /\ l \in devices'[e].leases
            BY <2>1, HeldPairs
        <3> QED
            BY <3>1, HeldPairs, HeldEqual
    <2>5. IsFiniteSet(L) /\ Cardinality(L) \in Nat
        BY <2>3, HeldFinite
    <2>6. Cardinality(ls) = Cardinality(L)
        <3> DEFINE f == [h \in L |-> h[2]]
        <3>1. f \in [L -> ls]
            OBVIOUS
        <3>2. \A h, k \in L : f[h] = f[k] => h = k
            OBVIOUS
        <3>3. \A l \in ls : <<d, l>> \in L /\ f[<<d, l>>] = l
            OBVIOUS
        <3> HIDE DEF f, L, ls
        <3>4. f \in Bijection(L, ls)
            BY <3>1, <3>2, <3>3 DEF Bijection, Injection, Surjection, IsInjective
        <3>5. ExistsBijection(L, ls)
            BY <3>4 DEF ExistsBijection
        <3> QED
            BY <2>5, <3>5, FS_Bijection
    <2>7. dropped' = dropped + Cardinality(ls) /\ lstats' = lstats /\ nextLease' = nextLease
        BY <1>5 DEF UnregisterDevice
    <2> HIDE DEF L, ls
    <2>8. StatsTyped' /\ Out' = Out + Cardinality(L)
        BY <2>5, <2>6, <2>7 DEF StatsTyped, Out, ZeroLimiterStats
    <2>9. Loses(L)
        BY <2>3, <2>4, <2>7, <2>8 DEF Loses
    <2> QED
        BY <2>2, <2>3, <2>8, <2>9 DEF LeaseStep
<1>6. ASSUME NEW d \in LimitedDevice, NEW limit \in Limits, SetLimit(d, limit) PROVE Goal
    <2>1. BucketOK(Bucket(d))
        BY BucketTyped
    <2> DEFINE b == Limited(Bucket(d), limit)
    <2>2. BucketOK(b) /\ b.leases = Bucket(d).leases
        BY <1>0, <2>1, LimitedBucket
    <2>3. devices' = Put(devices, d, b)
        BY <1>6 DEF SetLimit
    <2> HIDE DEF b
    <2> QED
        BY <1>1, <1>3, <1>6, <2>2, <2>3 DEF SetLimit
<1>7. ASSUME NEW d \in LimitedDevice, NEW mode \in Mode, NEW now \in LimiterTime, AcquireLocked(d, mode, now)
      PROVE  Goal
    <2>1. devices' = Prepared(d, now) /\ lstats' = CountExpired(now) /\ UNCHANGED <<nextLease, dropped>>
        BY <1>7 DEF AcquireLocked
    <2>2. Typed(Prepared(d, now)) /\ Held(Prepared(d, now)) = Held(devices) \ Lapsed(now)
        BY PreparedTyped, PreparedHeld
    <2> QED
        BY <1>2, <2>1, <2>2
<1>8. ASSUME NEW d \in LimitedDevice, NEW mode \in Mode, NEW ttl \in Ttls, NEW now \in LimiterTime,
             AcquireGranted(d, mode, ttl, now)
      PROVE  Goal
    <2> DEFINE p == Prepared(d, now)
               g == [id |-> nextLease, mode |-> mode,
                     expires |-> now + (IF ttl = 0 THEN LeaseTtl ELSE ttl)]
               b == [p[d] EXCEPT !.leases = @ \cup {g}]
               L == Lapsed(now)
    <2>1. /\ devices' = [p EXCEPT ![d].leases = @ \cup {g}]
          /\ ~LeaseConflict(p[d].leases, mode)
          /\ lstats' = [CountExpired(now) EXCEPT !.granted = @ + 1]
          /\ nextLease' = nextLease + 1 /\ dropped' = dropped
        BY <1>8 DEF AcquireGranted, NextLeaseId
    <2>2. Typed(p) /\ DOMAIN p = DOMAIN devices \cup {d} /\ Held(p) = Held(devices) \ L
        BY PreparedTyped, PreparedHeld
    <2>3. g \in Lease /\ g.id = nextLease /\ g.mode = mode
        <3>1. now + (IF ttl = 0 THEN LeaseTtl ELSE ttl) \in Nat
            BY <1>0 DEF LimiterAssumption
        <3> QED
            BY <3>1 DEF Lease, IdsFresh
    <2>4. L \in SUBSET Held(devices) /\ Cardinality(L) \in Nat
        <3>1. L \subseteq Held(devices)
            BY DEF Lapsed
        <3> QED
            BY <3>1, HeldFinite
    <2>5. d \in DOMAIN p /\ BucketOK(p[d])
        BY <2>2 DEF Typed
    <2> HIDE DEF p, g, L
    <2>6. BucketOK(b) /\ b.leases = p[d].leases \cup {g}
        <3>1. p[d] \in BucketRecord /\ p[d].leases \cup {g} \in SUBSET Lease
            BY <2>3, <2>5 DEF BucketOK, BucketRecord
        <3>2. /\ b \in BucketRecord /\ b.leases = p[d].leases \cup {g}
              /\ b.limit = p[d].limit /\ b.tokens = p[d].tokens
            BY <3>1 DEF BucketRecord
        <3> QED
            BY <2>5, <3>2 DEF BucketOK
    <2>7. devices' = [p EXCEPT ![d] = b]
        BY <2>1
    <2> HIDE DEF b
    <2>8. /\ Typed(devices') /\ DOMAIN devices' = DOMAIN p
          /\ \A e \in DOMAIN p : devices'[e] = IF e = d THEN b ELSE p[e]
        BY <2>2, <2>5, <2>6, <2>7, ReplaceTyped
    <2>9. Held(devices') = (Held(devices) \ L) \cup {<<d, g>>}
        <3> DEFINE H == Held(p) \cup {<<d, g>>}
        <3>1. \A e, l : <<e, l>> \in Held(p) <=> e \in DOMAIN p /\ l \in p[e].leases
            BY HeldPairs
        <3>2. \A e, l : <<e, l>> \in H <=> <<e, l>> \in Held(p) \/ (e = d /\ l = g)
            OBVIOUS
        <3>3. \A h \in H : h = <<h[1], h[2]>>
            BY HeldPairs
        <3> HIDE DEF H
        <3>4. \A e, l : <<e, l>> \in H <=> e \in DOMAIN devices' /\ l \in devices'[e].leases
            <4> SUFFICES ASSUME NEW e, NEW l
                         PROVE  <<e, l>> \in H <=> e \in DOMAIN devices' /\ l \in devices'[e].leases
                OBVIOUS
            <4>1. CASE e = d
                BY <2>5, <2>6, <2>8, <3>1, <3>2, <4>1
            <4>2. CASE e # d
                BY <2>8, <3>1, <3>2, <4>2
            <4> QED
                BY <4>1, <4>2
        <3>5. Held(devices') = H
            BY <3>3, <3>4, HeldEqual
        <3> QED
            BY <2>2, <3>5 DEF H
    <2>10. StatsTyped' /\ lstats'.granted = lstats.granted + 1 /\ Out' = Out + Cardinality(L)
        <3> DEFINE c == CountExpired(now)
        <3>1. c = [lstats EXCEPT !.expired = @ + Cardinality(L)]
            BY DEF CountExpired, L
        <3>2. /\ c \in [DOMAIN ZeroLimiterStats -> Nat] /\ c.granted = lstats.granted
              /\ c.released = lstats.released /\ c.expired = lstats.expired + Cardinality(L)
            BY <2>4, <3>1 DEF StatsTyped, ZeroLimiterStats
        <3>3. lstats' = [c EXCEPT !.granted = @ + 1]
            BY <2>1
        <3> HIDE DEF c
        <3>4. /\ lstats' \in [DOMAIN ZeroLimiterStats -> Nat] /\ lstats'.granted = c.granted + 1
              /\ lstats'.released = c.released /\ lstats'.expired = c.expired
            BY <3>2, <3>3 DEF ZeroLimiterStats
        <3> QED
            BY <2>1, <2>4, <3>2, <3>4 DEF StatsTyped, Out, ZeroLimiterStats
    <2>11. \A l : <<d, l>> \in Held(devices) \ L => g.mode # "exclusive" /\ l.mode # "exclusive"
        <3>1. \A l : <<d, l>> \in Held(devices) \ L => l \in p[d].leases
            BY <2>2, HeldPairs
        <3> QED
            BY <2>1, <2>3, <3>1 DEF LeaseConflict
    <2>12. Gains(L, d, g)
        BY <2>1, <2>3, <2>4, <2>9, <2>10, <2>11 DEF Gains
    <2> QED
        BY <2>4, <2>8, <2>10, <2>12 DEF LeaseStep
<1>9. ASSUME NEW id \in 1..MaxLeases, Release(id) PROVE Goal
    <2>0. PICK d \in DOMAIN devices : \E l \in devices[d].leases :
                devices' = [devices EXCEPT ![d].leases = @ \ {l}]
        BY <1>9 DEF Release
    <2>1. PICK l \in devices[d].leases : devices' = [devices EXCEPT ![d].leases = @ \ {l}]
        BY <2>0
    <2> DEFINE b == [devices[d] EXCEPT !.leases = @ \ {l}]
               L == {<<d, l>>}
    <2>2. BucketOK(b) /\ b.leases = devices[d].leases \ {l}
        <3>1. BucketOK(devices[d]) /\ devices[d] \in BucketRecord
            BY DEF Typed, BucketOK
        <3>2. /\ b \in BucketRecord /\ b.leases = devices[d].leases \ {l}
              /\ b.limit = devices[d].limit /\ b.tokens = devices[d].tokens
            BY <3>1 DEF BucketRecord
        <3> QED
            BY <3>1, <3>2 DEF BucketOK
    <2>3. devices' = [devices EXCEPT ![d] = b]
        BY <2>1
    <2> HIDE DEF b
    <2>4. /\ Typed(devices') /\ DOMAIN devices' = DOMAIN devices
          /\ \A e \in DOMAIN devices : devices'[e] = IF e = d THEN b ELSE devices[e]
        BY <2>2, <2>3, ReplaceTyped
    <2>5. L \subseteq Held(devices) /\ Cardinality(L) = 1
        <3>1. <<d, l>> \in Held(devices)
            BY HeldPairs, Zenon
        <3> QED
            BY <3>1, FS_Singleton
    <2>6. Held(devices') = Held(devices) \ L
        <3> DEFINE H == Held(devices) \ L
        <3>1. \A e, m : <<e, m>> \in Held(devices) <=> e \in DOMAIN devices /\ m \in devices[e].leases
            BY HeldPairs
        <3>2. \A e, m : <<e, m>> \in H <=> <<e, m>> \in Held(devices) /\ ~(e = d /\ m = l)
            OBVIOUS
        <3>3. \A h \in H : h = <<h[1], h[2]>>
            BY HeldPairs
        <3> HIDE DEF H
        <3>4. \A e, m : <<e, m>> \in H <=> e \in DOMAIN devices' /\ m \in devices'[e].leases
            <4> SUFFICES ASSUME NEW e, NEW m
                         PROVE  <<e, m>> \in H <=> e \in DOMAIN devices' /\ m \in devices'[e].leases
                OBVIOUS
            <4>1. <<e, m>> \in H <=> e \in DOMAIN devices /\ m \in devices[e].leases /\ ~(e = d /\ m = l)
                BY <3>1, <3>2
            <4>2. CASE e = d
                BY <2>2, <2>4, <4>1, <4>2
            <4>3. CASE e # d
                BY <2>4, <4>1, <4>3
            <4> QED
                BY <4>2, <4>3
        <3> QED
            BY <3>3, <3>4, HeldEqual DEF H
    <2>7. lstats' = [lstats EXCEPT !.released = @ + 1] /\ UNCHANGED <<nextLease, dropped>>
        BY <1>9 DEF Release
    <2>8. StatsTyped' /\ lstats'.granted = lstats.granted /\ Out' = Out + 1
        BY <2>7 DEF StatsTyped, Out, ZeroLimiterStats
    <2>9. Loses(L)
        BY <2>5, <2>6, <2>7, <2>8 DEF Loses
    <2> QED
        BY <2>4, <2>5, <2>8, <2>9 DEF LeaseStep
<1>10. ASSUME NEW now \in LimiterTime, ExpireLeases(now) PROVE Goal
    <2>1. /\ devices' = Unexpired(devices, now) /\ lstats' = CountExpired(now)
          /\ UNCHANGED <<nextLease, dropped>>
        BY <1>10 DEF ExpireLeases
    <2>2. Typed(Unexpired(devices, now))
        BY UnexpiredTyped
    <2>3. CASE LimitedDevice # {}
        <3>1. Held(Unexpired(devices, now)) = Held(devices) \ Lapsed(now)
            BY <2>3, PreparedHeld
        <3> QED
            BY <1>2, <2>1, <2>2, <3>1
    <2>4. CASE LimitedDevice = {}
        <3>1. DOMAIN devices = {} /\ DOMAIN devices' = {}
            BY <2>1, <2>4 DEF Typed, Unexpired
        <3>2. Held(devices) = {} /\ Held(devices') = {}
            BY <3>1 DEF Held
        <3> QED
            BY <1>2, <2>1, <2>2, <3>2
    <2> QED
        BY <2>3, <2>4
<1>11. ASSUME NEW d \in LimitedDevice, NEW now \in LimiterTime, Check(d, now) PROVE Goal
    <2>1. /\ devices' = Checked(d, now) /\ lstats' = CountExpired(now)
          /\ UNCHANGED <<nextLease, dropped>>
        BY <1>11 DEF Check
    <2>2. Typed(Checked(d, now)) /\ Held(Checked(d, now)) = Held(devices) \ Lapsed(now)
        BY CheckedTyped
    <2> QED
        BY <1>2, <2>1, <2>2
<1>12. ASSUME NEW d \in LimitedDevice, NEW cost \in Costs, NEW now \in LimiterTime, Consume(d, cost, now)
       PROVE  Goal
    <2> DEFINE k == Checked(d, now)
               c == [k[d] EXCEPT !.tokens = @ - EffectiveCost(k[d], cost)]
    <2>1. /\ devices' = [k EXCEPT ![d].tokens = @ - EffectiveCost(k[d], cost)]
          /\ Allowed(k[d], cost) /\ lstats' = CountExpired(now) /\ UNCHANGED <<nextLease, dropped>>
        BY <1>12 DEF Consume
    <2>2. /\ Typed(k) /\ DOMAIN k = DOMAIN devices \cup {d}
          /\ Held(k) = Held(devices) \ Lapsed(now)
        BY CheckedTyped
    <2>3. d \in DOMAIN k /\ BucketOK(k[d]) /\ cost \in Nat
        BY <2>2 DEF Typed, LimiterAssumption
    <2> HIDE DEF k
    <2>4. BucketOK(c) /\ c.leases = k[d].leases
        BY <2>1, <2>3, ConsumedBucket
    <2>5. devices' = [k EXCEPT ![d] = c]
        BY <2>1
    <2> HIDE DEF c
    <2>6. Typed(devices') /\ Held(devices') = Held(k)
        BY <2>2, <2>3, <2>4, <2>5, ReplaceTyped
    <2> QED
        BY <1>2, <2>1, <2>2, <2>6
<1>13. ASSUME ResetLimiter PROVE Goal
    <2>1. Typed(devices') /\ Held(devices') = {}
        BY <1>13 DEF ResetLimiter, Typed, Held
    <2>2. StatsTyped' /\ StartsOver
        BY <1>13, <2>1 DEF ResetLimiter, StatsTyped, StartsOver, ZeroLimiterStats, Out
    <2> QED
        BY <2>1, <2>2 DEF LeaseStep
<1>14. ASSUME UNCHANGED limiterVars PROVE Goal
    BY <1>1, <1>14 DEF limiterVars
<1> QED
    BY <1>4, <1>5, <1>6, <1>7, <1>8, <1>9, <1>10, <1>11, <1>12, <1>13, <1>14 DEF NextLimiter

\* An exclusive lease in a set of pairs is alone on its device.
Alone(H) == \A d, l, m : <<d, l>> \in H /\ <<d, m>> \in H /\ l.mode = "exclusive" => m = l

\* LeaseExclusive speaks of the pairs that are held.
LEMMA ExclusiveAlone ==
    ASSUME NEW f
    PROVE  Alone(Held(f)) <=>
             \A d \in DOMAIN f : \A l \in f[d].leases : l.mode = "exclusive" => f[d].leases = {l}
<1>0. \A d, l : <<d, l>> \in Held(f) <=> d \in DOMAIN f /\ l \in f[d].leases
    BY HeldPairs
<1>1. ASSUME Alone(Held(f)), NEW d \in DOMAIN f, NEW l \in f[d].leases, l.mode = "exclusive"
      PROVE  f[d].leases = {l}
    <2>1. \A m \in f[d].leases : m = l
        BY <1>0, <1>1 DEF Alone
    <2> QED
        BY <2>1
<1>2. ASSUME \A d \in DOMAIN f : \A l \in f[d].leases : l.mode = "exclusive" => f[d].leases = {l},
             NEW d, NEW l, NEW m, <<d, l>> \in Held(f), <<d, m>> \in Held(f), l.mode = "exclusive"
      PROVE  m = l
    BY <1>0, <1>2
<1> QED
    BY <1>1, <1>2 DEF Alone

\* The lease invariant is inductive: each kind of step keeps the leases apart,
\* their ids below the next one and their number accounted for.
LEMMA NextLeaseInv == ASSUME LimiterAssumption, LeaseInv, [NextLimiter]_limiterVars PROVE LeaseInv'
<1> DEFINE H == Held(devices)
           K == Held(devices')
<1>1. Typed(devices') /\ StatsTyped' /\ LeaseStep
    BY LimiterSteps DEF LeaseInv
<1>2. /\ IsFiniteSet(H) /\ Alone(H) /\ nextLease \in Nat
      /\ lstats.granted \in Nat /\ Out \in Nat /\ lstats.granted = Out + Cardinality(H)
      /\ \A h \in H : h[2].id \in Nat /\ h[2].id < nextLease
    <2>1. Alone(H)
        BY ExclusiveAlone DEF LeaseInv, LeasesSound, LeaseExclusive
    <2>2. lstats.granted \in Nat /\ Out \in Nat
        BY DEF LeaseInv, StatsTyped, ZeroLimiterStats, Out
    <2> QED
        BY <2>1, <2>2 DEF LeaseInv, LeasesSound, LeaseConservation, IdsFresh, Out
<1> DEFINE Kept == /\ IsFiniteSet(K) /\ Alone(K) /\ nextLease' \in Nat
                   /\ lstats'.granted = Out' + Cardinality(K)
                   /\ \A h \in K : h[2].id \in Nat /\ h[2].id < nextLease'
<1>3. ASSUME NEW L \in SUBSET H
      PROVE  /\ IsFiniteSet(H \ L) /\ Cardinality(H \ L) \in Nat /\ Cardinality(L) \in Nat
             /\ Cardinality(H) = Cardinality(H \ L) + Cardinality(L)
    <2> HIDE DEF H
    <2>1. IsFiniteSet(L) /\ IsFiniteSet(H \ L) /\ H \cap L = L
        BY <1>2, FS_Subset
    <2>2. Cardinality(H \ L) = Cardinality(H) - Cardinality(H \cap L)
        BY <1>2, FS_Difference, Zenon
    <2>3. Cardinality(H) \in Nat /\ Cardinality(L) \in Nat /\ Cardinality(H \ L) \in Nat
        BY <1>2, <2>1, FS_CardinalityType
    <2>4. Cardinality(H \ L) = Cardinality(H) - Cardinality(L)
        BY <2>1, <2>2
    <2> QED
        BY <2>1, <2>3, <2>4
<1>4. ASSUME NEW L \in SUBSET H, Loses(L) PROVE Kept
    <2>1. /\ K = H \ L /\ nextLease' = nextLease /\ lstats'.granted = lstats.granted
          /\ Out' = Out + Cardinality(L)
        BY <1>4 DEF Loses
    <2> HIDE DEF H, K
    <2>2. Alone(K)
        BY <1>2, <2>1 DEF Alone
    <2>3. /\ IsFiniteSet(K) /\ Cardinality(K) \in Nat /\ Cardinality(L) \in Nat
          /\ Cardinality(H) = Cardinality(K) + Cardinality(L)
        BY <1>3, <2>1
    <2>4. lstats'.granted = Out' + Cardinality(K)
        BY <1>2, <2>1, <2>3
    <2>5. \A h \in K : h[2].id \in Nat /\ h[2].id < nextLease'
        BY <1>2, <2>1
    <2> QED
        BY <1>2, <2>1, <2>2, <2>3, <2>4, <2>5
<1>5. ASSUME NEW L \in SUBSET H, NEW d, NEW g, Gains(L, d, g) PROVE Kept
    <2> DEFINE R == H \ L
    <2>1. /\ K = R \cup {<<d, g>>} /\ g.id = nextLease /\ nextLease' = nextLease + 1
          /\ lstats'.granted = lstats.granted + 1 /\ Out' = Out + Cardinality(L)
          /\ \A l : <<d, l>> \in R => g.mode # "exclusive" /\ l.mode # "exclusive"
        BY <1>5 DEF Gains
    <2>2. /\ IsFiniteSet(R) /\ Cardinality(R) \in Nat /\ Cardinality(L) \in Nat
          /\ Cardinality(H) = Cardinality(R) + Cardinality(L)
        BY <1>3
    <2>3. /\ Alone(R) /\ \A h \in R : h[2].id \in Nat /\ h[2].id < nextLease
        BY <1>2 DEF Alone
    <2> HIDE DEF H, K, R
    <2>4. <<d, g>> \notin R
        BY <1>2, <2>1, <2>3
    <2>5. IsFiniteSet(K) /\ Cardinality(K) = Cardinality(R) + 1
        BY <2>1, <2>2, <2>4, FS_AddElement
    <2>6. Alone(K)
        <3> SUFFICES ASSUME NEW e, NEW l, NEW m, <<e, l>> \in K, <<e, m>> \in K, l.mode = "exclusive"
                     PROVE  m = l
            BY DEF Alone
        <3>1. /\ <<e, l>> \in R \/ (e = d /\ l = g)
              /\ <<e, m>> \in R \/ (e = d /\ m = g)
            BY <2>1
        <3> QED
            BY <2>1, <2>3, <3>1 DEF Alone
    <2>7. \A h \in K : h[2].id \in Nat /\ h[2].id < nextLease'
        BY <1>2, <2>1, <2>3
    <2> QED
        BY <1>2, <2>1, <2>2, <2>5, <2>6, <2>7
<1>6. ASSUME StartsOver PROVE Kept
    <2>1. K = {} /\ nextLease' = 1 /\ lstats'.granted = 0 /\ Out' = 0
        BY <1>6 DEF StartsOver
    <2> HIDE DEF K
    <2> QED
        BY <2>1, FS_EmptySet DEF Alone
<1>7. Kept
    BY <1>1, <1>4, <1>5, <1>6 DEF LeaseStep
<1>8. LeaseExclusive'
    BY <1>7, ExclusiveAlone DEF LeaseExclusive
<1>9. LeaseConservation' /\ IdsFresh'
    BY <1>7 DEF LeaseConservation, IdsFresh, Out
<1> QED
    BY <1>1, <1>8, <1>9 DEF LeaseInv, LeasesSound

\* Before the first call the invariant holds.
LEMMA InitLeaseInv == ASSUME LimiterAssumption PROVE InitLimiter => LeaseInv
<1> SUFFICES ASSUME InitLimiter PROVE LeaseInv
    OBVIOUS
<1>1. devices = << >> /\ lstats = ZeroLimiterStats /\ nextLease = 1 /\ dropped = 0
    BY DEF InitLimiter
<1>2. Typed(devices) /\ Held(devices) = {}
    BY <1>1 DEF Typed, Held
<1>3. LeaseExclusive
    BY <1>1 DEF LeaseExclusive
<1> QED
    BY <1>1, <1>2, <1>3, FS_EmptySet
    DEF LeaseInv, StatsTyped, ZeroLimiterStats, IdsFresh, LeasesSound, LeaseConservation

\* Through every sequence of registrations, grants, releases, expiries, checks
\* and resets, with clocks that disagree, an exclusive lease is the only one of
\* its device, and the counters of granted, released and expired leases account
\* for every lease still held: for any devices, limits, costs and times.
THEOREM LeasesKept == ASSUME LimiterAssumption PROVE LimiterSpec => []LeasesSound
<1>1. InitLimiter => LeaseInv
    BY InitLeaseInv
<1>2. LeaseInv /\ [NextLimiter]_limiterVars => LeaseInv'
    BY NextLeaseInv
<1>3. LeaseInv => LeasesSound
    BY DEF LeaseInv
<1> QED
    BY <1>1, <1>2, <1>3, PTL DEF LimiterSpec

-----------------------------------------------------------------------------
(* The rate.                                                               *)

\* The wait check() asks for is long enough, in any state of the buckets.
LEMMA WaitCovers == ASSUME LimiterAssumption, Typed(devices) PROVE RetryAfterSuffices
<1> SUFFICES ASSUME NEW d \in DOMAIN devices, NEW cost \in Costs, NEW now \in LimiterTime,
                    EffectiveCost(Refill(devices[d], now), cost) <= Refill(devices[d], now).limit.burst,
                    Refill(devices[d], now).last_refill <= now
             PROVE  LET b     == Refill(devices[d], now)
                        price == EffectiveCost(b, cost)
                    IN  Refill(b, now + RetryAfter(b, price)).tokens >= price
    BY DEF RetryAfterSuffices
<1> DEFINE b == Refill(devices[d], now)
           price == EffectiveCost(b, cost)
           w == RetryAfter(b, price)
           rate == b.limit.refill
<1>1. BucketOK(devices[d]) /\ now \in Nat \ {0} /\ cost \in Nat /\ OneSecond \in Nat \ {0}
    BY DEF Typed, LimiterAssumption
<1>2. BucketOK(b) /\ b.last_refill # 0
    BY <1>1, RefilledBucket
<1>3. price <= b.limit.burst /\ b.last_refill <= now
    OBVIOUS
<1> HIDE DEF b
<1>4. /\ rate \in Nat \ {0} /\ b.limit.burst \in Nat /\ b.limit.minimum \in Nat
      /\ b.tokens \in Nat /\ b.last_refill \in Nat
    BY <1>2 DEF BucketOK, BucketRecord, NormalLimit, Limit
<1>5. price \in Nat
    BY <1>1, <1>4 DEF EffectiveCost, Larger
<1> HIDE DEF price
<1>6. CASE price <= b.tokens
    <2>1. w = 0
        BY <1>4, <1>5, <1>6 DEF RetryAfter
    <2>2. Refill(b, now).tokens >= b.tokens /\ BucketOK(Refill(b, now))
        BY <1>1, <1>2, RefilledBucket
    <2>3. Refill(b, now).tokens \in Nat
        BY <2>2 DEF BucketOK, BucketRecord
    <2> QED
        BY <1>1, <1>4, <1>5, <1>6, <2>1, <2>2, <2>3 DEF b, price
<1>7. CASE price > b.tokens
    <2> DEFINE m == price - b.tokens
               a == m * OneSecond + rate - 1
               v == now + w
    <2>1. m \in Nat \ {0} /\ b.tokens + m = price
        BY <1>4, <1>5, <1>7
    <2>2. w = a \div rate
        BY <1>7 DEF RetryAfter
    <2>3. m * OneSecond \in Nat /\ m * OneSecond >= 1 /\ m * OneSecond = OneSecond * m
        BY <1>1, <2>1
    <2> HIDE DEF m
    <2>4. a \in Nat
        BY <1>4, <2>3
    <2>5. w \in Nat /\ a < rate * w + rate
        <3> HIDE DEF a, w
        <3> QED
            BY <1>4, <2>2, <2>4, RoundedDown
    <2> HIDE DEF w
    <2>6. m * OneSecond <= rate * w
        BY <1>4, <2>3, <2>5
    <2>7. w >= 1
        BY <1>4, <2>3, <2>5, <2>6
    <2>8. v \in Nat \ {0} /\ v > b.last_refill /\ v - b.last_refill >= w
        BY <1>1, <1>3, <1>4, <2>5, <2>7
    <2> HIDE DEF v
    <2>9. OneSecond * m <= (v - b.last_refill) * rate
        <3>1. w * rate <= (v - b.last_refill) * rate
            BY <1>4, <2>5, <2>8
        <3>2. rate * w = w * rate /\ w * rate \in Nat
            BY <1>4, <2>5
        <3>3. (v - b.last_refill) * rate \in Nat
            BY <1>4, <2>8
        <3> QED
            BY <2>3, <2>6, <3>1, <3>2, <3>3
    <2>10. Refill(b, v).tokens >= b.tokens + m
        BY <1>2, <1>3, <2>1, <2>8, <2>9, RefillCovers
    <2> QED
        BY <2>1, <2>10 DEF b, price, v, w
<1> QED
    BY <1>4, <1>5, <1>6, <1>7

Account == [spent : Nat, since : Nat]

\* What was paid since the limit was set fits the burst and the refills, and a
\* bucket that was never refilled has not been paid from.
PaidOK(b, q) ==
    /\ q \in Account /\ q.since <= b.last_refill /\ (b.last_refill = 0 => q.spent = 0)
    /\ OneSecond * (q.spent + b.tokens)
            <= OneSecond * b.limit.burst + b.limit.refill * (b.last_refill - q.since)

OpenedIn(f, d) == IF d \in DOMAIN f THEN f[d] ELSE Registered(EmptyBucket, DefaultLimit)

AccountsOK(f, q) == q \in [LimitedDevice -> Account] /\ \A d \in LimitedDevice : PaidOK(OpenedIn(f, d), q[d])

\* register_device() and set_limit() start an account: nothing is paid yet.
LEMMA NewAccount ==
    ASSUME LimiterAssumption, NEW b, BucketOK(b)
    PROVE  PaidOK(b, [spent |-> 0, since |-> b.last_refill])
<1> DEFINE q == [spent |-> 0, since |-> b.last_refill]
<1>1. /\ OneSecond \in Nat /\ b.tokens \in Nat /\ b.limit.burst \in Nat /\ b.tokens <= b.limit.burst
      /\ b.limit.refill \in Nat /\ b.last_refill \in Nat
    BY DEF LimiterAssumption, BucketOK, BucketRecord, Limit
<1>2. q \in Account /\ q.spent = 0 /\ q.since = b.last_refill
    BY <1>1 DEF Account
<1> HIDE DEF q
<1>3. OneSecond * b.tokens <= OneSecond * b.limit.burst
    BY <1>1
<1>4. OneSecond * (q.spent + b.tokens) = OneSecond * b.tokens
    BY <1>1, <1>2
<1>5. /\ b.limit.refill * (b.last_refill - q.since) = 0
      /\ OneSecond * b.tokens \in Nat /\ OneSecond * b.limit.burst \in Nat
    BY <1>1, <1>2
<1>6. PaidOK(b, q)
    BY <1>1, <1>2, <1>3, <1>4, <1>5 DEF PaidOK
<1> QED
    BY <1>6 DEF q

\* A refill is paid for by the time it covers; the first one starts the account.
LEMMA RefilledAccount ==
    ASSUME LimiterAssumption, NEW b, BucketOK(b), NEW q, PaidOK(b, q), NEW now \in Nat \ {0}
    PROVE  PaidOK(Refill(b, now),
                  [spent |-> q.spent, since |-> IF b.last_refill = 0 THEN now ELSE q.since])
<1> DEFINE r == Refill(b, now)
           since == IF b.last_refill = 0 THEN now ELSE q.since
           s == [spent |-> q.spent, since |-> since]
<1>1. /\ BucketOK(r) /\ r.limit = b.limit /\ r.last_refill >= b.last_refill /\ r.last_refill # 0
      /\ b.last_refill = 0 => r.last_refill = now
      /\ b.last_refill # 0 => OneSecond * r.tokens <=
             OneSecond * b.tokens + b.limit.refill * (r.last_refill - b.last_refill)
    BY RefilledBucket
<1> HIDE DEF r
<1>2. /\ OneSecond \in Nat /\ b.tokens \in Nat /\ b.limit.burst \in Nat /\ b.limit.refill \in Nat
      /\ b.last_refill \in Nat /\ r.last_refill \in Nat /\ r.tokens \in Nat
      /\ q.spent \in Nat /\ q.since \in Nat /\ q.since <= b.last_refill
    BY <1>1 DEF LimiterAssumption, BucketOK, BucketRecord, Limit, PaidOK, Account
<1>3. s \in Account /\ s.spent = q.spent /\ s.since = since
    BY <1>2 DEF Account
<1> HIDE DEF s
<1>4. CASE b.last_refill = 0
    <2>1. s.spent = 0 /\ s.since = r.last_refill
        BY <1>1, <1>3, <1>4 DEF PaidOK
    <2>2. s = [spent |-> 0, since |-> r.last_refill]
        BY <1>3, <2>1 DEF Account
    <2>3. PaidOK(r, s)
        BY <1>1, <2>2, NewAccount
    <2> QED
        BY <2>3 DEF r, s
<1>5. CASE b.last_refill # 0
    <2> DEFINE S == OneSecond * q.spent
               T == OneSecond * b.tokens
               U == OneSecond * r.tokens
               B == OneSecond * b.limit.burst
               x == b.limit.refill * (b.last_refill - q.since)
               y == b.limit.refill * (r.last_refill - b.last_refill)
    <2>1. S + T <= B + x
        <3>1. OneSecond * (q.spent + b.tokens) = S + T
            BY <1>2
        <3> QED
            BY <3>1 DEF PaidOK
    <2>2. U <= T + y
        BY <1>1, <1>5
    <2>3. x + y = b.limit.refill * (r.last_refill - q.since)
        BY <1>2
    <2>4. S + U = OneSecond * (s.spent + r.tokens)
        BY <1>2, <1>3
    <2>5. /\ S \in Nat /\ T \in Nat /\ U \in Nat /\ B \in Nat
          /\ x \in Int /\ y \in Int
        BY <1>2
    <2>6. B + (x + y) = B + b.limit.refill * (r.last_refill - q.since)
        BY <2>3
    <2> HIDE DEF S, T, U, x, y
    <2>7. S + U <= B + (x + y)
        <3> HIDE DEF B
        <3> QED
            BY <2>1, <2>2, <2>5
    <2>8. s.since = q.since /\ s.since <= r.last_refill
        BY <1>1, <1>2, <1>3, <1>5
    <2>9. OneSecond * (s.spent + r.tokens)
            <= OneSecond * r.limit.burst + r.limit.refill * (r.last_refill - s.since)
        BY <1>1, <2>4, <2>6, <2>7, <2>8
    <2>10. PaidOK(r, s)
        BY <1>1, <1>3, <2>8, <2>9 DEF PaidOK
    <2> QED
        BY <2>10 DEF r, s
<1> QED
    BY <1>4, <1>5

\* consume() moves tokens from the bucket to the account.
LEMMA ConsumedAccount ==
    ASSUME LimiterAssumption, NEW b, BucketOK(b), NEW q, PaidOK(b, q), b.last_refill # 0,
           NEW price \in Nat, NEW c, c.limit = b.limit, c.last_refill = b.last_refill,
           c.tokens = b.tokens - price
    PROVE  PaidOK(c, [spent |-> q.spent + price, since |-> q.since])
<1> DEFINE s == [spent |-> q.spent + price, since |-> q.since]
<1>1. b.tokens \in Nat /\ q.spent \in Nat /\ q.since \in Nat
    BY DEF BucketOK, BucketRecord, PaidOK, Account
<1>2. s \in Account /\ s.spent = q.spent + price /\ s.since = q.since
    BY <1>1 DEF Account
<1> HIDE DEF s
<1>3. s.spent + c.tokens = q.spent + b.tokens
    BY <1>1, <1>2
<1>4. PaidOK(c, s)
    BY <1>2, <1>3 DEF PaidOK
<1> QED
    BY <1>4 DEF s

\* Every operation keeps the accounts: leases do not touch them, a new limit
\* starts one, checks and payments are the two lemmas above.
LEMMA NextAccounts ==
    ASSUME LimiterAssumption, LeaseInv, AccountsOK(devices, paid), [NextLimiter]_limiterVars
    PROVE  AccountsOK(devices', paid')
<1>0. /\ Typed(devices) /\ Typed(devices') /\ (\A l \in Limits : l \in Limit) /\ DefaultLimit \in Limit
      /\ \A now \in LimiterTime : now \in Nat \ {0}
    BY LimiterSteps DEF LeaseInv, LimiterAssumption
<1> DEFINE Was(e) == OpenedIn(devices, e)
           Is(e) == OpenedIn(devices', e)
<1>1. ASSUME paid' = paid, \A e \in LimitedDevice : SameRate(Was(e), Is(e))
      PROVE  AccountsOK(devices', paid')
    <2>1. \A e \in LimitedDevice : PaidOK(Was(e), paid[e])
        BY DEF AccountsOK
    <2> HIDE DEF Was, Is
    <2>2. \A e \in LimitedDevice : PaidOK(Is(e), paid[e])
        BY <1>1, <2>1 DEF SameRate, PaidOK
    <2> QED
        BY <1>1, <2>2 DEF AccountsOK, Is
<1>2. ASSUME NEW d \in LimitedDevice, NEW q, PaidOK(Is(d), q), paid' = [paid EXCEPT ![d] = q],
             \A e \in LimitedDevice \ {d} : SameRate(Was(e), Is(e))
      PROVE  AccountsOK(devices', paid')
    <2>1. \A e \in LimitedDevice : PaidOK(Was(e), paid[e])
        BY DEF AccountsOK
    <2>2. q \in Account /\ paid \in [LimitedDevice -> Account]
        BY <1>2 DEF PaidOK, AccountsOK
    <2>3. /\ paid' \in [LimitedDevice -> Account]
          /\ \A e \in LimitedDevice : paid'[e] = IF e = d THEN q ELSE paid[e]
        BY <1>2, <2>2
    <2> HIDE DEF Was, Is
    <2>4. \A e \in LimitedDevice \ {d} : PaidOK(Is(e), paid[e])
        BY <1>2, <2>1 DEF SameRate, PaidOK
    <2>5. \A e \in LimitedDevice : PaidOK(Is(e), paid'[e])
        BY <1>2, <2>3, <2>4
    <2> QED
        BY <2>3, <2>5 DEF AccountsOK, Is
<1>3. ASSUME NEW d \in LimitedDevice, NEW b, devices' = Put(devices, d, b)
      PROVE  Is(d) = b /\ \A e \in LimitedDevice \ {d} : SameRate(Was(e), Is(e))
    BY <1>3 DEF Put, OpenedIn, SameRate
<1>4. ASSUME NEW d \in LimitedDevice, NEW limit \in Limits, RegisterDevice(d, limit)
      PROVE  AccountsOK(devices', paid')
    <2> DEFINE b == Registered(Bucket(d), limit)
    <2>1. BucketOK(b) /\ b.last_refill = Bucket(d).last_refill
        BY <1>0, BucketTyped, RegisteredBucket
    <2>2. devices' = Put(devices, d, b) /\ paid' = NothingPaid(d, Bucket(d))
        BY <1>4 DEF RegisterDevice
    <2> HIDE DEF b
    <2>3. PaidOK(b, [spent |-> 0, since |-> b.last_refill])
        BY <2>1, NewAccount
    <2>4. paid' = [paid EXCEPT ![d] = [spent |-> 0, since |-> b.last_refill]]
        BY <2>1, <2>2 DEF NothingPaid
    <2>5. Is(d) = b /\ \A e \in LimitedDevice \ {d} : SameRate(Was(e), Is(e))
        BY <1>3, <2>2
    <2> HIDE DEF Was, Is
    <2> QED
        BY <1>2, <2>3, <2>4, <2>5
<1>5. ASSUME NEW d \in LimitedDevice, UnregisterDevice(d) PROVE AccountsOK(devices', paid')
    <2> DEFINE b == Registered(EmptyBucket, DefaultLimit)
    <2>1. BucketOK(b) /\ b.last_refill = 0
        BY <1>0, EmptyBucketOK, RegisteredBucket DEF EmptyBucket
    <2>2. /\ devices' = [e \in DOMAIN devices \ {d} |-> devices[e]]
          /\ paid' = [paid EXCEPT ![d] = [spent |-> 0, since |-> 0]]
        BY <1>5 DEF UnregisterDevice, NothingPaid, EmptyBucket
    <2>3. Is(d) = b /\ \A e \in LimitedDevice \ {d} : Is(e) = Was(e)
        BY <2>2 DEF OpenedIn
    <2> HIDE DEF b, Was, Is
    <2>4. PaidOK(b, [spent |-> 0, since |-> 0])
        BY <2>1, NewAccount
    <2>5. \A e \in LimitedDevice \ {d} : SameRate(Was(e), Is(e))
        BY <2>3 DEF SameRate
    <2> QED
        BY <1>2, <2>2, <2>3, <2>4, <2>5
<1>6. ASSUME NEW d \in LimitedDevice, NEW limit \in Limits, SetLimit(d, limit)
      PROVE  AccountsOK(devices', paid')
    <2> DEFINE b == Limited(Bucket(d), limit)
    <2>1. BucketOK(b) /\ b.last_refill = Bucket(d).last_refill
        BY <1>0, BucketTyped, LimitedBucket
    <2>2. devices' = Put(devices, d, b) /\ paid' = NothingPaid(d, Bucket(d))
        BY <1>6 DEF SetLimit
    <2> HIDE DEF b
    <2>3. PaidOK(b, [spent |-> 0, since |-> b.last_refill])
        BY <2>1, NewAccount
    <2>4. paid' = [paid EXCEPT ![d] = [spent |-> 0, since |-> b.last_refill]]
        BY <2>1, <2>2 DEF NothingPaid
    <2>5. Is(d) = b /\ \A e \in LimitedDevice \ {d} : SameRate(Was(e), Is(e))
        BY <1>3, <2>2
    <2> HIDE DEF Was, Is
    <2> QED
        BY <1>2, <2>3, <2>4, <2>5
<1>7. ASSUME NEW d \in LimitedDevice, NEW now
      PROVE  /\ Opened(d) = Was(d)
             /\ \A e \in LimitedDevice : SameRate(Was(e), OpenedIn(Prepared(d, now), e))
    <2> DEFINE p == Prepared(d, now)
    <2>1. Opened(d) = Was(d)
        BY DEF Opened, OpenedIn
    <2>2. /\ DOMAIN p = DOMAIN devices \cup {d}
          /\ \A e \in DOMAIN p : SameRate(IF e = d THEN Opened(d) ELSE devices[e], p[e])
        BY <1>0, PreparedTyped
    <2> HIDE DEF p
    <2>3. ASSUME NEW e \in LimitedDevice PROVE SameRate(Was(e), OpenedIn(p, e))
        BY <2>1, <2>2 DEF OpenedIn, SameRate
    <2> QED
        BY <2>1, <2>3 DEF p
<1>8. ASSUME NEW d \in LimitedDevice, NEW mode \in Mode, NEW now \in LimiterTime, AcquireLocked(d, mode, now)
      PROVE  AccountsOK(devices', paid')
    <2>1. devices' = Prepared(d, now) /\ paid' = paid
        BY <1>8 DEF AcquireLocked
    <2> QED
        BY <1>1, <1>7, <2>1
<1>9. ASSUME NEW d \in LimitedDevice, NEW mode \in Mode, NEW ttl \in Ttls, NEW now \in LimiterTime,
             AcquireGranted(d, mode, ttl, now)
      PROVE  AccountsOK(devices', paid')
    <2> DEFINE p == Prepared(d, now)
    <2>1. PICK g : devices' = [p EXCEPT ![d].leases = @ \cup {g}]
        BY <1>9 DEF AcquireGranted
    <2>2. paid' = paid
        BY <1>9 DEF AcquireGranted
    <2>3. Typed(p) /\ d \in DOMAIN p
        BY <1>0, PreparedTyped
    <2>4. \A e \in LimitedDevice : SameRate(Was(e), OpenedIn(p, e))
        BY <1>7
    <2> HIDE DEF p
    <2>5. p[d] \in BucketRecord /\ DOMAIN devices' = DOMAIN p
        BY <2>1, <2>3 DEF Typed
    <2>6. SameRate(p[d], [p[d] EXCEPT !.leases = @ \cup {g}])
        BY <2>5 DEF SameRate, BucketRecord
    <2>7. \A e \in DOMAIN p : SameRate(p[e], devices'[e])
        BY <2>1, <2>3, <2>6 DEF SameRate, Typed
    <2>8. \A e \in LimitedDevice : SameRate(OpenedIn(p, e), Is(e))
        BY <2>5, <2>7 DEF OpenedIn, SameRate
    <2>9. \A e \in LimitedDevice : SameRate(Was(e), Is(e))
        <3> HIDE DEF Was, Is
        <3> QED
            BY <2>4, <2>8 DEF SameRate
    <2> HIDE DEF Was, Is
    <2> QED
        BY <1>1, <2>2, <2>9
<1>10. ASSUME NEW id \in 1..MaxLeases, Release(id) PROVE AccountsOK(devices', paid')
    <2>0. PICK d \in DOMAIN devices : \E l \in devices[d].leases :
                devices' = [devices EXCEPT ![d].leases = @ \ {l}]
        BY <1>10 DEF Release
    <2>1. PICK l \in devices[d].leases : devices' = [devices EXCEPT ![d].leases = @ \ {l}]
        BY <2>0
    <2>2. paid' = paid
        BY <1>10 DEF Release
    <2>3. devices[d] \in BucketRecord /\ DOMAIN devices' = DOMAIN devices
        BY <1>0, <2>1 DEF Typed
    <2>4. SameRate(devices[d], [devices[d] EXCEPT !.leases = @ \ {l}])
        BY <2>3 DEF SameRate, BucketRecord
    <2>5. \A e \in DOMAIN devices : SameRate(devices[e], devices'[e])
        BY <1>0, <2>1, <2>4 DEF SameRate, Typed
    <2>6. \A e \in LimitedDevice : SameRate(Was(e), Is(e))
        BY <2>3, <2>5 DEF OpenedIn, SameRate
    <2> HIDE DEF Was, Is
    <2> QED
        BY <1>1, <2>2, <2>6
<1>11. ASSUME NEW now \in LimiterTime, ExpireLeases(now) PROVE AccountsOK(devices', paid')
    <2>1. devices' = Unexpired(devices, now) /\ paid' = paid
        BY <1>11 DEF ExpireLeases
    <2>2. DOMAIN devices' = DOMAIN devices /\ \A e \in DOMAIN devices : SameRate(devices[e], devices'[e])
        BY <1>0, <2>1, UnexpiredTyped DEF SameRate
    <2>3. \A e \in LimitedDevice : SameRate(Was(e), Is(e))
        BY <2>2 DEF OpenedIn, SameRate
    <2> HIDE DEF Was, Is
    <2> QED
        BY <1>1, <2>1, <2>3
<1>12. ASSUME NEW d \in LimitedDevice, NEW now \in LimiterTime
       PROVE  LET k == Checked(d, now)
                  s == [spent |-> paid[d].spent, since |-> Since(d, now)]
              IN  /\ Typed(k) /\ d \in DOMAIN k /\ PaidOK(k[d], s) /\ k[d].last_refill # 0
                  /\ \A e \in LimitedDevice \ {d} : SameRate(Was(e), OpenedIn(k, e))
    <2> DEFINE p == Prepared(d, now)
               k == Checked(d, now)
               s == [spent |-> paid[d].spent, since |-> Since(d, now)]
    <2>1. /\ Typed(k) /\ DOMAIN k = DOMAIN devices \cup {d} /\ BucketOK(p[d])
          /\ k[d] = Refill(p[d], now) /\ \A e \in DOMAIN devices \ {d} : k[e] = p[e]
        BY <1>0, CheckedTyped
    <2>2. DOMAIN p = DOMAIN devices \cup {d} /\ \A e \in LimitedDevice : SameRate(Was(e), OpenedIn(p, e))
        BY <1>0, <1>7, PreparedTyped
    <2>3. Bucket(d).last_refill = Was(d).last_refill
        BY <1>0, EmptyBucketOK, RegisteredBucket DEF Bucket, OpenedIn, EmptyBucket
    <2>4. PaidOK(Was(d), paid[d])
        BY DEF AccountsOK
    <2> HIDE DEF p, k
    <2>5. OpenedIn(p, d) = p[d]
        BY <2>2 DEF OpenedIn
    <2>6. \A e \in LimitedDevice \ {d} : OpenedIn(k, e) = OpenedIn(p, e)
        BY <2>1, <2>2 DEF OpenedIn
    <2> HIDE DEF Was
    <2>7. PaidOK(p[d], paid[d]) /\ p[d].last_refill = Bucket(d).last_refill
        BY <2>2, <2>3, <2>4, <2>5 DEF SameRate, PaidOK
    <2>8. s = [spent |-> paid[d].spent, since |-> IF p[d].last_refill = 0 THEN now ELSE paid[d].since]
        BY <2>7 DEF Since
    <2> HIDE DEF s
    <2>9. PaidOK(Refill(p[d], now), s) /\ Refill(p[d], now).last_refill # 0
        BY <1>0, <2>1, <2>7, <2>8, RefilledAccount, RefilledBucket
    <2>10. d \in DOMAIN k /\ PaidOK(k[d], s) /\ k[d].last_refill # 0
        BY <2>1, <2>9
    <2>11. \A e \in LimitedDevice \ {d} : SameRate(Was(e), OpenedIn(k, e))
        BY <2>2, <2>6
    <2> QED
        BY <2>1, <2>10, <2>11 DEF k, s
<1>13. ASSUME NEW d \in LimitedDevice, NEW now \in LimiterTime, Check(d, now) PROVE AccountsOK(devices', paid')
    <2> DEFINE k == Checked(d, now)
               s == [spent |-> paid[d].spent, since |-> Since(d, now)]
    <2>1. /\ d \in DOMAIN k /\ PaidOK(k[d], s)
          /\ \A e \in LimitedDevice \ {d} : SameRate(Was(e), OpenedIn(k, e))
        BY <1>12
    <2>2. devices' = k /\ paid' = [paid EXCEPT ![d].since = Since(d, now)]
        BY <1>13 DEF Check
    <2>3. paid[d] \in Account
        BY DEF AccountsOK
    <2>4. [paid[d] EXCEPT !.since = Since(d, now)] = s
        BY <2>3 DEF Account
    <2>5. paid' = [paid EXCEPT ![d] = s]
        BY <2>2, <2>4
    <2> HIDE DEF k, s
    <2>6. Is(d) = k[d] /\ \A e \in LimitedDevice \ {d} : SameRate(Was(e), Is(e))
        BY <2>1, <2>2 DEF OpenedIn
    <2> HIDE DEF Was, Is
    <2> QED
        BY <1>2, <2>1, <2>5, <2>6
<1>14. ASSUME NEW d \in LimitedDevice, NEW cost \in Costs, NEW now \in LimiterTime, Consume(d, cost, now)
       PROVE  AccountsOK(devices', paid')
    <2> DEFINE k == Checked(d, now)
               s == [spent |-> paid[d].spent, since |-> Since(d, now)]
               price == EffectiveCost(k[d], cost)
               c == [k[d] EXCEPT !.tokens = @ - price]
               t == [spent |-> s.spent + price, since |-> s.since]
    <2>1. /\ Typed(k) /\ d \in DOMAIN k /\ PaidOK(k[d], s) /\ k[d].last_refill # 0
          /\ \A e \in LimitedDevice \ {d} : SameRate(Was(e), OpenedIn(k, e))
        BY <1>12
    <2>2. /\ devices' = [k EXCEPT ![d].tokens = @ - price] /\ Allowed(k[d], cost)
          /\ paid' = [paid EXCEPT ![d] = [spent |-> @.spent + price, since |-> Since(d, now)]]
        BY <1>14 DEF Consume
    <2>3. BucketOK(k[d]) /\ cost \in Nat
        BY <2>1 DEF Typed, LimiterAssumption
    <2>4. paid' = [paid EXCEPT ![d] = t]
        BY <2>2
    <2> HIDE DEF k, s
    <2>5. /\ price \in Nat /\ c.limit = k[d].limit /\ c.last_refill = k[d].last_refill
          /\ c.tokens = k[d].tokens - price
        BY <2>2, <2>3, ConsumedBucket
    <2>6. devices' = [k EXCEPT ![d] = c]
        BY <2>2
    <2> HIDE DEF price, c
    <2>7. PaidOK(c, t)
        BY <2>1, <2>3, <2>5, ConsumedAccount
    <2> HIDE DEF t
    <2>8. Is(d) = c /\ \A e \in LimitedDevice \ {d} : Is(e) = OpenedIn(k, e)
        BY <2>1, <2>6 DEF OpenedIn, Typed
    <2> HIDE DEF Was, Is
    <2> QED
        BY <1>2, <2>1, <2>4, <2>7, <2>8
<1>15. ASSUME ResetLimiter PROVE AccountsOK(devices', paid')
    <2> DEFINE b == Registered(EmptyBucket, DefaultLimit)
    <2>1. BucketOK(b) /\ b.last_refill = 0
        BY <1>0, EmptyBucketOK, RegisteredBucket DEF EmptyBucket
    <2>2. \A e \in LimitedDevice : Is(e) = b
        BY <1>15 DEF ResetLimiter, OpenedIn
    <2>3. paid' = [e \in LimitedDevice |-> [spent |-> 0, since |-> 0]]
        BY <1>15 DEF ResetLimiter, NoPayments
    <2> HIDE DEF b, Is
    <2>4. PaidOK(b, [spent |-> 0, since |-> 0])
        BY <2>1, NewAccount
    <2>5. paid' \in [LimitedDevice -> Account]
        BY <2>3 DEF Account
    <2>6. \A e \in LimitedDevice : PaidOK(Is(e), paid'[e])
        BY <2>2, <2>3, <2>4
    <2> QED
        BY <2>5, <2>6 DEF AccountsOK, Is
<1>16. ASSUME UNCHANGED limiterVars PROVE AccountsOK(devices', paid')
    BY <1>16 DEF limiterVars
<1> QED
    BY <1>4, <1>5, <1>6, <1>8, <1>9, <1>10, <1>11, <1>13, <1>14, <1>15, <1>16 DEF NextLimiter

\* The token bucket keeps its rate: through every sequence of calls, with
\* rounding refills, changing limits and clocks that run backwards, what was
\* consumed since the limit was set and what is left stay within the burst and
\* the refill over the time covered, and retry_after_ns is long enough for the
\* refused request: for any devices, limits, costs and times.
THEOREM TokensKept == ASSUME LimiterAssumption PROVE LimiterSpec => []TokensSound
<1> DEFINE RInv == LeaseInv /\ AccountsOK(devices, paid)
<1>1. InitLimiter => AccountsOK(devices, paid)
    <2> SUFFICES ASSUME InitLimiter PROVE AccountsOK(devices, paid)
        OBVIOUS
    <2> DEFINE b == Registered(EmptyBucket, DefaultLimit)
    <2>1. BucketOK(b) /\ b.last_refill = 0
        BY EmptyBucketOK, RegisteredBucket DEF EmptyBucket, LimiterAssumption
    <2>2. \A e \in LimitedDevice : OpenedIn(devices, e) = b
        BY DEF InitLimiter, OpenedIn
    <2>3. paid = [e \in LimitedDevice |-> [spent |-> 0, since |-> 0]]
        BY DEF InitLimiter, NoPayments
    <2> HIDE DEF b
    <2>4. PaidOK(b, [spent |-> 0, since |-> 0])
        BY <2>1, NewAccount
    <2>5. paid \in [LimitedDevice -> Account]
        BY <2>3 DEF Account
    <2>6. \A e \in LimitedDevice : PaidOK(OpenedIn(devices, e), paid[e])
        BY <2>2, <2>3, <2>4
    <2> QED
        BY <2>5, <2>6 DEF AccountsOK
<1>2. InitLimiter => LeaseInv
    BY InitLeaseInv
<1>3. RInv /\ [NextLimiter]_limiterVars => RInv'
    BY NextLeaseInv, NextAccounts
<1>4. RInv => TokensSound
    <2> SUFFICES ASSUME RInv PROVE TokensSound
        OBVIOUS
    <2>1. RetryAfterSuffices
        BY WaitCovers DEF LeaseInv
    <2>2. \A d \in DOMAIN devices : d \in LimitedDevice /\ OpenedIn(devices, d) = devices[d]
        BY DEF LeaseInv, Typed, OpenedIn
    <2>3. \A d \in DOMAIN devices : PaidOK(devices[d], paid[d])
        BY <2>2 DEF AccountsOK
    <2>4. RateBound
        BY <2>3 DEF RateBound, PaidOK
    <2> QED
        BY <2>1, <2>4 DEF TokensSound
<1> QED
    BY <1>1, <1>2, <1>3, <1>4, PTL DEF LimiterSpec

-----------------------------------------------------------------------------
(* Uplink.                                                                 *)

Env == [device : {p.device : p \in Packets}, sequence : Nat, size : Nat, control : BOOLEAN,
        priority : 0..3 \cup {p.inferred : p \in Packets}, inferred : {p.inferred : p \in Packets},
        arrival : Nat, deadline : Nat, number : Nat]

IsBatch(b) ==
    b = [packets |-> b.packets, first |-> b.first, deadline |-> b.deadline, bytes |-> b.bytes,
         priority |-> b.priority, reason |-> b.reason]

Sizes(s) == [i \in DOMAIN s |-> s[i].size]

\* d is the earliest of the deadlines in s, 0 if there is none.
Earliest(d, s) ==
    \/ d = 0 /\ \A i \in DOMAIN s : s[i].deadline = 0
    \/ /\ d # 0 /\ \E i \in DOMAIN s : s[i].deadline = d
       /\ \A i \in DOMAIN s : s[i].deadline = 0 \/ d <= s[i].deadline

\* What holds of a batch, open or closed.
Fine(b) ==
    /\ IsBatch(b) /\ b.packets \in Seq(Env) /\ b.bytes \in Nat /\ b.deadline \in Nat
    /\ Len(b.packets) > 1 => Len(b.packets) <= MaxBatchPackets /\ b.bytes <= MaxBatchBytes
    /\ b.bytes = SumFunction(Sizes(b.packets))
    /\ IsolateControl => ((\E i \in DOMAIN b.packets : b.packets[i].control) => Len(b.packets) = 1)
    /\ PreserveOrder => InDeviceOrder(b.packets)
    /\ Earliest(b.deadline, b.packets)

Numbers(b) == {b.packets[i].number : i \in DOMAIN b.packets}

\* What holds of the batches U under way when the first n packets have left.
Ordered(U, n) ==
    /\ IsFiniteSet(U) /\ n \in Nat
    /\ \A b \in U : Fine(b) /\ Len(b.packets) >= 1
    /\ \A b \in U : \E k \in Nat : Consecutive(b.packets, k) /\ k + Len(b.packets) <= n
    /\ \A b, c \in U : b # c => Numbers(b) \cap Numbers(c) = {}

\* What holds of the open batch o when n of the m packets offered have left.
Rest(o, n, m) ==
    /\ Fine(o) /\ n \in Nat /\ m \in Nat
    /\ Len(o.packets) = m - n /\ Consecutive(o.packets, n)

MayJoin(b, e, now) ==
    b.packets = << >> \/ (Refusal(b, e, now) = "none" /\ ~(IsolateControl /\ e.control))

-----------------------------------------------------------------------------
(* Sequences and sums.                                                     *)

\* Appending to a sequence, by positions.
LEMMA Appended ==
    ASSUME NEW S, NEW s \in Seq(S), NEW e \in S, NEW t, t = Append(s, e)
    PROVE  /\ t \in Seq(S) /\ Len(s) \in Nat /\ Len(t) = Len(s) + 1 /\ DOMAIN s = 1..Len(s)
           /\ DOMAIN t = DOMAIN s \cup {Len(s) + 1} /\ Len(s) + 1 \notin DOMAIN s
           /\ t[Len(s) + 1] = e /\ \A i \in DOMAIN s : t[i] = s[i]
<1>1. t \in Seq(S) /\ Len(t) = Len(s) + 1 /\ t[Len(s) + 1] = e /\ \A i \in 1..Len(s) : t[i] = s[i]
    BY AppendProperties
<1>2. Len(s) \in Nat /\ DOMAIN s = 1..Len(s) /\ DOMAIN t = 1..Len(t)
    BY <1>1, LenProperties
<1>3. 1..(Len(s) + 1) = 1..Len(s) \cup {Len(s) + 1} /\ Len(s) + 1 \notin 1..Len(s)
    BY <1>2
<1> QED
    BY <1>1, <1>2, <1>3

\* The fields of a packet in a batch.
LEMMA EnvAt ==
    ASSUME NEW s \in Seq(Env), NEW i \in DOMAIN s
    PROVE  /\ s[i].size \in Nat /\ s[i].sequence \in Nat /\ s[i].deadline \in Nat
           /\ s[i].control \in BOOLEAN /\ s[i].number \in Nat
<1>1. DOMAIN s = 1..Len(s) /\ \A j \in 1..Len(s) : s[j] \in Env
    BY LenProperties, ElementOfSeq
<1>2. s[i] \in Env
    BY <1>1
<1> QED
    BY <1>2 DEF Env

\* The total size of a sequence of packets is a number.
LEMMA SizeTyped ==
    ASSUME NEW s \in Seq(Env)
    PROVE  Counts(Sizes(s)) /\ SumFunction(Sizes(s)) \in Nat
<1>1. Len(s) \in Nat /\ DOMAIN s = 1..Len(s) /\ \A i \in 1..Len(s) : s[i] \in Env
    BY LenProperties, ElementOfSeq
<1>2. IsFiniteSet(1..Len(s))
    BY <1>1, FS_Interval
<1>3. \A i \in DOMAIN s : s[i].size \in Nat
    BY <1>1 DEF Env
<1>4. Counts(Sizes(s))
    BY <1>1, <1>2, <1>3 DEF Counts, Sizes
<1> QED
    BY <1>4, SumTyped DEF Counts, SumFunction

\* ... and grows by what is appended.
LEMMA SizeAppend ==
    ASSUME NEW s \in Seq(Env), NEW e \in Env, NEW t, t = Append(s, e)
    PROVE  SumFunction(Sizes(t)) = SumFunction(Sizes(s)) + e.size
<1> DEFINE x == Len(s) + 1
           f == Sizes(s)
           g == Sizes(t)
<1>1. t \in Seq(Env) /\ DOMAIN t = DOMAIN s \cup {x} /\ x \notin DOMAIN s /\ t[x] = e
      /\ \A i \in DOMAIN s : t[i] = s[i]
    BY Appended
<1> HIDE DEF x
<1>2. Counts(f) /\ Counts(g) /\ SumFunction(f) \in Nat
    BY <1>1, SizeTyped
<1>3. DOMAIN f = DOMAIN s /\ DOMAIN g = DOMAIN t /\ g[x] = e.size /\ \A i \in DOMAIN s : f[i] = g[i]
    BY <1>1 DEF Sizes
<1> HIDE DEF f, g
<1>4. DOMAIN f \ {x} = DOMAIN g \ {x} /\ \A i \in DOMAIN f \ {x} : f[i] = g[i]
    BY <1>1, <1>3
<1>5. PICK r \in Nat : SumFunction(f) = At(f, x) + r /\ SumFunction(g) = At(g, x) + r
    BY <1>2, <1>4, SumChange
<1>6. At(f, x) = 0 /\ At(g, x) = e.size /\ e.size \in Nat
    BY <1>1, <1>3 DEF At, Env
<1>7. SumFunction(g) = SumFunction(f) + e.size
    BY <1>5, <1>6
<1> QED
    BY <1>7 DEF f, g
-----------------------------------------------------------------------------
(* The batcher.                                                            *)

Joined(b, e) ==
    [packets  |-> Append(b.packets, e),
     first    |-> IF b.first = 0 THEN e.arrival ELSE b.first,
     deadline |-> EarlierDeadline(b, e),
     bytes    |-> b.bytes + e.size,
     priority |-> IF e.priority > b.priority THEN e.priority ELSE b.priority,
     reason   |-> "none"]

\* update_window() keeps the earliest deadline.
LEMMA DeadlineJoined ==
    ASSUME NEW b, Fine(b), NEW e \in Env, NEW t, t = Append(b.packets, e)
    PROVE  EarlierDeadline(b, e) \in Nat /\ Earliest(EarlierDeadline(b, e), t)
<1> DEFINE s == b.packets
           x == Len(s) + 1
           d == b.deadline
           u == e.deadline
           v == EarlierDeadline(b, e)
<1>1. s \in Seq(Env) /\ d \in Nat /\ Earliest(d, s)
    BY DEF Fine
<1>2. DOMAIN t = DOMAIN s \cup {x} /\ t[x] = e /\ \A i \in DOMAIN s : t[i] = s[i]
    BY <1>1, Appended
<1>3. u \in Nat /\ \A i \in DOMAIN s : s[i].deadline \in Nat
    <2>1. \A i \in DOMAIN s : s[i].deadline \in Nat
        <3> HIDE DEF s
        <3> QED
            BY <1>1, EnvAt
    <2> QED
        BY <2>1 DEF Env
<1>4. v = IF u = 0 THEN d ELSE IF d = 0 \/ u < d THEN u ELSE d
    BY DEF EarlierDeadline
<1>5. t[x].deadline = u /\ x \in DOMAIN t /\ \A i \in DOMAIN s : t[i].deadline = s[i].deadline /\ i \in DOMAIN t
    BY <1>2
<1> HIDE DEF s, x, d, u, v
<1>6. \A i \in DOMAIN t : t[i].deadline = u \/ (i \in DOMAIN s /\ t[i].deadline = s[i].deadline)
    BY <1>2, <1>5
<1>7. CASE d = 0
    <2>1. \A i \in DOMAIN s : s[i].deadline = 0
        BY <1>1, <1>7 DEF Earliest
    <2>2. v = u /\ \A i \in DOMAIN t : t[i].deadline = u \/ t[i].deadline = 0
        BY <1>3, <1>4, <1>6, <1>7, <2>1
    <2> QED
        BY <1>3, <1>5, <2>2 DEF Earliest, v
<1>8. CASE d # 0
    <2>1. PICK j \in DOMAIN s : s[j].deadline = d
        BY <1>1, <1>8 DEF Earliest
    <2>2. \A i \in DOMAIN s : s[i].deadline = 0 \/ d <= s[i].deadline
        BY <1>1, <1>8 DEF Earliest
    <2>3. v \in Nat /\ v # 0 /\ v <= d /\ (u = 0 \/ v <= u) /\ (v = d \/ v = u)
        BY <1>1, <1>3, <1>4, <1>8
    <2>4. \E i \in DOMAIN t : t[i].deadline = v
        BY <1>5, <2>1, <2>3
    <2>5. \A i \in DOMAIN t : t[i].deadline = 0 \/ v <= t[i].deadline
        <3> SUFFICES ASSUME NEW i \in DOMAIN t PROVE t[i].deadline = 0 \/ v <= t[i].deadline
            OBVIOUS
        <3>1. CASE t[i].deadline = u
            BY <2>3, <3>1
        <3>2. CASE i \in DOMAIN s /\ t[i].deadline = s[i].deadline
            <4> DEFINE w == s[i].deadline
            <4>1. w \in Nat /\ (w = 0 \/ d <= w)
                BY <1>3, <2>2, <3>2
            <4> HIDE DEF w
            <4>2. w = 0 \/ v <= w
                BY <1>1, <2>3, <4>1
            <4> QED
                BY <3>2, <4>2 DEF w
        <3> QED
            BY <1>6, <3>1, <3>2
    <2> QED
        BY <2>3, <2>4, <2>5 DEF Earliest, v
<1> QED
    BY <1>7, <1>8 DEF v

\* A packet that may join a batch leaves it within all of its rules.
LEMMA JoinFine ==
    ASSUME NEW b, Fine(b), NEW e \in Env, NEW now, MayJoin(b, e, now), NEW c, c = Joined(b, e)
    PROVE  /\ Fine(c) /\ c.packets = Append(b.packets, e) /\ Len(c.packets) = Len(b.packets) + 1
           /\ c.bytes = b.bytes + e.size
<1> DEFINE s == b.packets
           t == Append(s, e)
           x == Len(s) + 1
<1>1. /\ s \in Seq(Env) /\ b.bytes \in Nat /\ b.bytes = SumFunction(Sizes(s)) /\ e.size \in Nat
      /\ MaxBatchPackets \in Nat /\ MaxBatchBytes \in Nat
    BY UplinkAssumption DEF Fine, Env
<1>2. /\ t \in Seq(Env) /\ Len(s) \in Nat /\ Len(t) = Len(s) + 1 /\ DOMAIN s = 1..Len(s)
      /\ DOMAIN t = DOMAIN s \cup {x} /\ x \notin DOMAIN s /\ t[x] = e
      /\ \A i \in DOMAIN s : t[i] = s[i]
    BY <1>1, Appended
<1>3. /\ c.packets = t /\ c.bytes = b.bytes + e.size /\ c.deadline = EarlierDeadline(b, e) /\ IsBatch(c)
    BY DEF Joined, IsBatch
<1>4. SumFunction(Sizes(t)) = SumFunction(Sizes(s)) + e.size
    BY <1>1, SizeAppend
<1>5. c.deadline \in Nat /\ Earliest(c.deadline, t)
    BY <1>3, DeadlineJoined
<1>6. Len(s) = 0 \/ (/\ ~(Len(s) >= MaxBatchPackets) /\ ~(b.bytes + e.size > MaxBatchBytes)
                     /\ ~(PreserveOrder /\ ConflictsWithDeviceOrder(b, e))
                     /\ ~(IsolateControl /\ b.packets[1].control # e.control)
                     /\ ~(IsolateControl /\ e.control))
    <2>1. CASE s = << >>
        BY <2>1
    <2>2. CASE s # << >>
        BY <2>2 DEF MayJoin, Refusal
    <2> QED
        BY <2>1, <2>2
<1> HIDE DEF s, t
<1>7. Len(t) > 1 => Len(t) <= MaxBatchPackets /\ b.bytes + e.size <= MaxBatchBytes
    BY <1>1, <1>2, <1>6
<1>8. ASSUME IsolateControl, NEW i \in DOMAIN t, t[i].control PROVE Len(t) = 1
    <2>1. CASE Len(s) = 0
        BY <1>2, <2>1
    <2>2. CASE Len(s) # 0
        <3>1. 1 \in DOMAIN s /\ s[1].control \in BOOLEAN /\ e.control \in BOOLEAN
            <4>1. 1 \in DOMAIN s /\ e.control \in BOOLEAN
                BY <1>2, <2>2 DEF Env
            <4> QED
                BY <1>1, <4>1, EnvAt
        <3>2. ~e.control /\ ~s[1].control
            BY <1>6, <1>8, <2>2, <3>1 DEF s
        <3>3. i \in DOMAIN s /\ s[i].control
            BY <1>2, <1>8, <3>2
        <3>4. Len(s) = 1
            BY <1>8, <3>3 DEF Fine, s
        <3>5. i = 1
            BY <1>2, <3>3, <3>4
        <3> QED
            BY <3>2, <3>3, <3>5
    <2> QED
        BY <2>1, <2>2
<1>9. ASSUME PreserveOrder PROVE InDeviceOrder(t)
    <2>0. InDeviceOrder(s)
        BY <1>9 DEF Fine, s
    <2> SUFFICES ASSUME NEW i \in DOMAIN t, NEW j \in DOMAIN t, i < j, t[i].device = t[j].device
                 PROVE  t[i].sequence <= t[j].sequence
        BY DEF InDeviceOrder
    <2>1. CASE j \in DOMAIN s
        <3>1. i \in DOMAIN s
            BY <1>2, <2>1
        <3> QED
            BY <1>2, <2>0, <2>1, <3>1 DEF InDeviceOrder
    <2>2. CASE j = x
        <3>1. i \in DOMAIN s /\ Len(s) # 0
            BY <1>2, <2>2
        <3>2. s[i].sequence \in Nat /\ e.sequence \in Nat
            <4>1. e.sequence \in Nat
                BY DEF Env
            <4> QED
                BY <1>1, <3>1, <4>1, EnvAt
        <3>3. ~(s[i].sequence > e.sequence)
            BY <1>2, <1>6, <1>9, <2>2, <3>1 DEF ConflictsWithDeviceOrder, s
        <3> DEFINE u == s[i].sequence
                   v == e.sequence
        <3>4. u \in Nat /\ v \in Nat /\ ~(u > v)
            BY <3>2, <3>3
        <3> HIDE DEF u, v
        <3>5. u <= v
            BY <3>4
        <3> QED
            BY <1>2, <2>2, <3>1, <3>5 DEF u, v
    <2> QED
        BY <1>2, <2>1, <2>2
<1>10. c.bytes \in Nat /\ c.bytes = SumFunction(Sizes(t))
    BY <1>1, <1>3, <1>4
<1>11. Fine(c)
    <2>1. c.packets \in Seq(Env)
        BY <1>2, <1>3
    <2>2. Len(c.packets) > 1 => Len(c.packets) <= MaxBatchPackets /\ c.bytes <= MaxBatchBytes
        BY <1>3, <1>7
    <2>3. IsolateControl => ((\E i \in DOMAIN c.packets : c.packets[i].control) => Len(c.packets) = 1)
        BY <1>3, <1>8
    <2> QED
        BY <1>3, <1>5, <1>9, <1>10, <2>1, <2>2, <2>3 DEF Fine
<1> QED
    BY <1>2, <1>3, <1>11 DEF s, t
-----------------------------------------------------------------------------
(* What is outstanding.                                                    *)

\* A sum with one summand more.
LEMMA SumGrows ==
    ASSUME NEW f, NEW g, NEW x, Counts(f), Counts(g), DOMAIN g = DOMAIN f \cup {x}, x \notin DOMAIN f,
           \A y \in DOMAIN f : f[y] = g[y]
    PROVE  SumFunction(g) = SumFunction(f) + g[x] /\ SumFunction(f) \in Nat
<1>1. DOMAIN f \ {x} = DOMAIN g \ {x} /\ \A y \in DOMAIN f \ {x} : f[y] = g[y]
    OBVIOUS
<1>2. PICK r \in Nat : SumFunction(f) = At(f, x) + r /\ SumFunction(g) = At(g, x) + r
    BY <1>1, SumChange
<1>3. At(f, x) = 0 /\ At(g, x) = g[x] /\ g[x] \in Nat
    BY DEF At, Counts
<1> QED
    BY <1>2, <1>3

Measured(U) == IsFiniteSet(U) /\ \A b \in U : Len(b.packets) \in Nat /\ b.bytes \in Nat

Lengths(U) == [b \in U |-> Len(b.packets)]

Bytes(U) == [b \in U |-> b.bytes]

\* The packets and the bytes of a finite set of batches are numbers.
LEMMA TotalsTyped ==
    ASSUME NEW U, Measured(U)
    PROVE  /\ Counts(Lengths(U)) /\ Counts(Bytes(U))
           /\ PacketsOf(U) = SumFunction(Lengths(U)) /\ BytesOf(U) = SumFunction(Bytes(U))
           /\ PacketsOf(U) \in Nat /\ BytesOf(U) \in Nat
<1>1. Counts(Lengths(U)) /\ Counts(Bytes(U))
    BY DEF Counts, Lengths, Bytes, Measured
<1>2. PacketsOf(U) = SumFunction(Lengths(U)) /\ BytesOf(U) = SumFunction(Bytes(U))
    BY DEF PacketsOf, BytesOf, Lengths, Bytes
<1>3. ASSUME NEW f, Counts(f) PROVE SumFunction(f) \in Nat
    BY <1>3, SumTyped DEF Counts, SumFunction
<1> QED
    BY <1>1, <1>2, <1>3

\* ... and one batch more adds its own.
LEMMA TotalsAdd ==
    ASSUME NEW U, Measured(U), NEW o, o \notin U, Len(o.packets) \in Nat, o.bytes \in Nat
    PROVE  /\ Measured(U \cup {o})
           /\ PacketsOf(U \cup {o}) = PacketsOf(U) + Len(o.packets)
           /\ BytesOf(U \cup {o}) = BytesOf(U) + o.bytes
<1> DEFINE V == U \cup {o}
<1>1. Measured(V) /\ o \in V
    BY FS_AddElement DEF Measured
<1>2. DOMAIN Lengths(V) = DOMAIN Lengths(U) \cup {o} /\ o \notin DOMAIN Lengths(U)
      /\ DOMAIN Bytes(V) = DOMAIN Bytes(U) \cup {o} /\ o \notin DOMAIN Bytes(U)
    BY DEF Lengths, Bytes
<1>3. /\ \A b \in DOMAIN Lengths(U) : Lengths(U)[b] = Lengths(V)[b]
      /\ \A b \in DOMAIN Bytes(U) : Bytes(U)[b] = Bytes(V)[b]
      /\ Lengths(V)[o] = Len(o.packets) /\ Bytes(V)[o] = o.bytes
    BY DEF Lengths, Bytes
<1> HIDE DEF V
<1>4. /\ Counts(Lengths(U)) /\ Counts(Bytes(U)) /\ Counts(Lengths(V)) /\ Counts(Bytes(V))
      /\ PacketsOf(U) = SumFunction(Lengths(U)) /\ BytesOf(U) = SumFunction(Bytes(U))
      /\ PacketsOf(V) = SumFunction(Lengths(V)) /\ BytesOf(V) = SumFunction(Bytes(V))
    BY <1>1, TotalsTyped
<1>5. SumFunction(Lengths(V)) = SumFunction(Lengths(U)) + Lengths(V)[o]
    BY <1>2, <1>3, <1>4, SumGrows
<1>6. SumFunction(Bytes(V)) = SumFunction(Bytes(U)) + Bytes(V)[o]
    BY <1>2, <1>3, <1>4, SumGrows
<1>7. PacketsOf(V) = PacketsOf(U) + Len(o.packets) /\ BytesOf(V) = BytesOf(U) + o.bytes
    BY <1>3, <1>4, <1>5, <1>6
<1> QED
    BY <1>1, <1>7 DEF V

\* No batches, no packets.
LEMMA TotalsNone == PacketsOf({}) = 0 /\ BytesOf({}) = 0 /\ Measured({})
<1>1. Measured({})
    BY FS_EmptySet DEF Measured
<1>2. DOMAIN Lengths({}) = {} /\ DOMAIN Bytes({}) = {}
    BY DEF Lengths, Bytes
<1>3. SumFunction(Lengths({})) = 0 /\ SumFunction(Bytes({})) = 0
    BY <1>2, SumEmpty DEF SumFunction
<1> QED
    BY <1>1, <1>3, TotalsTyped

\* The batches of a sound state have a length and a size.
LEMMA OrderedMeasured ==
    ASSUME NEW U, NEW n, Ordered(U, n)
    PROVE  Measured(U)
<1> SUFFICES ASSUME NEW b \in U PROVE Len(b.packets) \in Nat /\ b.bytes \in Nat
    BY DEF Measured, Ordered
<1>1. b.packets \in Seq(Env) /\ b.bytes \in Nat
    BY DEF Ordered, Fine
<1> QED
    BY <1>1, LenProperties

-----------------------------------------------------------------------------
(* Small steps of the batcher.                                             *)

\* The batch just opened.
LEMMA EmptyRest ==
    ASSUME NEW n \in Nat
    PROVE  Rest(EmptyBatch, n, n) /\ EmptyBatch.packets = << >> /\ EmptyBatch.bytes = 0
<1> DEFINE o == EmptyBatch
<1>1. o.packets = << >> /\ o.bytes = 0 /\ o.deadline = 0 /\ IsBatch(o)
    BY DEF EmptyBatch, IsBatch
<1> HIDE DEF o
<1>2. o.packets \in Seq(Env) /\ Len(o.packets) = 0 /\ DOMAIN o.packets = {}
    BY <1>1
<1>3. SumFunction(Sizes(o.packets)) = 0
    <2>1. DOMAIN Sizes(o.packets) = {}
        BY <1>2 DEF Sizes
    <2> QED
        BY <2>1, SumEmpty DEF SumFunction
<1>4. Earliest(o.deadline, o.packets)
    BY <1>1, <1>2 DEF Earliest
<1>5. InDeviceOrder(o.packets) /\ Consecutive(o.packets, n)
    BY <1>2 DEF InDeviceOrder, Consecutive
<1>6. Fine(o)
    BY <1>1, <1>2, <1>3, <1>4, <1>5 DEF Fine
<1> QED
    BY <1>1, <1>2, <1>5, <1>6 DEF Rest, o

\* The numbers of consecutive packets.
LEMMA NumbersOf ==
    ASSUME NEW b, b.packets \in Seq(Env), NEW k \in Nat, Consecutive(b.packets, k)
    PROVE  Len(b.packets) \in Nat /\ Numbers(b) = (k + 1)..(k + Len(b.packets))
<1> DEFINE s == b.packets
<1>1. s \in Seq(Env) /\ Len(s) \in Nat /\ DOMAIN s = 1..Len(s)
    BY LenProperties
<1>2. \A i \in 1..Len(s) : s[i].number = k + i
    BY <1>1 DEF Consecutive
<1>3. Numbers(b) = {s[i].number : i \in 1..Len(s)}
    BY <1>1 DEF Numbers
<1> HIDE DEF s
<1>4. ASSUME NEW x \in (k + 1)..(k + Len(s)) PROVE x \in Numbers(b)
    <2>1. x - k \in 1..Len(s) /\ k + (x - k) = x
        BY <1>1
    <2> QED
        BY <1>2, <1>3, <2>1
<1>5. ASSUME NEW x \in Numbers(b) PROVE x \in (k + 1)..(k + Len(s))
    BY <1>1, <1>2, <1>3
<1> QED
    BY <1>1, <1>4, <1>5 DEF s

\* b is o but for the reason.
Closes(b, o) == b.packets = o.packets /\ b.bytes = o.bytes /\ b.deadline = o.deadline /\ IsBatch(b)

\* A batch closed with the packets that had not left.
LEMMA CloseOne ==
    ASSUME NEW U, NEW n, NEW m, NEW o, Ordered(U, n), Rest(o, n, m), o.packets # << >>,
           NEW b, Closes(b, o)
    PROVE  /\ b \notin U /\ Ordered(U \cup {b}, m)
           /\ m = n + Len(o.packets) /\ Len(o.packets) \in Nat /\ o.bytes \in Nat
<1>1. /\ Fine(o) /\ n \in Nat /\ m \in Nat /\ Len(o.packets) = m - n /\ Consecutive(o.packets, n)
      /\ o.packets \in Seq(Env) /\ IsBatch(o) /\ o.bytes \in Nat
    BY DEF Rest, Fine
<1>2. Len(o.packets) \in Nat /\ Len(o.packets) >= 1 /\ m = n + Len(o.packets)
    BY <1>1, LenProperties, EmptySeq
<1>3. b.packets = o.packets /\ b.bytes = o.bytes /\ b.deadline = o.deadline /\ IsBatch(b)
    BY DEF Closes
<1>4. Fine(b) /\ Len(b.packets) >= 1 /\ b.packets \in Seq(Env) /\ Consecutive(b.packets, n)
    BY <1>1, <1>2, <1>3 DEF Fine
<1>5. Numbers(b) = (n + 1)..m
    BY <1>1, <1>2, <1>3, <1>4, NumbersOf
<1>6. ASSUME NEW c \in U
      PROVE  Numbers(c) \cap Numbers(b) = {} /\ c # b /\ \E k \in Nat : Consecutive(c.packets, k) /\ k + Len(c.packets) <= m
    <2>1. PICK k \in Nat : Consecutive(c.packets, k) /\ k + Len(c.packets) <= n
        BY DEF Ordered
    <2>2. c.packets \in Seq(Env) /\ Len(c.packets) >= 1
        BY DEF Ordered, Fine
    <2>3. Len(c.packets) \in Nat /\ Numbers(c) = (k + 1)..(k + Len(c.packets))
        BY <2>1, <2>2, NumbersOf
    <2>4. k + Len(c.packets) <= m
        BY <1>1, <1>2, <2>1, <2>3
    <2>5. Numbers(c) \cap Numbers(b) = {} /\ k + 1 \in Numbers(c)
        BY <1>1, <1>5, <2>1, <2>2, <2>3
    <2> QED
        BY <2>1, <2>4, <2>5
<1>7. b \notin U
    BY <1>6
<1>8. Ordered(U \cup {b}, m)
    <2>1. IsFiniteSet(U \cup {b})
        BY FS_AddElement DEF Ordered
    <2>2. \A c \in U \cup {b} : Fine(c) /\ Len(c.packets) >= 1
        BY <1>4 DEF Ordered
    <2>3. \A c \in U \cup {b} : \E k \in Nat : Consecutive(c.packets, k) /\ k + Len(c.packets) <= m
        <3>1. n \in Nat /\ Consecutive(b.packets, n) /\ n + Len(b.packets) <= m
            BY <1>1, <1>2, <1>3, <1>4
        <3>2. \E k \in Nat : Consecutive(b.packets, k) /\ k + Len(b.packets) <= m
            BY <3>1
        <3> QED
            BY <1>6, <3>2
    <2>4. \A c, d \in U \cup {b} : c # d => Numbers(c) \cap Numbers(d) = {}
        BY <1>6 DEF Ordered
    <2> QED
        BY <1>1, <2>1, <2>2, <2>3, <2>4 DEF Ordered
<1> QED
    BY <1>1, <1>2, <1>3, <1>7, <1>8
-----------------------------------------------------------------------------
(* A call of the batcher.                                                  *)

\* What holds in the middle of a call, and at its end: r is the result so far of a
\* call that found n packets gone and the batches U under way, m the number of packets
\* offered, p and q the packets and the bytes outstanding.
Outcome(r, U, n, m, p, q) ==
    LET V == U \cup Range(r.ready)
        k == n + PacketsOf(Range(r.ready))
    IN  /\ r = [open |-> r.open, ready |-> r.ready]
        /\ r.ready \in Seq(Range(r.ready)) /\ Measured(Range(r.ready))
        /\ Ordered(V, k) /\ Rest(r.open, k, m)
        /\ p = PacketsOf(V) + Len(r.open.packets)
        /\ q = BytesOf(V) + r.open.bytes

\* The range of a sequence that grows.
LEMMA RangeAppend ==
    ASSUME NEW s, s \in Seq(Range(s)), NEW b, NEW t, t = Append(s, b)
    PROVE  t \in Seq(Range(t)) /\ Range(t) = Range(s) \cup {b}
<1> DEFINE S == Range(s) \cup {b}
<1>1. Len(s) \in Nat /\ DOMAIN s = 1..Len(s) /\ \A i \in DOMAIN s : s[i] \in S
    BY LenProperties DEF Range
<1>2. s \in Seq(S)
    <2>1. s = [i \in 1..Len(s) |-> s[i]]
        BY LenProperties
    <2> QED
        BY <1>1, <2>1, IsASeq
<1> HIDE DEF S
<1>3. b \in S
    BY DEF S
<1>4. /\ t \in Seq(S) /\ DOMAIN t = DOMAIN s \cup {Len(s) + 1} /\ t[Len(s) + 1] = b
      /\ \A i \in DOMAIN s : t[i] = s[i]
    BY <1>2, <1>3, Appended
<1>5. Range(t) = S
    <2>1. Range(t) = {t[i] : i \in DOMAIN t} /\ Range(s) = {s[i] : i \in DOMAIN s}
        BY DEF Range
    <2> QED
        BY <1>4, <2>1 DEF S
<1> QED
    BY <1>4, <1>5 DEF S

\* A call begins with nothing closed.
LEMMA OutcomeStart ==
    ASSUME NEW o, NEW U, NEW n, NEW m, Ordered(U, n), Rest(o, n, m)
    PROVE  Outcome([open |-> o, ready |-> << >>], U, n, m,
                   PacketsOf(U) + Len(o.packets), BytesOf(U) + o.bytes)
<1> DEFINE r == [open |-> o, ready |-> << >>]
<1>1. r.open = o /\ r.ready = << >> /\ r = [open |-> r.open, ready |-> r.ready]
    OBVIOUS
<1>2. Range(r.ready) = {}
    BY <1>1 DEF Range
<1> HIDE DEF r
<1>3. r.ready \in Seq(Range(r.ready)) /\ Measured(Range(r.ready)) /\ PacketsOf(Range(r.ready)) = 0
    <2>1. << >> \in Seq({})
        BY EmptySeq
    <2> QED
        BY <1>1, <1>2, <2>1, TotalsNone
<1>4. U \cup Range(r.ready) = U /\ n + PacketsOf(Range(r.ready)) = n
    BY <1>2, <1>3 DEF Ordered
<1> QED
    BY <1>1, <1>3, <1>4 DEF Outcome, r

\* Closing the open batch, if there is a reason and something in it.
LEMMA ClosedKeeps ==
    ASSUME NEW r, NEW U, NEW n \in Nat, NEW m, NEW p, NEW q, Outcome(r, U, n, m, p, q), NEW reason,
           reason # "none" => r.open.packets # << >>
    PROVE  Outcome(Closed(r, reason), U, n, m, p, q)
<1> DEFINE c == Closed(r, reason)
<1>1. CASE reason = "none"
    BY <1>1 DEF Closed
<1>2. CASE reason # "none"
    <2> DEFINE o == r.open
               b == [o EXCEPT !.reason = reason]
               R == Range(r.ready)
               V == U \cup R
               k == n + PacketsOf(R)
    <2>1. /\ c.open = EmptyBatch /\ c.ready = Append(r.ready, b)
          /\ c = [open |-> c.open, ready |-> c.ready]
        BY <1>2 DEF Closed
    <2> HIDE DEF c
    <2>2. /\ r.ready \in Seq(R) /\ Measured(R) /\ Ordered(V, k) /\ Rest(o, k, m)
          /\ p = PacketsOf(V) + Len(o.packets) /\ q = BytesOf(V) + o.bytes
        BY DEF Outcome
    <2> HIDE DEF R, V, k, o
    <2>3. o.packets # << >>
        BY <1>2 DEF o
    <2>0. Closes(b, o)
        BY <2>2 DEF Closes, IsBatch, Rest, Fine
    <2> HIDE DEF b
    <2>4. /\ b \notin V /\ Ordered(V \cup {b}, m)
          /\ m = k + Len(o.packets) /\ Len(o.packets) \in Nat /\ o.bytes \in Nat
        BY <2>0, <2>2, <2>3, CloseOne
    <2>5. c.ready \in Seq(Range(c.ready)) /\ Range(c.ready) = R \cup {b}
        <3>1. r.ready \in Seq(Range(r.ready))
            BY <2>2 DEF R
        <3> QED
            BY <2>1, <3>1, RangeAppend DEF R
    <2>6. /\ b \notin R /\ b.packets = o.packets /\ b.bytes = o.bytes
          /\ Len(b.packets) \in Nat /\ b.bytes \in Nat
        BY <2>0, <2>4 DEF V, Closes
    <2>7. Measured(R \cup {b}) /\ PacketsOf(R \cup {b}) = PacketsOf(R) + Len(o.packets)
        BY <2>2, <2>4, <2>6, TotalsAdd
    <2>8. Measured(V)
        BY <2>2, OrderedMeasured
    <2>9. /\ PacketsOf(V \cup {b}) = PacketsOf(V) + Len(o.packets)
          /\ BytesOf(V \cup {b}) = BytesOf(V) + o.bytes
        BY <2>4, <2>6, <2>8, TotalsAdd
    <2>10. PacketsOf(R) \in Nat /\ PacketsOf(V) \in Nat /\ BytesOf(V) \in Nat
        BY <2>2, <2>8, TotalsTyped
    <2>11. m \in Nat
        BY <2>2 DEF Rest
    <2>12. n + PacketsOf(R \cup {b}) = m
        BY <2>4, <2>7, <2>10 DEF k
    <2>13. Rest(EmptyBatch, m, m) /\ EmptyBatch.packets = << >> /\ EmptyBatch.bytes = 0
        BY <2>11, EmptyRest
    <2>14. U \cup Range(c.ready) = V \cup {b}
        BY <2>5 DEF V
    <2>15. /\ p = PacketsOf(V \cup {b}) + Len(EmptyBatch.packets)
           /\ q = BytesOf(V \cup {b}) + EmptyBatch.bytes
        BY <2>2, <2>4, <2>9, <2>10, <2>13
    <2> QED
        BY <1>2, <2>1, <2>4, <2>5, <2>7, <2>12, <2>13, <2>14, <2>15 DEF Outcome, c
<1> QED
    BY <1>1, <1>2

\* Adding a packet that may join the open batch.
LEMMA AddedKeeps ==
    ASSUME NEW r, NEW U, NEW n, NEW m, NEW p, NEW q, Outcome(r, U, n, m, p, q),
           NEW e \in Env, e.number = m + 1, NEW now, MayJoin(r.open, e, now), NEW c, c = Added(r, e)
    PROVE  Outcome(c, U, n, m + 1, p + 1, q + e.size) /\ c.open.packets # << >>
<1> DEFINE o == r.open
           j == Joined(o, e)
           V == U \cup Range(r.ready)
           k == n + PacketsOf(Range(r.ready))
<1>1. c = [open |-> j, ready |-> r.ready]
    BY DEF Outcome, Added, Joined
<1>2. c.open = j /\ c.ready = r.ready /\ c = [open |-> c.open, ready |-> c.ready]
    BY <1>1
<1>3. /\ r.ready \in Seq(Range(r.ready)) /\ Measured(Range(r.ready))
      /\ Ordered(V, k) /\ Rest(o, k, m)
      /\ p = PacketsOf(V) + Len(o.packets) /\ q = BytesOf(V) + o.bytes
    BY DEF Outcome
<1> HIDE DEF o, V, k, j
<1>4. /\ Fine(o) /\ k \in Nat /\ m \in Nat /\ Len(o.packets) = m - k /\ Consecutive(o.packets, k)
      /\ o.packets \in Seq(Env) /\ o.bytes \in Nat
    BY <1>3 DEF Rest, Fine
<1>5. /\ Fine(j) /\ j.packets = Append(o.packets, e) /\ Len(j.packets) = Len(o.packets) + 1
      /\ j.bytes = o.bytes + e.size
    BY <1>4, JoinFine DEF o, j
<1>6. /\ Len(o.packets) \in Nat /\ DOMAIN j.packets = DOMAIN o.packets \cup {Len(o.packets) + 1}
      /\ j.packets[Len(o.packets) + 1] = e /\ \A i \in DOMAIN o.packets : j.packets[i] = o.packets[i]
    BY <1>4, <1>5, Appended
<1>7. k + (Len(o.packets) + 1) = m + 1 /\ Len(j.packets) = (m + 1) - k /\ e.size \in Nat
    BY <1>4, <1>5, <1>6 DEF Env
<1>8. Consecutive(j.packets, k)
    BY <1>4, <1>6, <1>7 DEF Consecutive
<1>9. Rest(j, k, m + 1)
    BY <1>4, <1>5, <1>7, <1>8 DEF Rest
<1>10. PacketsOf(V) \in Nat /\ BytesOf(V) \in Nat
    BY <1>3, OrderedMeasured, TotalsTyped
<1>11. p + 1 = PacketsOf(V) + Len(j.packets) /\ q + e.size = BytesOf(V) + j.bytes
    <2> DEFINE x == PacketsOf(V)
               y == BytesOf(V)
               l == Len(o.packets)
               w == o.bytes
               z == e.size
    <2>1. /\ x \in Nat /\ y \in Nat /\ l \in Nat /\ w \in Nat /\ z \in Nat
          /\ p = x + l /\ q = y + w /\ Len(j.packets) = l + 1 /\ j.bytes = w + z
        BY <1>3, <1>4, <1>5, <1>6, <1>7, <1>10
    <2> HIDE DEF x, y, l, w, z
    <2>2. p + 1 = x + Len(j.packets) /\ q + z = y + j.bytes
        BY <2>1
    <2> QED
        BY <2>2 DEF x, y, z
<1>12. j.packets # << >>
    BY <1>4, <1>5, AppendProperties
<1> QED
    BY <1>2, <1>3, <1>9, <1>11, <1>12 DEF Outcome, V, k

\* flush_due() closes a batch with packets, if any.
LEMMA FlushDueKeeps ==
    ASSUME NEW r, NEW U, NEW n \in Nat, NEW m, NEW p, NEW q, Outcome(r, U, n, m, p, q), NEW now
    PROVE  Outcome(FlushDue(r, now), U, n, m, p, q)
<1>1. InferCloseReason(r.open, now) # "none" => r.open.packets # << >>
    BY DEF InferCloseReason
<1> QED
    BY <1>1, ClosedKeeps DEF FlushDue

\* offer(): when the packet is added, it may join the open batch.
LEMMA OfferKeeps ==
    ASSUME NEW r, NEW U, NEW n \in Nat, NEW m, NEW p, NEW q, Outcome(r, U, n, m, p, q),
           NEW e \in Env, e.number = m + 1, NEW now
    PROVE  Outcome(FlushDue(Added(IsolateFrom(MakeRoom(FlushDue(r, now), e, now), e), e), now),
                   U, n, m + 1, p + 1, q + e.size)
<1> DEFINE a == FlushDue(r, now)
           why == Refusal(a.open, e, now)
           b == MakeRoom(a, e, now)
           alone == IF IsolateControl /\ e.control /\ b.open.packets # << >>
                    THEN "priority_flush" ELSE "none"
           c == IsolateFrom(b, e)
<1>1. Outcome(a, U, n, m, p, q)
    BY FlushDueKeeps
<1>2. b = Closed(a, why) /\ c = Closed(b, alone) /\ (alone = "none" \/ alone = "priority_flush")
    BY DEF MakeRoom, IsolateFrom
<1>3. why # "none" => a.open.packets # << >>
    BY DEF Refusal
<1>4. alone # "none" => b.open.packets # << >>
    OBVIOUS
<1>5. alone = "none" => ~(IsolateControl /\ e.control) \/ b.open.packets = << >>
    OBVIOUS
<1> HIDE DEF a, b, c, alone, why
<1>6. Outcome(b, U, n, m, p, q) /\ b.open = IF why = "none" THEN a.open ELSE EmptyBatch
    <2>1. Outcome(Closed(a, why), U, n, m, p, q)
        BY <1>1, <1>3, ClosedKeeps
    <2> QED
        BY <1>2, <2>1 DEF Closed
<1>7. Outcome(c, U, n, m, p, q) /\ c.open = IF alone = "none" THEN b.open ELSE EmptyBatch
    <2>1. Outcome(Closed(b, alone), U, n, m, p, q)
        BY <1>4, <1>6, ClosedKeeps
    <2> QED
        BY <1>2, <2>1 DEF Closed
<1>8. EmptyBatch.packets = << >>
    BY DEF EmptyBatch
<1>9. MayJoin(c.open, e, now)
    <2>1. CASE c.open.packets = << >>
        BY <2>1 DEF MayJoin
    <2>2. CASE c.open.packets # << >>
        <3>1. alone = "none" /\ c.open = b.open /\ b.open.packets # << >>
            BY <1>7, <1>8, <2>2
        <3>2. why = "none" /\ b.open = a.open
            BY <1>6, <1>8, <3>1
        <3> QED
            BY <1>5, <3>1, <3>2 DEF MayJoin, why
    <2> QED
        BY <2>1, <2>2
<1>10. Outcome(Added(c, e), U, n, m + 1, p + 1, q + e.size)
    BY <1>7, <1>9, AddedKeeps
<1>11. Outcome(FlushDue(Added(c, e), now), U, n, m + 1, p + 1, q + e.size)
    BY <1>10, FlushDueKeeps
<1> QED
    BY <1>11 DEF a, b, c
-----------------------------------------------------------------------------
(* The inductive invariant of the batcher.                                 *)

Counted(c) ==
    /\ c = [offered |-> c.offered, left |-> c.left, held |-> c.held]
    /\ c.offered \in Nat /\ c.left \in Nat /\ c.held \in Nat

\* What holds of the batcher with the batches under way.
Batching(o, U, c) == Counted(c) /\ Ordered(U, c.left) /\ Rest(o, c.left, c.offered)

\* What is outstanding with batches U under way and o open.
Load(o, U) == PacketsOf(U) + Len(o.packets)

LoadBytes(o, U) == BytesOf(U) + o.bytes

\* ... is a pair of numbers, and what the thread reports.
LEMMA LoadReported ==
    ASSUME NEW o, NEW U, NEW c, Batching(o, U, c)
    PROVE  /\ Load(o, U) \in Nat /\ LoadBytes(o, U) \in Nat
           /\ PacketsOf(U \cup {o}) = Load(o, U) /\ BytesOf(U \cup {o}) = LoadBytes(o, U)
<1>1. /\ Ordered(U, c.left) /\ Rest(o, c.left, c.offered) /\ o.packets \in Seq(Env) /\ o.bytes \in Nat
      /\ Fine(o) /\ IsBatch(o)
    BY DEF Batching, Rest, Fine
<1>2. Len(o.packets) \in Nat /\ Measured(U)
    BY <1>1, LenProperties, OrderedMeasured
<1>3. o \notin U
    <2>1. CASE o.packets = << >>
        <3>1. ~(Len(o.packets) >= 1)
            BY <2>1
        <3> QED
            BY <1>1, <3>1 DEF Ordered
    <2>2. CASE o.packets # << >>
        <3>1. Closes(o, o)
            BY <1>1 DEF Closes
        <3> QED
            BY <1>1, <2>2, <3>1, CloseOne
    <2> QED
        BY <2>1, <2>2
<1>4. PacketsOf(U \cup {o}) = PacketsOf(U) + Len(o.packets) /\ BytesOf(U \cup {o}) = BytesOf(U) + o.bytes
    BY <1>1, <1>2, <1>3, TotalsAdd
<1>5. PacketsOf(U) \in Nat /\ BytesOf(U) \in Nat
    BY <1>2, TotalsTyped
<1> QED
    BY <1>1, <1>2, <1>4, <1>5 DEF Load, LoadBytes

\* What follows a call of the batcher.
LEMMA BatchedKeeps ==
    ASSUME Batching(open, uploads, counts), NEW r, NEW k \in Nat, NEW p, NEW q,
           Outcome(r, uploads, counts.left, counts.offered + k, p, q), Batched(r, k)
    PROVE  /\ Batching(open', uploads', counts') /\ counts'.offered = counts.offered + k
           /\ Load(open', uploads') = p /\ LoadBytes(open', uploads') = q
<1> DEFINE R == Range(r.ready)
           l == counts.left
           x == counts.offered + k
<1>1. Counted(counts)
    BY DEF Batching
<1>2. open' = r.open /\ uploads' = uploads \cup R
    BY DEF Batched
<1>3. counts' = [offered |-> x, left |-> l + PacketsOf(R), held |-> counts.held]
    BY <1>1 DEF Batched, Counted
<1>4. /\ counts'.offered = x /\ counts'.left = l + PacketsOf(R) /\ counts'.held = counts.held
      /\ counts' = [offered |-> counts'.offered, left |-> counts'.left, held |-> counts'.held]
    BY <1>3
<1>5. Measured(R) /\ Ordered(uploads', counts'.left) /\ Rest(open', counts'.left, counts'.offered)
    BY <1>2, <1>4 DEF Outcome
<1>6. p = Load(open', uploads') /\ q = LoadBytes(open', uploads')
    BY <1>2 DEF Outcome, Load, LoadBytes
<1>7. counts'.offered \in Nat /\ counts'.left \in Nat /\ counts'.held \in Nat
    BY <1>1, <1>4, <1>5 DEF Rest, Counted
<1> QED
    BY <1>4, <1>5, <1>6, <1>7 DEF Batching, Counted

\* A packet at hand is an envelope, numbered next.
LEMMA EnvelopeTyped ==
    ASSUME NEW p \in Packets, clock \in Nat, Counted(counts)
    PROVE  WithPriority(EnvelopeOf(p)) \in Env /\ WithPriority(EnvelopeOf(p)).number = counts.offered + 1
<1> DEFINE e == WithPriority(EnvelopeOf(p))
           d == IF p.ttl = 0 THEN 0 ELSE clock + p.ttl
           pr == IF p.priority = Normal THEN p.inferred ELSE p.priority
           nr == counts.offered + 1
<1>1. /\ p.size \in Nat /\ p.priority \in 0..3 /\ p.ttl \in Nat
      /\ p.sequence \in Nat /\ p.control \in BOOLEAN
    BY UplinkAssumption
<1>2. d \in Nat /\ nr \in Nat
    BY <1>1 DEF Counted
<1>3. e = [device |-> p.device, sequence |-> p.sequence, size |-> p.size, control |-> p.control,
           priority |-> pr, inferred |-> p.inferred, arrival |-> clock, deadline |-> d, number |-> nr]
    BY DEF WithPriority, EnvelopeOf
<1> HIDE DEF e
<1>4. /\ p.device \in {z.device : z \in Packets} /\ p.inferred \in {z.inferred : z \in Packets}
      /\ pr \in 0..3 \cup {z.inferred : z \in Packets}
    BY <1>1
<1> HIDE DEF d, pr, nr
<1>5. e \in Env
    BY <1>1, <1>2, <1>3, <1>4 DEF Env
<1> QED
    BY <1>3, <1>5 DEF nr, e

\* Admitting a packet: one packet more is outstanding.
LEMMA AdmitBatching ==
    ASSUME clock \in Nat, Batching(open, uploads, counts), NEW p \in Packets, Admit(p)
    PROVE  /\ Batching(open', uploads', counts')
           /\ Load(open, uploads) <= Load(open', uploads') /\ LoadBytes(open, uploads) <= LoadBytes(open', uploads')
<1> DEFINE e == WithPriority(EnvelopeOf(p))
           n == counts.left
           m == counts.offered
           s == NothingClosed
           x == Load(open, uploads)
           y == LoadBytes(open, uploads)
<1>1. Counted(counts) /\ n \in Nat /\ m \in Nat /\ Ordered(uploads, n) /\ Rest(open, n, m)
    BY DEF Batching, Counted
<1>2. e \in Env /\ e.number = m + 1 /\ e.size \in Nat
    <2>1. e \in Env /\ e.number = m + 1
        BY <1>1, EnvelopeTyped
    <2> HIDE DEF e
    <2> QED
        BY <2>1 DEF Env
<1>3. Outcome(s, uploads, n, m, x, y)
    BY <1>1, OutcomeStart DEF NothingClosed, Load, LoadBytes
<1>4. Offer(EnvelopeOf(p), clock) = FlushDue(Added(IsolateFrom(MakeRoom(FlushDue(s, clock), e, clock), e), e), clock)
    BY DEF Offer
<1> HIDE DEF e, s, x, y, n, m
<1>5. Outcome(Offer(EnvelopeOf(p), clock), uploads, n, m + 1, x + 1, y + e.size)
    BY <1>1, <1>2, <1>3, <1>4, OfferKeeps
<1>6. Batched(Offer(EnvelopeOf(p), clock), 1)
    BY DEF Admit
<1>7. /\ Batching(open', uploads', counts')
      /\ Load(open', uploads') = x + 1 /\ LoadBytes(open', uploads') = y + e.size
    BY <1>5, <1>6, BatchedKeeps DEF n, m
<1>8. x \in Nat /\ y \in Nat
    BY LoadReported DEF x, y
<1>9. x <= x + 1 /\ y <= y + e.size
    BY <1>2, <1>8
<1> QED
    BY <1>7, <1>9 DEF x, y

\* tick() and flush() leave the load as it is.
LEMMA PollBatching ==
    ASSUME Batching(open, uploads, counts), Poll \/ Flush
    PROVE  /\ Batching(open', uploads', counts')
           /\ Load(open', uploads') = Load(open, uploads) /\ LoadBytes(open', uploads') = LoadBytes(open, uploads)
<1> DEFINE n == counts.left
           m == counts.offered
           s == NothingClosed
           x == Load(open, uploads)
           y == LoadBytes(open, uploads)
           why == IF open.packets # << >> THEN "manual_flush" ELSE "none"
           k == 0
<1>1. Counted(counts) /\ n \in Nat /\ m \in Nat /\ Ordered(uploads, n) /\ Rest(open, n, m)
    BY DEF Batching, Counted
<1>2. Outcome(s, uploads, n, m, x, y) /\ s.open = open /\ m + k = m /\ k \in Nat
    BY <1>1, OutcomeStart DEF NothingClosed, Load, LoadBytes
<1>3. why # "none" => s.open.packets # << >>
    BY <1>2
<1>4. (Poll => Batched(FlushDue(s, clock), k)) /\ (Flush => Batched(Closed(s, why), k))
    BY DEF Poll, Flush, TickBatch, FlushBatch
<1> HIDE DEF n, m, s, x, y, why, k
<1>5. CASE Poll
    <2>1. Outcome(FlushDue(s, clock), uploads, n, m + k, x, y)
        BY <1>1, <1>2, FlushDueKeeps
    <2> QED
        BY <1>2, <1>4, <1>5, <2>1, BatchedKeeps DEF n, m, x, y
<1>6. CASE Flush
    <2>1. Outcome(Closed(s, why), uploads, n, m + k, x, y)
        BY <1>1, <1>2, <1>3, ClosedKeeps
    <2> QED
        BY <1>2, <1>4, <1>6, <2>1, BatchedKeeps DEF n, m, x, y
<1> QED
    BY <1>5, <1>6

\* An upload that ends takes its packets away.
LEMMA DoneBatching ==
    ASSUME Batching(open, uploads, counts), NEW b \in uploads, UploadDone(b)
    PROVE  /\ Batching(open', uploads', counts') /\ Len(b.packets) \in Nat /\ b.bytes \in Nat
           /\ Load(open, uploads) = Load(open', uploads') + Len(b.packets)
           /\ LoadBytes(open, uploads) = LoadBytes(open', uploads') + b.bytes
           /\ Load(open', uploads') \in Nat /\ LoadBytes(open', uploads') \in Nat
<1> DEFINE V == uploads \ {b}
<1>1. uploads' = V /\ open' = open /\ counts' = counts
    BY DEF UploadDone
<1>2. Ordered(uploads, counts.left) /\ Measured(uploads)
    BY OrderedMeasured DEF Batching
<1>3. Ordered(V, counts.left)
    BY <1>2, FS_RemoveElement DEF Ordered
<1>4. Batching(open', uploads', counts')
    BY <1>1, <1>3 DEF Batching
<1>5. /\ b \notin V /\ uploads = V \cup {b} /\ Len(b.packets) \in Nat /\ b.bytes \in Nat
    BY <1>2 DEF Measured
<1> HIDE DEF V
<1>6. Measured(V)
    BY <1>3, OrderedMeasured
<1>7. PacketsOf(uploads) = PacketsOf(V) + Len(b.packets) /\ BytesOf(uploads) = BytesOf(V) + b.bytes
    BY <1>5, <1>6, TotalsAdd
<1>8. open.packets \in Seq(Env) /\ open.bytes \in Nat
    BY DEF Batching, Rest, Fine
<1>9. Len(open.packets) \in Nat
    BY <1>8, LenProperties
<1>10. PacketsOf(V) \in Nat /\ BytesOf(V) \in Nat
    BY <1>6, TotalsTyped
<1>11. /\ Load(open', uploads') = PacketsOf(V) + Len(open.packets)
       /\ LoadBytes(open', uploads') = BytesOf(V) + open.bytes
    BY <1>1 DEF Load, LoadBytes
<1> DEFINE x == PacketsOf(V)
           y == BytesOf(V)
           l == Len(b.packets)
           w == b.bytes
           i == Len(open.packets)
           j == open.bytes
<1>12. /\ x \in Nat /\ y \in Nat /\ l \in Nat /\ w \in Nat /\ i \in Nat /\ j \in Nat
       /\ Load(open, uploads) = (x + l) + i /\ LoadBytes(open, uploads) = (y + w) + j
       /\ Load(open', uploads') = x + i /\ LoadBytes(open', uploads') = y + j
    BY <1>5, <1>7, <1>8, <1>9, <1>10, <1>11 DEF Load, LoadBytes
<1> HIDE DEF x, y, l, w, i, j
<1>13. /\ Load(open, uploads) = Load(open', uploads') + l
       /\ LoadBytes(open, uploads) = LoadBytes(open', uploads') + w
       /\ Load(open', uploads') \in Nat /\ LoadBytes(open', uploads') \in Nat
    BY <1>12
<1> QED
    BY <1>4, <1>5, <1>13 DEF l, w
-----------------------------------------------------------------------------
(* The controller.                                                         *)

Levels == {"nominal", "watch", "throttle", "shed", "stop"}

\* The sample is known and below the packets p and bytes q outstanding.
Below(s, p, q) ==
    /\ s = [packets |-> s.packets, bytes |-> s.bytes, inflight |-> s.inflight, stalled |-> s.stalled]
    /\ s.packets \in Nat /\ s.bytes \in Nat /\ s.packets <= p /\ s.bytes <= q

\* The state kept for a device at the time now.
Waits(x, now) ==
    /\ x = [delayed |-> x.delayed, factor |-> x.factor, next_admit |-> x.next_admit]
    /\ x.delayed \in Nat /\ x.next_admit \in Nat /\ x.next_admit <= now + PressureMaxDelay

Waiting(f, now) == \A d \in DOMAIN f : Waits(f[d], now)

\* Whatever is reported, it is classified.
LEMMA Classified == ASSUME NEW s PROVE ClassifyPressure(s) \in Levels
<1>1. ASSUME NEW a \in Levels, NEW b \in Levels PROVE MaxLevel(a, b) \in Levels
    BY DEF MaxLevel
<1>2. LoadLevel(s) \in Levels
    BY DEF LoadLevel, Levels
<1> DEFINE a == IF s.stalled > 0 THEN "throttle" ELSE "nominal"
           b == IF s.inflight > QueueCapacity \div 4 /\ QueueCapacity >= 4 THEN "watch" ELSE "nominal"
<1>3. a \in Levels /\ b \in Levels
    BY DEF Levels
<1>4. ClassifyPressure(s) = MaxLevel(MaxLevel(LoadLevel(s), a), b)
    BY DEF ClassifyPressure
<1> HIDE DEF a, b
<1> QED
    BY <1>1, <1>2, <1>3, <1>4

\* delay_for() is at most max_delay_ns.
LEMMA DelayBounded ==
    ASSUME NEW x, NEW now \in Nat, Waits(x, now)
    PROVE  ThrottleDelay(x) \in Nat /\ ThrottleDelay(x) <= PressureMaxDelay
<1>1. MinDelay \in Nat /\ PressureMaxDelay \in Nat /\ MinDelay <= PressureMaxDelay /\ x.delayed + 1 \in Nat
    BY UplinkAssumption DEF Waits
<1>2. ASSUME NEW y \in Nat PROVE Clamp(y) \in Nat /\ Clamp(y) <= PressureMaxDelay
    BY <1>1 DEF Clamp
<1> DEFINE base == MinDelay * 2
           y == base * (x.delayed + 1)
<1>3. base \in Nat
    BY <1>1
<1>4. y \in Nat
    <2> HIDE DEF base
    <2> QED
        BY <1>1, <1>3
<1>5. ThrottleDelay(x) = IF base = 0 THEN 0 ELSE Clamp(y)
    BY DEF ThrottleDelay
<1> HIDE DEF y, base
<1> QED
    BY <1>1, <1>2, <1>4, <1>5

\* What decide() writes for a device stays within the limit.
LEMMA DecisionBounded ==
    ASSUME level \in Levels, NEW x, NEW now \in Nat, Waits(x, now), NEW control
    PROVE  Waits(ApplyDecision(x, MakeDecision(control, x, now), now), now)
<1> DEFINE d == MakeDecision(control, x, now)
           y == ApplyDecision(x, d, now)
<1>1. /\ x = [delayed |-> x.delayed, factor |-> x.factor, next_admit |-> x.next_admit]
      /\ x.delayed \in Nat /\ x.next_admit \in Nat /\ x.next_admit <= now + PressureMaxDelay
      /\ PressureMaxDelay \in Nat
    BY UplinkAssumption DEF Waits
<1>2. /\ d.action \in {"accept", "delay", "downsample", "reject"}
      /\ d.action = "delay" => \/ now < x.next_admit /\ d.delay = x.next_admit - now
                               \/ d.delay = ThrottleDelay(x)
    BY DEF MakeDecision, Decision, Levels
<1>3. ThrottleDelay(x) \in Nat /\ ThrottleDelay(x) <= PressureMaxDelay
    BY DelayBounded
<1>4. d.action = "delay" => now + d.delay \in Nat /\ now + d.delay <= now + PressureMaxDelay
    BY <1>1, <1>2, <1>3
<1> HIDE DEF d
<1> DEFINE a == IF d.action = "accept" \/ d.action = "downsample" THEN now
                ELSE IF d.action = "delay" THEN now + d.delay ELSE now + PressureMaxDelay
<1>5. a \in Nat /\ a <= now + PressureMaxDelay
    BY <1>1, <1>2, <1>4
<1>6. Lower(x.delayed + 1, MaxRepeats - 1) \in Nat
    BY <1>1 DEF Lower, MaxRepeats
<1>7. \E i \in Nat : \E f : y = [delayed |-> i, factor |-> f, next_admit |-> a]
    <2>1. CASE d.action = "accept"
        <3>1. y = [delayed |-> x.delayed, factor |-> 1, next_admit |-> a]
            BY <1>1, <2>1 DEF ApplyDecision
        <3> QED
            BY <1>1, <3>1
    <2>2. CASE d.action = "delay"
        <3>1. y = [delayed |-> Lower(x.delayed + 1, MaxRepeats - 1), factor |-> x.factor, next_admit |-> a]
            BY <2>2 DEF ApplyDecision
        <3> QED
            BY <1>6, <3>1
    <2>3. CASE d.action = "downsample"
        <3>1. y = [delayed |-> x.delayed, factor |-> AtLeastOne(d.factor), next_admit |-> a]
            BY <1>1, <2>3 DEF ApplyDecision
        <3> QED
            BY <1>1, <3>1
    <2>4. CASE d.action = "reject"
        <3>1. y = [delayed |-> x.delayed, factor |-> AtLeastOne(d.factor), next_admit |-> a]
            BY <1>1, <2>4 DEF ApplyDecision
        <3> QED
            BY <1>1, <3>1
    <2> QED
        BY <1>2, <2>1, <2>2, <2>3, <2>4
<1> HIDE DEF a, y
<1>8. Waits(y, now)
    <2>1. PICK i \in Nat : \E f : y = [delayed |-> i, factor |-> f, next_admit |-> a]
        BY <1>7
    <2> QED
        BY <1>5, <2>1 DEF Waits
<1> QED
    BY <1>8 DEF y, d

\* decide() as a whole.
LEMMA DecideKeeps ==
    ASSUME level \in Levels, clock \in Nat, Waiting(pressure, clock), NEW d, NEW control,
           Decide(d, control, clock)
    PROVE  Waiting(pressure', clock) /\ sample' = sample /\ level' = level
<1> DEFINE x == StateOf(d)
           y == ApplyDecision(x, MakeDecision(control, x, clock), clock)
<1>1. /\ pressure' = [z \in DOMAIN pressure \cup {d} |-> IF z = d THEN y ELSE pressure[z]]
      /\ sample' = sample /\ level' = level
    BY DEF Decide
<1>2. Waits(x, clock)
    <2>1. CASE d \in DOMAIN pressure
        BY <2>1 DEF StateOf, Waiting
    <2>2. CASE d \notin DOMAIN pressure
        BY <2>2, UplinkAssumption DEF StateOf, NewDevice, Waits
    <2> QED
        BY <2>1, <2>2
<1> HIDE DEF x
<1>3. Waits(y, clock)
    BY <1>2, DecisionBounded
<1> HIDE DEF y
<1> QED
    BY <1>1, <1>3 DEF Waiting

-----------------------------------------------------------------------------
(* The inductive invariant.                                                *)

UInv ==
    /\ clock \in Nat /\ Batching(open, uploads, counts)
    /\ Below(sample, Load(open, uploads), LoadBytes(open, uploads))
    /\ level \in Levels /\ Waiting(pressure, clock)

\* It holds when both objects are new.
LEMMA FreshUInv ==
    /\ Batching(EmptyBatch, {}, NoCounts)
    /\ Below(NoSample, Load(EmptyBatch, {}), LoadBytes(EmptyBatch, {}))
<1>1. /\ NoCounts.offered = 0 /\ NoCounts.left = 0 /\ NoCounts.held = 0
      /\ NoCounts = [offered |-> NoCounts.offered, left |-> NoCounts.left, held |-> NoCounts.held]
    BY DEF NoCounts
<1>2. Ordered({}, 0)
    BY FS_EmptySet DEF Ordered
<1>3. Rest(EmptyBatch, 0, 0) /\ EmptyBatch.packets = << >> /\ EmptyBatch.bytes = 0
    BY EmptyRest
<1>4. Batching(EmptyBatch, {}, NoCounts)
    BY <1>1, <1>2, <1>3 DEF Batching, Counted
<1>5. Load(EmptyBatch, {}) \in Nat /\ LoadBytes(EmptyBatch, {}) \in Nat
    BY <1>4, LoadReported
<1> QED
    BY <1>4, <1>5 DEF Below, NoSample

\* It holds at the start.
LEMMA InitUInv == Init => UInv
<1> SUFFICES ASSUME Init PROVE UInv
    OBVIOUS
<1>1. Waiting(pressure, clock) /\ clock \in Nat /\ level \in Levels
    BY DEF Init, InitController, Waiting, Levels
<1> QED
    BY <1>1, FreshUInv DEF Init, InitController, InitBatch, UInv

\* The estimate stays below a load that does not shrink.
LEMMA BelowMore ==
    ASSUME NEW s, NEW p \in Nat, NEW q \in Nat, NEW x \in Nat, NEW y \in Nat, Below(s, p, q), p <= x, q <= y
    PROVE  Below(s, x, y)
BY DEF Below

\* Every step keeps it.
LEMMA NextUInv == UInv /\ [Next]_vars => UInv'
<1> SUFFICES ASSUME UInv, [Next]_vars PROVE UInv'
    OBVIOUS
<1> DEFINE p == Load(open, uploads)
           q == LoadBytes(open, uploads)
<1>1. /\ clock \in Nat /\ Batching(open, uploads, counts) /\ Below(sample, p, q)
      /\ level \in Levels /\ Waiting(pressure, clock)
      /\ p \in Nat /\ q \in Nat
    BY LoadReported DEF UInv
<1>2. PacketsOf(Outstanding) = p /\ BytesOf(Outstanding) = q
    BY <1>1, LoadReported DEF Outstanding
<1>3. ASSUME open' = open, uploads' = uploads PROVE Load(open', uploads') = p /\ LoadBytes(open', uploads') = q
    BY <1>3
<1>4. ASSUME NEW c \in Packets, Admit(c) PROVE UInv'
    <2>1. /\ Batching(open', uploads', counts')
          /\ p <= Load(open', uploads') /\ q <= LoadBytes(open', uploads')
        BY <1>1, <1>4, AdmitBatching
    <2>2. Load(open', uploads') \in Nat /\ LoadBytes(open', uploads') \in Nat
        BY <2>1, LoadReported
    <2>3. Waiting(pressure', clock) /\ sample' = sample /\ level' = level /\ clock' = clock
        BY <1>1, <1>4, DecideKeeps DEF Admit
    <2> HIDE DEF p, q
    <2>4. Below(sample', Load(open', uploads'), LoadBytes(open', uploads'))
        BY <1>1, <2>1, <2>2, <2>3, BelowMore
    <2> QED
        BY <1>1, <2>1, <2>3, <2>4 DEF UInv
<1>5. ASSUME NEW c \in Packets, HoldBack(c) PROVE UInv'
    <2>1. Waiting(pressure', clock) /\ sample' = sample /\ level' = level
        BY <1>1, <1>5, DecideKeeps DEF HoldBack
    <2>2. /\ open' = open /\ uploads' = uploads /\ clock' = clock
          /\ counts' = [counts EXCEPT !.held = @ + 1]
        BY <1>5 DEF HoldBack
    <2>3. counts' = [offered |-> counts.offered, left |-> counts.left, held |-> counts.held + 1]
        BY <1>1, <2>2 DEF Batching, Counted
    <2>4. Batching(open', uploads', counts')
        BY <1>1, <2>2, <2>3 DEF Batching, Counted
    <2> QED
        BY <1>1, <1>3, <2>1, <2>2, <2>4 DEF UInv
<1>6. ASSUME NEW s, sample' = s, level' = ClassifyPressure(s), s.packets = p, s.bytes = q,
             s = [packets |-> s.packets, bytes |-> s.bytes, inflight |-> s.inflight, stalled |-> s.stalled],
             UNCHANGED <<pressure, open, clock, uploads, counts>>
      PROVE  UInv'
    <2>1. level' \in Levels
        BY <1>6, Classified
    <2>2. /\ pressure' = pressure /\ open' = open /\ clock' = clock /\ uploads' = uploads /\ counts' = counts
        BY <1>6
    <2> HIDE DEF p, q
    <2>3. Below(s, p, q)
        BY <1>1, <1>6 DEF Below
    <2>4. Below(sample', Load(open', uploads'), LoadBytes(open', uploads'))
        BY <1>3, <1>6, <2>2, <2>3
    <2> QED
        BY <1>1, <2>1, <2>2, <2>4 DEF UInv
<1>7. ASSUME NEW stalled \in {0, 1}, Report(stalled) PROVE UInv'
    <2> DEFINE s == [packets |-> PacketsOf(Outstanding), bytes |-> BytesOf(Outstanding),
                     inflight |-> Cardinality(uploads), stalled |-> stalled]
    <2>1. /\ sample' = s /\ level' = ClassifyPressure(s)
          /\ UNCHANGED <<pressure, open, clock, uploads, counts>>
        BY <1>7 DEF Report, ObserveSample, Sampled
    <2>2. s.packets = p /\ s.bytes = q
          /\ s = [packets |-> s.packets, bytes |-> s.bytes, inflight |-> s.inflight, stalled |-> s.stalled]
        BY <1>2
    <2> HIDE DEF s, p, q
    <2> QED
        BY <1>6, <2>1, <2>2
<1>8. ASSUME ReportQueue PROVE UInv'
    <2> DEFINE s == [packets |-> PacketsOf(Outstanding), bytes |-> BytesOf(Outstanding),
                     inflight |-> 0, stalled |-> 0]
    <2>1. /\ sample' = s /\ level' = ClassifyPressure(s)
          /\ UNCHANGED <<pressure, open, clock, uploads, counts>>
        BY <1>8 DEF ReportQueue, ObserveQueue, ObserveSample, Sampled
    <2>2. s.packets = p /\ s.bytes = q
          /\ s = [packets |-> s.packets, bytes |-> s.bytes, inflight |-> s.inflight, stalled |-> s.stalled]
        BY <1>2
    <2> HIDE DEF s, p, q
    <2> QED
        BY <1>6, <2>1, <2>2
<1>9. ASSUME NEW b \in uploads, UploadDone(b) PROVE UInv'
    <2> DEFINE x == Load(open', uploads')
               y == LoadBytes(open', uploads')
               i == Monus(sample.packets, Len(b.packets))
               j == Monus(sample.bytes, b.bytes)
               s == [sample EXCEPT !.packets = Monus(@, Len(b.packets)), !.bytes = Monus(@, b.bytes)]
    <2>1. /\ Batching(open', uploads', counts') /\ Len(b.packets) \in Nat /\ b.bytes \in Nat
          /\ p = x + Len(b.packets) /\ q = y + b.bytes /\ x \in Nat /\ y \in Nat
        BY <1>1, <1>9, DoneBatching
    <2>2. sample' = s /\ level' = ClassifyPressure(s) /\ pressure' = pressure /\ clock' = clock
        BY <1>9 DEF UploadDone, NoteBatchCompleted, Sampled
    <2>3. s = [packets |-> i, bytes |-> j, inflight |-> sample.inflight, stalled |-> sample.stalled]
        <3>1. s = [sample EXCEPT !.packets = i, !.bytes = j]
            OBVIOUS
        <3>2. sample = [packets |-> sample.packets, bytes |-> sample.bytes, inflight |-> sample.inflight,
                        stalled |-> sample.stalled]
            BY <1>1 DEF Below
        <3> HIDE DEF s, i, j
        <3> QED
            BY <3>1, <3>2
    <2>4. sample.packets \in Nat /\ sample.bytes \in Nat /\ sample.packets <= p /\ sample.bytes <= q
        BY <1>1 DEF Below
    <2> HIDE DEF p, q, x, y, s
    <2>5. ASSUME NEW a \in Nat, NEW c \in Nat, NEW w \in Nat, a <= w + c
          PROVE  Monus(a, c) \in Nat /\ Monus(a, c) <= w
        BY <2>5 DEF Monus
    <2>6. i \in Nat /\ j \in Nat /\ i <= x /\ j <= y
        BY <2>1, <2>4, <2>5
    <2> HIDE DEF i, j
    <2>7. Below(s, x, y)
        BY <2>3, <2>6 DEF Below
    <2>8. level' \in Levels
        BY <2>2, Classified
    <2> QED
        BY <1>1, <2>1, <2>2, <2>7, <2>8 DEF UInv, x, y
<1>10. ASSUME Poll \/ Flush PROVE UInv'
    <2>1. /\ Batching(open', uploads', counts')
          /\ Load(open', uploads') = p /\ LoadBytes(open', uploads') = q
        BY <1>1, <1>10, PollBatching
    <2>2. sample' = sample /\ level' = level /\ pressure' = pressure /\ clock' = clock
        BY <1>10 DEF Poll, Flush, pressureVars
    <2> QED
        BY <1>1, <2>1, <2>2 DEF UInv
<1>11. ASSUME NEW d \in DOMAIN pressure, Forget(d) PROVE UInv'
    <2>1. /\ open' = open /\ uploads' = uploads /\ counts' = counts /\ clock' = clock
          /\ sample' = sample /\ level' = level
          /\ pressure' = [x \in DOMAIN pressure \ {d} |-> pressure[x]]
        BY <1>11 DEF Forget, ResetDevice
    <2>2. Waiting(pressure', clock)
        BY <1>1, <2>1 DEF Waiting
    <2> QED
        BY <1>1, <1>3, <2>1, <2>2 DEF UInv
<1>12. ASSUME Restart PROVE UInv'
    <2>1. /\ open' = EmptyBatch /\ uploads' = {} /\ counts' = NoCounts /\ clock' = clock
          /\ sample' = NoSample /\ level' = "nominal" /\ pressure' = << >>
        BY <1>12 DEF Restart, ResetController, ResetBatch
    <2>2. Waiting(pressure', clock) /\ level' \in Levels
        BY <2>1 DEF Waiting, Levels
    <2> QED
        BY <1>1, <2>1, <2>2, FreshUInv DEF UInv
<1>13. ASSUME Tick PROVE UInv'
    <2>1. /\ open' = open /\ uploads' = uploads /\ counts' = counts /\ clock' = clock + 1
          /\ sample' = sample /\ level' = level /\ pressure' = pressure
        BY <1>13 DEF Tick, pressureVars
    <2>2. PressureMaxDelay \in Nat
        BY UplinkAssumption
    <2>3. ASSUME NEW x, Waits(x, clock) PROVE Waits(x, clock + 1)
        BY <1>1, <2>2, <2>3 DEF Waits
    <2>4. Waiting(pressure', clock')
        BY <1>1, <2>1, <2>3 DEF Waiting
    <2> QED
        BY <1>1, <1>3, <2>1, <2>4 DEF UInv
<1>14. CASE UNCHANGED vars
    <2>1. /\ open' = open /\ uploads' = uploads /\ counts' = counts /\ clock' = clock
          /\ sample' = sample /\ level' = level /\ pressure' = pressure
        BY <1>14 DEF vars, pressureVars
    <2> QED
        BY <1>1, <1>3, <2>1 DEF UInv
<1> QED
    BY <1>4, <1>5, <1>7, <1>8, <1>9, <1>10, <1>11, <1>12, <1>13, <1>14 DEF Next

-----------------------------------------------------------------------------
(* What follows from it.                                                   *)

\* The earliest deadline is the least of those that are set.
LEMMA EarliestIsMin ==
    ASSUME NEW s \in Seq(Env), NEW d \in Nat, Earliest(d, s), NEW D, D = {s[i].deadline : i \in DOMAIN s} \ {0}
    PROVE  d = IF D = {} THEN 0 ELSE Min(D)
<1>1. \A i \in DOMAIN s : s[i].deadline \in Nat
    BY EnvAt
<1>2. CASE d = 0
    <2>1. D = {}
        BY <1>2 DEF Earliest
    <2> QED
        BY <1>2, <2>1
<1>3. CASE d # 0
    <2>1. PICK i \in DOMAIN s : s[i].deadline = d
        BY <1>3 DEF Earliest
    <2>2. d \in D /\ D \subseteq Nat
        BY <1>1, <1>3, <2>1
    <2>3. \A y \in D : d <= y
        BY <1>3 DEF Earliest
    <2> DEFINE m == CHOOSE x \in D : \A y \in D : x =< y
    <2>4. m \in D /\ \A y \in D : m <= y
        BY <2>2, <2>3
    <2>5. Min(D) = m
        BY DEF Min
    <2> HIDE DEF m
    <2>6. d = m
        <3>1. m \in Nat /\ d <= m
            BY <2>2, <2>3, <2>4
        <3>2. m <= d
            BY <2>2, <2>4
        <3> QED
            BY <3>1, <3>2
    <2> QED
        BY <2>2, <2>5, <2>6
<1> QED
    BY <1>2, <1>3

\* A batch that is fine and not empty keeps the rules.
LEMMA FineKeepsRules ==
    ASSUME NEW b, Fine(b), Len(b.packets) >= 1
    PROVE  KeepsRules(b)
<1> DEFINE D == {b.packets[i].deadline : i \in DOMAIN b.packets} \ {0}
<1>1. b.packets \in Seq(Env) /\ b.deadline \in Nat /\ Earliest(b.deadline, b.packets)
    BY DEF Fine
<1>2. b.deadline = IF D = {} THEN 0 ELSE Min(D)
    BY <1>1, EarliestIsMin
<1> QED
    BY <1>2 DEF Fine, KeepsRules, Sizes

\* The batches are exact.
LEMMA UInvExact == UInv => BatchesExact
<1> SUFFICES ASSUME UInv PROVE BatchesExact
    OBVIOUS
<1>1. Ordered(uploads, counts.left) /\ Rest(open, counts.left, counts.offered)
    BY DEF UInv, Batching
<1>2. BatchesSound
    BY <1>1, FineKeepsRules DEF BatchesSound, Ordered
<1>3. \A b \in uploads : Consecutive(b.packets, b.packets[1].number - 1)
    <2> SUFFICES ASSUME NEW b \in uploads PROVE Consecutive(b.packets, b.packets[1].number - 1)
        OBVIOUS
    <2>1. PICK k \in Nat : Consecutive(b.packets, k)
        BY <1>1 DEF Ordered
    <2>2. b.packets \in Seq(Env) /\ Len(b.packets) >= 1
        BY <1>1 DEF Ordered, Fine
    <2>3. 1 \in DOMAIN b.packets
        BY <2>2, LenProperties
    <2>4. b.packets[1].number = k + 1
        BY <2>1, <2>3 DEF Consecutive
    <2>5. b.packets[1].number - 1 = k
        BY <2>4
    <2> QED
        BY <2>1, <2>5
<1>4. PacketsInOrder
    BY <1>1, <1>3 DEF PacketsInOrder, Ordered, Rest, Numbers
<1> QED
    BY <1>2, <1>4 DEF BatchesExact

\* The pressure is sound.
LEMMA UInvPressure == UInv => PressureSound
<1> SUFFICES ASSUME UInv PROVE PressureSound
    OBVIOUS
<1>1. PacketsOf(Outstanding) = Load(open, uploads) /\ BytesOf(Outstanding) = LoadBytes(open, uploads)
    BY LoadReported DEF UInv, Outstanding
<1>2. NoPhantomPressure
    BY <1>1 DEF UInv, Below, NoPhantomPressure
<1>3. WaitBounded
    BY DEF UInv, Waiting, Waits, WaitBounded
<1> QED
    BY <1>2, <1>3 DEF PressureSound

\* BatchingPolicy keeps all rules of a batch at once (count and byte limits, exact
\* byte count and earliest deadline, control packets alone, device order), and no packet
\* is lost, doubled or overtaken between offer() and the batches, for every
\* configuration, every set of packets and any number of uploads under way.
THEOREM BatchesKept == Spec => []BatchesExact
<1>1. Spec => []UInv
    BY InitUInv, NextUInv, PTL DEF Spec
<1> QED
    BY <1>1, UInvExact, PTL

\* BackpressureController never believes in more packets or bytes than are
\* outstanding, and never makes a device wait longer than max_delay_ns, for every
\* configuration with min_delay_ns <= max_delay_ns and every order of uploads,
\* reports, decisions and resets.
THEOREM PressureKept == Spec => []PressureSound
<1>1. Spec => []UInv
    BY InitUInv, NextUInv, PTL DEF Spec
<1> QED
    BY <1>1, UInvPressure, PTL
=============================================================================
