------------------------------- MODULE Pacing -------------------------------
(***************************************************************************)
(* The delays of the daemon: nextPollDelay between the polls of a worker   *)
(* (internal/pipeline/worker.go), and the waits of the retry decorator     *)
(* (internal/sink/retry.go), over the policies that internal/config lets   *)
(* through.                                                                *)
(*                                                                         *)
(* Times are whole numbers of any unit, multipliers of polls are tenths    *)
(* and of retries whole.  A delay with a random part is the set of its     *)
(* values.                                                                 *)
(***************************************************************************)
EXTENDS Integers

AtMost(x, y)  == IF x <= y THEN x ELSE y
AtLeast(x, y) == IF x >= y THEN x ELSE y

-----------------------------------------------------------------------------
(* Polls: p is [poll, max, mult, ceiling]: poll_interval,                  *)
(* poll_interval_max and poll_backoff_multiplier, 0 for both where they    *)
(* are left out, and throttleMaxDelay.                                     *)

PollPolicies == [poll : Nat, max : Nat, mult : Nat, ceiling : Nat \ {0}]

\* Validate: runtime.poll_interval and the two others.
ValidPolls(p) ==
    /\ p.poll >= 1
    /\ p.max # 0 => p.max >= p.poll
    /\ p.mult # 0 => p.mult > 10

\* NewInstanceWorker.
Multiplier(p) == IF p.mult <= 10 THEN 20 ELSE p.mult

Ceiling(p) == AtLeast(p.ceiling, p.max)

\* d give or take a fifth, cut to a whole Duration.
Jittered(d) == {x \in 0 .. (2 * d) : 5 * x > 4 * d - 5 /\ 5 * x < 6 * d}

\* A throttled poll doubles the delay.
Throttled(p, current) == Jittered(AtMost(2 * AtLeast(current, p.poll), Ceiling(p)))

Unthrottled(p, current, active) ==
    IF p.max <= 0 \/ active THEN p.poll
    ELSE AtMost((current * Multiplier(p)) \div 10, p.max)

NextPollDelay(p, current, active, throttled) ==
    IF throttled THEN Throttled(p, current) ELSE {Unthrottled(p, current, active)}

-----------------------------------------------------------------------------
(* Retries: r is [attempts, init, max, mult].                              *)

Defaults == [attempts |-> 10, init |-> 1, max |-> 120, mult |-> 2]

\* applyPostDefaults, then WithRetry.
Usable(r) ==
    [attempts |-> IF r.attempts <= 0 THEN Defaults.attempts ELSE r.attempts,
     init     |-> IF r.init <= 0 THEN Defaults.init ELSE r.init,
     max      |-> IF r.max <= 0 THEN Defaults.max ELSE r.max,
     mult     |-> IF r.mult <= 1 THEN Defaults.mult ELSE r.mult]

\* A float64 past the largest Duration, top, has no defined conversion: the
\* least Duration on amd64, the largest on arm64.
ToDuration(x, top) == IF x <= top THEN {x} ELSE {-top - 1, top}

\* The waits after a failed attempt, those that panic left out: rand.Int64N
\* does for an argument that is not positive.
Backoff(r, attempt, top) ==
    UNION {LET d == AtMost(raw, r.max)
           IN  IF d < 0 THEN {} ELSE (d \div 2) .. (2 * (d \div 2)) :
             raw \in ToDuration(r.init * r.mult ^ (attempt - 1), top)}

Panics(r, attempt, top) ==
    \E raw \in ToDuration(r.init * r.mult ^ (attempt - 1), top) :
        AtMost(raw, r.max) < 0

-----------------------------------------------------------------------------
(* Properties.                                                             *)

(* However polls go, a worker never polls sooner than poll_interval, least *)
(* of all when AWS throttles it: "so a fleet hitting the RDS API rate      *)
(* limit sheds load instead of hammering it" (worker.go:284-287).  Run     *)
(* starts at poll_interval, and no poll leaves the range from there up.    *)
Paced(p) == p.poll .. (2 * AtLeast(p.poll, Ceiling(p)))

NeverFaster(p) ==
    \A current \in Paced(p) : \A active, throttled \in BOOLEAN :
        NextPollDelay(p, current, active, throttled) \subseteq Paced(p)

(* No wait of the retry decorator is undefined, and none is longer than    *)
(* max_wait, while a batch runs through its attempts.                      *)
WaitsAreDefined(r, top) ==
    \A attempt \in 1 .. (r.attempts - 1) :
        /\ ~Panics(r, attempt, top)
        /\ Backoff(r, attempt, top) # {}
        /\ \A d \in Backoff(r, attempt, top) : d \in 0 .. r.max
=============================================================================
