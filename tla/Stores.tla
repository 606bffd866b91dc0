------------------------------- MODULE Stores -------------------------------
(***************************************************************************)
(* The two implementations of satoken.Store: MemoryStore (store.go) and    *)
(* RedisStore (store_redis.go), under concurrent calls of the goroutines   *)
(* Procs.  No call touches two keys, so there is one key.                  *)
(*                                                                         *)
(* MemoryStore: one action per lock section.  Get and Expire read an entry *)
(* under the read lock and judge its expiry after releasing it; the copy   *)
(* they judge may be out of date.                                          *)
(* RedisStore: one action per command; SetExpire(NeverExpire) is two.  The *)
(* server's own behaviour (expiry, rounding of TTL) is external.           *)
(*                                                                         *)
(* Time is counted in ticks; the code compares instants, strictly in Get   *)
(* and not in Expire, and truncates to seconds, so a second has several.   *)
(* MUTANT marks a plausible mistake in the definition after it.            *)
(***************************************************************************)
EXTENDS Integers

CONSTANTS
  Procs, Values,
  NONE,        \* no entry; as the content of the key: no value
  Backends,    \* the implementations that may be deployed
  Timeouts,    \* the timeouts callers pass, in seconds
  Second,      \* ticks of a second
  MaxTime      \* bound on the clock, in ticks

NeverExpire    == -1
NotValueExpire == -2

\* What a call may answer besides a value.
Replies == {"none", "missing", "ok", "error", "lives"}

ASSUME NoneAssumption == NONE \notin Values
ASSUME ReplyAssumption == Values \cap Replies = {}
ASSUME BackendAssumption == Backends \subseteq {"memory", "redis"}
ASSUME TimeAssumption ==
  Timeouts \subseteq Int /\ Second \in Nat \ {0} /\ MaxTime \in Nat

VARIABLES
  backend,    \* chosen at start, never changed
  now,        \* the clock
  data,       \* the entry stored under the key, or NONE
  call,       \* the last or current call of each goroutine
  \* history
  intended,   \* what the key would hold if every call were one step
  tainted,    \* the last write overlapped a call that holds an older copy
  reported    \* a call has answered that the key is missing, no Set since

vars == <<backend, now, data, call, intended, tainted, reported>>

Entry == [value : Values, at : Int, forever : BOOLEAN]

Call ==
  [pc : {"idle", "getCheck", "expCheck", "setWrite", "rewrite"},
   copy : Entry \cup {NONE},          \* the entry read, or about to be written
   seen : SUBSET (Values \cup {NONE}),\* what the key showed during the call
   overtaken : BOOLEAN,               \* another call wrote since the copy
   op : {"none", "get", "expire", "write"},
   answer : Values \cup Replies]

TypeOK ==
  /\ backend \in Backends
  /\ now \in Nat
  /\ data \in Entry \cup {NONE}
  /\ call \in [Procs -> Call]
  /\ intended \in Entry \cup {NONE}
  /\ tainted \in BOOLEAN
  /\ reported \in BOOLEAN

Init ==
  /\ backend \in Backends
  /\ now = 0
  /\ data = NONE
  /\ call = [p \in Procs |->
       [pc |-> "idle", copy |-> NONE, seen |-> {}, overtaken |-> FALSE,
        op |-> "none", answer |-> "none"]]
  /\ intended = NONE
  /\ tainted = FALSE
  /\ reported = FALSE

-----------------------------------------------------------------------------
(* Expiry *)

\* time.After: an entry lives through the instant expiresAt.
Past(e, t) == ~e.forever /\ t > e.at

\* What a reader is told the key holds.
Shown(e, t) == IF e = NONE \/ (e # NONE /\ Past(e, t)) THEN NONE ELSE e.value

\* Set and SetExpire compute the expiry from the clock they read.
Lasting(v, timeout) ==
  IF timeout = NeverExpire
    THEN [value |-> v, at |-> 0, forever |-> TRUE]
    ELSE [value |-> v, at |-> now + Second * timeout, forever |-> FALSE]

-----------------------------------------------------------------------------
(* The calls in flight *)

\* Another call holds a copy it may still act on: delete the key because the
\* copy expired, or write the copy back.
Threat(p) == \E q \in Procs \ {p} :
  \/ call[q].pc \in {"getCheck", "expCheck"} /\ ~call[q].copy.forever
  \/ call[q].pc = "rewrite"

Idle(p) == call[p].pc = "idle"

\* What the calls in flight are told of a step: what the key holds after it.
Observed(c, wrote) ==
  [c EXCEPT !.seen = @ \cup {Shown(data', now')}, !.overtaken = @ \/ wrote]

\* p's call goes on or ends as c, having met the key as it was before; the
\* other calls in flight observe the step.
Becomes(p, c, wrote) ==
  /\ UNCHANGED <<backend, now>>
  /\ call' = [q \in Procs |->
       IF q = p THEN [c EXCEPT !.seen = @ \cup {Shown(data, now)}]
       ELSE IF Idle(q) THEN call[q] ELSE Observed(call[q], wrote)]

\* A call of kind op as it starts, in state pc with the copy e.
Started(op, pc, e) ==
  [pc |-> pc, copy |-> e, seen |-> {}, overtaken |-> FALSE,
   op |-> op, answer |-> "none"]

Ended(op, a) == [Started(op, "idle", NONE) EXCEPT !.answer = a]

\* The end of the call that p has begun.
Finishes(p, a, wrote) ==
  Becomes(p, [call[p] EXCEPT !.pc = "idle", !.copy = NONE, !.answer = a], wrote)

\* The key is written as its caller asked.
Writes(p, e) ==
  /\ data' = e
  /\ intended' = e
  /\ tainted' = Threat(p)

Untouched == UNCHANGED <<data, intended, tainted>>
Unseen    == UNCHANGED reported
Reports(missing) == reported' = (reported \/ missing)

\* A call fails before it has any effect: the context has ended
\* (MemoryStore), or the command was not executed (RedisStore).
Refused(p) ==
  /\ Idle(p) /\ Untouched
  /\ Becomes(p, Ended("none", "error"), FALSE) /\ Unseen

-----------------------------------------------------------------------------
(* MemoryStore *)

\* The read section of Get: the map under the read lock.
MemRead(p, op, pc) ==
  /\ Idle(p) /\ Untouched
  /\ IF data = NONE
       THEN /\ Becomes(p, Ended(op, "missing"), FALSE)
            /\ reported' = TRUE
       ELSE /\ Becomes(p, Started(op, pc, data), FALSE)
            /\ UNCHANGED reported

\* The delete of an expired entry: whatever the key holds by then.
MemDrop(p) ==
  /\ data' = NONE
  /\ UNCHANGED <<intended, tainted>>
  /\ Finishes(p, "missing", TRUE)
  /\ reported' = TRUE

\* MUTANT: an expired entry is deleted, its value returned all the same
MemGetCheckReturns(p) ==
  /\ call[p].pc = "getCheck"
  /\ UNCHANGED <<intended, tainted, reported>>
  /\ data' = IF Past(call[p].copy, now) THEN NONE ELSE data
  /\ Finishes(p, call[p].copy.value, FALSE)

\* MUTANT: the expired entry is reported but stays, for SetExpire to revive
MemGetCheckKeeps(p) ==
  /\ call[p].pc = "getCheck" /\ Untouched
  /\ IF Past(call[p].copy, now)
       THEN Finishes(p, "missing", FALSE) /\ reported' = TRUE
       ELSE Finishes(p, call[p].copy.value, FALSE) /\ Unseen

\* MemoryStore.Get after the read section.
MemGetCheck(p) ==
  /\ call[p].pc = "getCheck"
  /\ IF Past(call[p].copy, now)
       THEN MemDrop(p)
       ELSE Untouched /\ Finishes(p, call[p].copy.value, FALSE) /\ Unseen

\* MemoryStore.Expire after the read section: at the instant expiresAt the
\* entry that Get would still return is deleted; a live entry with less than
\* a second left answers 0.
MemExpireCheck(p) ==
  LET e == call[p].copy IN
  /\ call[p].pc = "expCheck"
  /\ IF ~e.forever /\ e.at - now <= 0
       THEN MemDrop(p)
       ELSE Untouched /\ Finishes(p, "lives", FALSE) /\ Unseen

\* Set before the lock: a timeout of 0, or of -2 and less, stores nothing.
MemSet(p, v, timeout) ==
  /\ Idle(p) /\ Untouched
  /\ Becomes(p, IF timeout = 0 \/ timeout <= NotValueExpire
                  THEN Ended("write", "ok")
                  ELSE Started("write", "setWrite", Lasting(v, timeout)), FALSE)
  /\ Unseen

MemSetWrite(p) ==
  /\ call[p].pc = "setWrite"
  /\ Writes(p, call[p].copy)
  /\ Finishes(p, "ok", TRUE)
  /\ reported' = FALSE

MemDelete(p) ==
  /\ Idle(p) /\ Writes(p, NONE)
  /\ Becomes(p, Ended("write", "ok"), TRUE) /\ Unseen

\* SetExpire under the write lock.  It does not look at the old expiry: an
\* expired entry that nobody has read since lives again.
MemSetExpire(p, timeout) ==
  /\ Idle(p)
  /\ IF data # NONE /\ (timeout = NeverExpire \/ timeout > 0)
       THEN /\ Writes(p, Lasting(data.value, timeout))
            /\ Becomes(p, Ended("write", "ok"), TRUE)
       ELSE /\ Untouched
            /\ Becomes(p, Ended("write", "ok"), FALSE)
  /\ Unseen

Memory(p) ==
  \/ MemRead(p, "get", "getCheck") \/ MemGetCheck(p)
  \/ MemRead(p, "expire", "expCheck") \/ MemExpireCheck(p)
  \/ MemSetWrite(p) \/ MemDelete(p)
  \/ \E v \in Values, timeout \in Timeouts : MemSet(p, v, timeout)
  \/ \E timeout \in Timeouts : MemSetExpire(p, timeout)

-----------------------------------------------------------------------------
(* RedisStore.  A command that took effect may still be answered "error".  *)

RedisAnswers(a) == {a, "error"}

\* MUTANT: redis.Nil is not told from a value
RedisGetNil(p) ==
  /\ Idle(p) /\ Untouched
  /\ Becomes(p, Ended("get", Shown(data, now)), FALSE)
  /\ Unseen

\* GET
RedisGet(p) ==
  LET shown == Shown(data, now) IN
  /\ Idle(p) /\ Untouched
  /\ Becomes(p, Ended("get", IF shown = NONE THEN "missing" ELSE shown), FALSE)
  /\ Reports(shown = NONE)

\* TTL, which Redis rounds to the nearest second: 0 becomes "missing" (-2), so
\* a live key with less than half a second left is reported missing.
RedisExpire(p) ==
  LET missing == \/ Shown(data, now) = NONE
                 \/ ~data.forever /\ 2 * (data.at - now) < Second
  IN
  /\ Idle(p) /\ Untouched
  /\ Becomes(p, Ended("expire", IF missing THEN "missing" ELSE "lives"), FALSE)
  /\ Reports(missing)

RedisSet(p, v, timeout) ==
  /\ Idle(p)
  /\ IF timeout = 0 \/ timeout <= NotValueExpire
       THEN Untouched /\ Becomes(p, Ended("write", "ok"), FALSE) /\ Unseen
       ELSE /\ Writes(p, Lasting(v, timeout))
            /\ \E a \in RedisAnswers("ok") : Becomes(p, Ended("write", a), TRUE)
            /\ reported' = FALSE

RedisDelete(p) ==
  /\ Idle(p) /\ Writes(p, NONE)
  /\ \E a \in RedisAnswers("ok") : Becomes(p, Ended("write", a), TRUE)
  /\ Unseen

\* SetExpire: EXPIRE for a positive timeout, nothing for the rest, and for
\* NeverExpire a GET here and a SET in RedisRewrite.
RedisSetExpire(p, timeout) ==
  LET present == Shown(data, now) # NONE IN
  /\ Idle(p)
  /\ IF timeout = NeverExpire
       THEN /\ Untouched
            /\ Becomes(p, IF present THEN Started("write", "rewrite", data)
                                     ELSE Ended("write", "missing"), FALSE)
       ELSE IF timeout > 0 /\ present
         THEN /\ Writes(p, Lasting(data.value, timeout))
              /\ \E a \in RedisAnswers("ok") : Becomes(p, Ended("write", a), TRUE)
         ELSE Untouched /\ Becomes(p, Ended("write", "ok"), FALSE)
  /\ Reports(timeout = NeverExpire /\ ~present)

\* MUTANT: the copy is written back with the expiry it was read with
RedisRewriteTimed(p) ==
  /\ call[p].pc = "rewrite"
  /\ data' = [call[p].copy EXCEPT !.at = now]
  /\ intended' = IF tainted \/ intended = NONE THEN intended
                 ELSE [intended EXCEPT !.at = 0, !.forever = TRUE]
  /\ tainted' = (tainted \/ Threat(p))
  /\ Finishes(p, "ok", TRUE) /\ Unseen

\* The SET of SetExpire(NeverExpire).  As one step the call would have made
\* the value it read permanent, so that is what is intended.
RedisRewrite(p) ==
  /\ call[p].pc = "rewrite"
  /\ data' = Lasting(call[p].copy.value, NeverExpire)
  /\ intended' = IF tainted \/ intended = NONE THEN intended
                 ELSE [intended EXCEPT !.at = 0, !.forever = TRUE]
  /\ tainted' = (tainted \/ Threat(p))
  /\ \E a \in RedisAnswers("ok") : Finishes(p, a, TRUE)
  /\ Unseen

RedisRewriteFails(p) ==
  /\ call[p].pc = "rewrite" /\ Untouched
  /\ Finishes(p, "error", FALSE) /\ Unseen

Redis(p) ==
  \/ RedisGet(p) \/ RedisExpire(p) \/ RedisDelete(p)
  \/ RedisRewrite(p) \/ RedisRewriteFails(p)
  \/ \E v \in Values, timeout \in Timeouts : RedisSet(p, v, timeout)
  \/ \E timeout \in Timeouts : RedisSetExpire(p, timeout)

-----------------------------------------------------------------------------
Tick ==
  /\ now < MaxTime
  /\ now' = now + 1
  /\ UNCHANGED <<backend, data, intended, tainted, reported>>
  /\ call' = [q \in Procs |-> IF Idle(q) THEN call[q]
                               ELSE Observed(call[q], FALSE)]

Next ==
  \/ Tick
  \/ \E p \in Procs :
       \/ Refused(p)
       \/ backend = "memory" /\ Memory(p)
       \/ backend = "redis" /\ Redis(p)

Spec == Init /\ [][Next]_vars

-----------------------------------------------------------------------------
(* Properties *)

\* Get answers a value only if the key showed it at some instant of the call,
\* although MemoryStore judges the expiry of a copy after the unlock.  It
\* answers "missing" only if the key was missing at some instant of the call,
\* its own delete apart, or another call wrote it meanwhile (store.go:60-77).
ReadsAnswerWhatWasThere ==
  \A p \in Procs : Idle(p) /\ call[p].op = "get" =>
    /\ call[p].answer \in Values => call[p].answer \in call[p].seen
    /\ call[p].answer = "missing" => NONE \in call[p].seen \/ call[p].overtaken

\* The SET of a SetExpire(NeverExpire) that has read the key.
Rewritten == \E p \in Procs : call[p].pc = "rewrite" /\ call'[p].pc = "idle"

\* A key that is missing, and that any call has answered to be missing, comes
\* back only by a Set, or in Redis by a SetExpire(NeverExpire) that read it
\* before (store_redis.go:118-122).  The session logic relies on it: a token
\* answered with 401 is not accepted later.  MemoryStore keeps it although
\* SetExpire revives expired entries, because the call that reports an expired
\* entry deletes it (store.go:70-75).  (RedisStore.Expire answers "missing" up to
\* half a second before the key is; a SetExpire in that time keeps it alive.)
MissingStaysMissing ==
  [][reported /\ Shown(data, now) = NONE /\ Shown(data', now') # NONE
       => ~reported' \/ Rewritten]_vars

\* The key holds what its callers wrote, or nothing once that is due, unless
\* the last write overlapped a call with an older copy: MemoryStore may then
\* delete the new value (store.go:72), RedisStore undo it (store_redis.go:122).
ContentsAsWritten ==
  \/ tainted
  \/ data = intended
  \/ data = NONE /\ intended # NONE /\ ~intended.forever /\ now >= intended.at
=============================================================================
