---------------------------- MODULE StoresProofs ----------------------------
(* What the two stores promise, for every number of goroutines, values,    *)
(* timeouts and ticks of a second.                                         *)
EXTENDS Stores, TLAPS

-----------------------------------------------------------------------------
(* The inductive invariant *)

\* The states of a call that the deployed store has.
Fits(pc) ==
  pc \in IF backend = "memory" THEN {"idle", "getCheck", "expCheck", "setWrite"}
                               ELSE {"idle", "rewrite"}

\* What the answer of an ended Get is worth.
AnswerOK(c) ==
  c.pc = "idle" /\ c.op = "get" =>
    /\ c.answer \in Values => c.answer \in c.seen
    /\ c.answer = "missing" => NONE \in c.seen \/ c.overtaken

\* A Get between its two lock sections: the copy is what the key holds unless
\* another call wrote, and its value was shown unless it had expired.
CallOK(c) ==
  /\ Fits(c.pc)
  /\ c.pc # "idle" => c.copy \in Entry
  /\ c.pc \in {"expCheck", "setWrite", "rewrite"} => c.op # "get"
  /\ c.pc = "getCheck" =>
       /\ c.overtaken \/ data = c.copy
       /\ c.copy.value \in c.seen \/ Past(c.copy, now)
  /\ AnswerOK(c)

CallInv == \A q \in Procs : CallOK(call[q])

\* What MemoryStore has reported missing is deleted, so SetExpire finds nothing.
ReportInv == reported /\ backend = "memory" => data = NONE

\* Unless the last write is in doubt, what the calls in flight hold is what
\* the key should hold, so deleting it for its expiry, or writing it back, is
\* what the callers asked for.
HeldOK(c) ==
  /\ c.pc \in {"getCheck", "expCheck"} /\ ~c.copy.forever => c.copy = intended
  /\ c.pc = "rewrite" => intended # NONE /\ c.copy.value = intended.value

ContentInv ==
  /\ ContentsAsWritten
  /\ ~tainted =>
       /\ \A q \in Procs : HeldOK(call[q])
       /\ backend = "redis" => data = intended

IInv == TypeOK /\ CallInv /\ ReportInv /\ ContentInv

-----------------------------------------------------------------------------
(* What the helpers of the model do *)

\* A reader is shown a value or nothing.
LEMMA ShownType ==
  ASSUME NEW e \in Entry \cup {NONE}, NEW t \in Int
  PROVE  Shown(e, t) \in Values \cup {NONE}
BY DEF Shown, Past, Entry

\* What is written is an entry, and for ever when that is asked.
LEMMA LastingType ==
  ASSUME TypeOK, NEW v \in Values, NEW timeout \in Timeouts \cup {NeverExpire}
  PROVE  /\ Lasting(v, timeout) \in Entry
         /\ Lasting(v, timeout).value = v
         /\ timeout = NeverExpire => Lasting(v, timeout).forever
<1>1. timeout \in Int /\ Second \in Int /\ now \in Int
  BY TimeAssumption DEF TypeOK, NeverExpire
<1>2. now + Second * timeout \in Int
  BY <1>1
<1> QED BY <1>2 DEF Lasting, Entry

LEMMA StartedFields ==
  ASSUME NEW op \in {"none", "get", "expire", "write"},
         NEW pc \in {"idle", "getCheck", "expCheck", "setWrite", "rewrite"},
         NEW e \in Entry \cup {NONE}
  PROVE  LET c == Started(op, pc, e) IN
         /\ c \in Call
         /\ c.pc = pc /\ c.copy = e /\ c.op = op /\ c.seen = {}
         /\ c.overtaken = FALSE /\ c.answer = "none"
BY DEF Started, Call, Replies

LEMMA EndedFields ==
  ASSUME NEW op \in {"none", "get", "expire", "write"},
         NEW a \in Values \cup Replies
  PROVE  LET c == Ended(op, a) IN
         /\ c \in Call
         /\ c.pc = "idle" /\ c.op = op /\ c.seen = {}
         /\ c.overtaken = FALSE /\ c.answer = a
<1>1. NONE \in Entry \cup {NONE}
  OBVIOUS
<1> QED BY <1>1 DEF Ended, Started, Call, Replies

\* The record p's call ends as in Finishes.
LEMMA FinishedFields ==
  ASSUME TypeOK, NEW p \in Procs, NEW a \in Values \cup Replies
  PROVE  LET c == [call[p] EXCEPT !.pc = "idle", !.copy = NONE, !.answer = a] IN
         /\ c \in Call
         /\ c.pc = "idle" /\ c.op = call[p].op /\ c.seen = call[p].seen
         /\ c.overtaken = call[p].overtaken /\ c.answer = a
BY DEF TypeOK, Call

\* A step of one call, seen from that call and from the others.
LEMMA BecomesEffect ==
  ASSUME TypeOK, data' \in Entry \cup {NONE},
         NEW p \in Procs, NEW c \in Call, NEW wrote \in BOOLEAN,
         Becomes(p, c, wrote)
  PROVE  /\ call' \in [Procs -> Call]
         /\ call'[p].pc = c.pc /\ call'[p].copy = c.copy /\ call'[p].op = c.op
         /\ call'[p].answer = c.answer /\ call'[p].overtaken = c.overtaken
         /\ call'[p].seen = c.seen \cup {Shown(data, now)}
         /\ \A q \in Procs \ {p} :
              /\ call'[q].pc = call[q].pc /\ call'[q].copy = call[q].copy
              /\ call'[q].op = call[q].op /\ call'[q].answer = call[q].answer
              /\ call[q].seen \subseteq call'[q].seen
              /\ call[q].pc = "idle" => call'[q] = call[q]
              /\ ~call'[q].overtaken => ~call[q].overtaken
              /\ wrote /\ call[q].pc # "idle" => call'[q].overtaken
<1>1. now \in Int /\ now' = now /\ data \in Entry \cup {NONE}
  BY DEF Becomes, TypeOK
<1>2. Shown(data, now) \in Values \cup {NONE} /\ Shown(data', now') \in Values \cup {NONE}
  BY <1>1, ShownType
<1>3. [c EXCEPT !.seen = @ \cup {Shown(data, now)}] \in Call
  BY <1>2 DEF Call
<1>4. \A q \in Procs : call[q] \in Call
  BY DEF TypeOK
<1>5. \A q \in Procs : Observed(call[q], wrote) \in Call
  BY <1>2, <1>4 DEF Observed, Call
<1>6. call' \in [Procs -> Call]
  BY <1>3, <1>4, <1>5 DEF Becomes
<1>7. call'[p] = [c EXCEPT !.seen = @ \cup {Shown(data, now)}]
  BY DEF Becomes
<1>8. ASSUME NEW q \in Procs \ {p}
      PROVE  call'[q] = IF Idle(q) THEN call[q] ELSE Observed(call[q], wrote)
  BY DEF Becomes
<1>9. ASSUME NEW q \in Procs \ {p}
      PROVE  /\ call'[q].pc = call[q].pc /\ call'[q].copy = call[q].copy
             /\ call'[q].op = call[q].op /\ call'[q].answer = call[q].answer
             /\ call[q].seen \subseteq call'[q].seen
             /\ call[q].pc = "idle" => call'[q] = call[q]
             /\ ~call'[q].overtaken => ~call[q].overtaken
             /\ wrote /\ call[q].pc # "idle" => call'[q].overtaken
  <2>1. CASE call[q].pc = "idle"
    BY <1>8, <2>1 DEF Idle
  <2>2. CASE call[q].pc # "idle"
    <3>1. call'[q] = [call[q] EXCEPT !.seen = @ \cup {Shown(data', now')},
                                     !.overtaken = @ \/ wrote]
      BY <1>8, <2>2 DEF Observed, Idle
    <3>2. /\ call'[q].pc = call[q].pc /\ call'[q].copy = call[q].copy
          /\ call'[q].op = call[q].op /\ call'[q].answer = call[q].answer
          /\ call'[q].seen = call[q].seen \cup {Shown(data', now')}
          /\ call'[q].overtaken = (call[q].overtaken \/ wrote)
      BY <1>4, <3>1 DEF Call
    <3> QED BY <2>2, <3>2
  <2> QED BY <2>1, <2>2
<1>10. /\ call'[p].pc = c.pc /\ call'[p].copy = c.copy /\ call'[p].op = c.op
       /\ call'[p].answer = c.answer /\ call'[p].overtaken = c.overtaken
       /\ call'[p].seen = c.seen \cup {Shown(data, now)}
  BY <1>7 DEF Call
<1> QED BY <1>6, <1>9, <1>10

-----------------------------------------------------------------------------
(* The others: a step of p leaves what the other calls rely on             *)

LEMMA OthersOK ==
  ASSUME TypeOK, CallInv, data' \in Entry \cup {NONE},
         NEW p \in Procs, NEW c \in Call, NEW wrote \in BOOLEAN,
         Becomes(p, c, wrote), data' = data \/ wrote, CallOK(call[p])'
  PROVE  CallInv'
<1> SUFFICES ASSUME NEW q \in Procs \ {p} PROVE CallOK(call[q])'
  BY DEF CallInv
<1>1. /\ call'[q].pc = call[q].pc /\ call'[q].copy = call[q].copy
      /\ call'[q].op = call[q].op /\ call'[q].answer = call[q].answer
      /\ call[q].seen \subseteq call'[q].seen
      /\ call[q].pc = "idle" => call'[q] = call[q]
      /\ ~call'[q].overtaken => ~call[q].overtaken
      /\ wrote /\ call[q].pc # "idle" => call'[q].overtaken
  BY BecomesEffect
<1>2. backend' = backend /\ now' = now /\ CallOK(call[q])
  BY DEF Becomes, CallInv
<1>3. Fits(call[q].pc)'
  BY <1>1, <1>2 DEF CallOK, Fits
<1>4. /\ (call[q].pc # "idle" => call[q].copy \in Entry)'
      /\ (call[q].pc \in {"expCheck", "setWrite", "rewrite"} => call[q].op # "get")'
  BY <1>1, <1>2 DEF CallOK, Entry
<1>5. ASSUME call'[q].pc = "getCheck"
      PROVE  (/\ call[q].overtaken \/ data = call[q].copy
              /\ call[q].copy.value \in call[q].seen \/ Past(call[q].copy, now))'
  BY <1>1, <1>2, <1>5 DEF CallOK, Past
<1>6. AnswerOK(call[q])'
  BY <1>1, <1>2 DEF CallOK, AnswerOK
<1> QED BY <1>3, <1>4, <1>5, <1>6 DEF CallOK

-----------------------------------------------------------------------------
(* Steps of one kind *)

\* A step that leaves the key alone.
LEMMA QuietStep ==
  ASSUME IInv, NEW p \in Procs, NEW c \in Call, Becomes(p, c, FALSE), Untouched,
         reported' \in BOOLEAN, ReportInv', CallOK(call[p])',
         ~tainted => HeldOK(call[p])'
  PROVE  IInv'
<1>1. data' = data /\ data' \in Entry \cup {NONE} /\ TypeOK /\ CallInv
  BY DEF IInv, TypeOK, Untouched
<1>2. CallInv'
  BY <1>1, OthersOK
<1>3. TypeOK'
  <2>1. call' \in [Procs -> Call]
    BY <1>1, BecomesEffect
  <2> QED BY <1>1, <2>1 DEF TypeOK, Becomes, Untouched
<1>4. intended' = intended /\ tainted' = tainted /\ backend' = backend /\ now' = now
  BY DEF Untouched, Becomes
<1>5. \A q \in Procs \ {p} : call'[q].pc = call[q].pc /\ call'[q].copy = call[q].copy
  BY <1>1, BecomesEffect
<1>6. ContentInv'
  <2>1. ContentsAsWritten'
    BY <1>1, <1>4 DEF IInv, ContentInv, ContentsAsWritten
  <2>2. ASSUME ~tainted'
        PROVE  (\A q \in Procs : HeldOK(call[q]))' /\ (backend = "redis" => data = intended)'
    BY <1>1, <1>4, <1>5, <2>2 DEF IInv, ContentInv, HeldOK
  <2> QED BY <2>1, <2>2 DEF ContentInv
<1> QED BY <1>2, <1>3, <1>6 DEF IInv

\* A call that is one step, or the last of one, writes the key.
LEMMA WriteStep ==
  ASSUME IInv, NEW p \in Procs, NEW c \in Call, Becomes(p, c, TRUE),
         c.pc = "idle", c.op # "get", NEW e \in Entry \cup {NONE}, Writes(p, e),
         reported' \in BOOLEAN, ReportInv'
  PROVE  IInv'
<1>1. data' = e /\ intended' = e /\ TypeOK /\ CallInv /\ backend' = backend
  BY DEF IInv, Writes, Becomes
<1>2. /\ call' \in [Procs -> Call]
      /\ call'[p].pc = "idle" /\ call'[p].op # "get"
      /\ \A q \in Procs \ {p} : call'[q].pc = call[q].pc /\ call'[q].copy = call[q].copy
  BY <1>1, BecomesEffect
<1>3. CallOK(call[p])'
  BY <1>1, <1>2 DEF CallOK, Fits, AnswerOK
<1>4. CallInv'
  BY <1>1, <1>3, OthersOK
<1>5. TypeOK'
  <2>1. tainted' \in BOOLEAN
    BY DEF Writes, Threat
  <2> QED BY <1>1, <1>2, <2>1 DEF TypeOK, Becomes
<1>6. ContentInv'
  <2>1. ContentsAsWritten'
    BY <1>1 DEF ContentsAsWritten
  <2>2. ASSUME ~tainted' PROVE (\A q \in Procs : HeldOK(call[q]))'
    <3>1. ~Threat(p)
      BY <2>2 DEF Writes
    <3>2. \A q \in Procs \ {p} :
            ~(call[q].pc \in {"getCheck", "expCheck"} /\ ~call[q].copy.forever)
            /\ call[q].pc # "rewrite"
      BY <3>1 DEF Threat
    <3> QED BY <1>2, <3>2 DEF HeldOK
  <2> QED BY <1>1, <2>1, <2>2 DEF ContentInv
<1> QED BY <1>4, <1>5, <1>6, ReportInv' DEF IInv

\* An expired copy: the key is deleted whatever it holds by then.
LEMMA DropStep ==
  ASSUME IInv, NEW p \in Procs, MemDrop(p), backend = "memory",
         call[p].pc \in {"getCheck", "expCheck"},
         ~call[p].copy.forever, now >= call[p].copy.at,
         call[p].pc = "getCheck" => Past(call[p].copy, now)
  PROVE  IInv'
<1> DEFINE c == [call[p] EXCEPT !.pc = "idle", !.copy = NONE, !.answer = "missing"]
<1>1. /\ c \in Call
      /\ c.pc = "idle" /\ c.op = call[p].op /\ c.seen = call[p].seen
      /\ c.overtaken = call[p].overtaken /\ c.answer = "missing"
  BY FinishedFields DEF IInv, Replies
<1>2. /\ data' = NONE /\ intended' = intended /\ tainted' = tainted /\ reported' = TRUE
      /\ backend' = backend /\ now' = now /\ Becomes(p, c, TRUE) /\ TypeOK /\ CallInv
      /\ data' \in Entry \cup {NONE}
  BY DEF MemDrop, Finishes, Becomes, IInv
<1> HIDE DEF c
<1>3. /\ call' \in [Procs -> Call]
      /\ call'[p].pc = c.pc /\ call'[p].copy = c.copy /\ call'[p].op = c.op
      /\ call'[p].answer = c.answer /\ call'[p].overtaken = c.overtaken
      /\ call'[p].seen = c.seen \cup {Shown(data, now)}
      /\ \A q \in Procs \ {p} : call'[q].pc = call[q].pc /\ call'[q].copy = call[q].copy
  BY <1>1, <1>2, BecomesEffect
<1>4. CallOK(call[p])'
  <2>1. CallOK(call[p]) /\ call[p] \in Call
    BY <1>2 DEF CallInv, TypeOK
  <2>2. Fits(call[p].pc)'
    BY <1>1, <1>2, <1>3 DEF Fits
  <2>3. "missing" \notin Values
    BY ReplyAssumption DEF Replies
  <2>4. CASE call[p].pc = "expCheck"
    BY <1>1, <1>3, <2>1, <2>2, <2>4 DEF CallOK, AnswerOK
  <2>5. CASE call[p].pc = "getCheck"
    <3>1. CASE call[p].overtaken
      BY <1>1, <1>3, <2>1, <2>2, <2>3, <3>1 DEF CallOK, AnswerOK
    <3>2. CASE ~call[p].overtaken
      <4>1. data = call[p].copy /\ Past(data, now)
        BY <2>1, <2>5, <3>2 DEF CallOK
      <4>2. Shown(data, now) = NONE
        BY <4>1 DEF Shown
      <4> QED BY <1>1, <1>3, <2>1, <2>2, <2>3, <4>2 DEF CallOK, AnswerOK
    <3> QED BY <3>1, <3>2
  <2> QED BY <2>4, <2>5
<1>5. CallInv'
  BY <1>1, <1>2, <1>4, OthersOK
<1>6. TypeOK'
  BY <1>2, <1>3 DEF TypeOK
<1>7. ReportInv'
  BY <1>2 DEF ReportInv
<1>8. ContentInv'
  <2>1. CASE tainted
    BY <1>2, <2>1 DEF ContentInv, ContentsAsWritten
  <2>2. CASE ~tainted
    <3>1. HeldOK(call[p]) /\ \A q \in Procs : HeldOK(call[q])
      BY <2>2 DEF IInv, ContentInv
    <3>2. call[p].copy = intended /\ call[p].copy \in Entry
      BY <1>2, <3>1 DEF HeldOK, CallInv, CallOK
    <3>3. CASE intended = NONE
      BY <1>2, <1>1, <1>3, <3>1, <3>3 DEF ContentInv, ContentsAsWritten, HeldOK
    <3>4. CASE intended # NONE
      BY <1>2, <1>1, <1>3, <3>1, <3>2, <3>4 DEF ContentInv, ContentsAsWritten, HeldOK
    <3> QED BY <3>3, <3>4
  <2> QED BY <2>1, <2>2
<1> QED BY <1>5, <1>6, <1>7, <1>8 DEF IInv

-----------------------------------------------------------------------------
(* The actions *)

\* A one-step call that leaves the key alone and is no Get.
LEMMA AnsweredStep ==
  ASSUME IInv, NEW p \in Procs, NEW op \in {"none", "expire", "write"},
         NEW a \in Replies, Becomes(p, Ended(op, a), FALSE), Untouched,
         Unseen \/ (backend # "memory" /\ \E missing \in BOOLEAN : Reports(missing))
  PROVE  IInv'
<1> DEFINE c == Ended(op, a)
<1>7. op \in {"none", "get", "expire", "write"} /\ a \in Values \cup Replies
  OBVIOUS
<1>1. c \in Call /\ c.pc = "idle" /\ c.op = op /\ Becomes(p, c, FALSE)
  BY <1>7, EndedFields DEF Ended, Started
<1> HIDE DEF c
<1>2. data' = data /\ backend' = backend /\ now' = now
      /\ TypeOK /\ data' \in Entry \cup {NONE} /\ reported' \in BOOLEAN
      /\ (reported' = reported \/ backend # "memory")
  BY DEF Untouched, Unseen, Reports, IInv, TypeOK, Becomes
<1>3. call'[p].pc = "idle" /\ call'[p].op = op
      /\ \A q \in Procs \ {p} : call'[q].pc = call[q].pc
  BY <1>1, <1>2, BecomesEffect
<1>4. CallOK(call[p])'
  BY <1>3 DEF CallOK, Fits, AnswerOK
<1>5. ReportInv'
  BY <1>2, <1>3 DEF IInv, ReportInv
<1>6. HeldOK(call[p])'
  BY <1>3 DEF HeldOK
<1> QED BY <1>1, <1>2, <1>4, <1>5, <1>6, QuietStep

\* A one-step call that writes the key.
LEMMA AnsweredWrite ==
  ASSUME IInv, NEW p \in Procs, NEW a \in Replies, Becomes(p, Ended("write", a), TRUE),
         NEW e \in Entry \cup {NONE}, Writes(p, e),
         reported' \in BOOLEAN, ReportInv'
  PROVE  IInv'
<1> DEFINE c == Ended("write", a)
<1>1. a \in Values \cup Replies
  OBVIOUS
<1>2. c \in Call /\ c.pc = "idle" /\ c.op = "write" /\ Becomes(p, c, TRUE)
  BY <1>1, EndedFields, Zenon
<1> HIDE DEF c
<1> QED BY <1>2, WriteStep

LEMMA RefusedStep == ASSUME IInv, NEW p \in Procs, Refused(p) PROVE IInv'
BY AnsweredStep DEF Refused, Replies

LEMMA MemReadStep ==
  ASSUME IInv, NEW p \in Procs, backend = "memory",
         NEW op, NEW pc, <<op, pc>> \in {<<"get", "getCheck">>, <<"expire", "expCheck">>},
         MemRead(p, op, pc)
  PROVE  IInv'
<1>1. TypeOK /\ Untouched /\ data \in Entry \cup {NONE} /\ data' = data
      /\ data' \in Entry \cup {NONE} /\ now \in Int
  BY DEF IInv, MemRead, TypeOK, Untouched
<1>2. (op = "get" /\ pc = "getCheck") \/ (op = "expire" /\ pc = "expCheck")
  OBVIOUS
<1>5. /\ op \in {"none", "get", "expire", "write"}
      /\ pc \in {"idle", "getCheck", "expCheck", "setWrite", "rewrite"}
  BY <1>2
<1>6. "missing" \in Values \cup Replies
  BY DEF Replies
<1>3. CASE data = NONE
  <2> DEFINE c == Ended(op, "missing")
  <2>1. c \in Call /\ c.pc = "idle" /\ c.op = op /\ c.answer = "missing" /\ c.seen = {}
    BY <1>5, <1>6, EndedFields DEF Ended, Started
  <2>2. Becomes(p, c, FALSE) /\ reported' = TRUE
    BY <1>3 DEF MemRead
  <2> HIDE DEF c
  <2>3. /\ call'[p].pc = c.pc /\ call'[p].answer = c.answer /\ call'[p].op = c.op
        /\ call'[p].seen = c.seen \cup {Shown(data, now)}
    BY <1>1, <2>1, <2>2, BecomesEffect
  <2>7. backend' = backend
    BY <2>2 DEF Becomes
  <2>4. Shown(data, now) = NONE /\ "missing" \notin Values
    BY <1>3, ReplyAssumption DEF Shown, Replies
  <2>5. CallOK(call[p])'
    BY <2>1, <2>3, <2>4, <2>7 DEF CallOK, Fits, AnswerOK
  <2>6. ReportInv' /\ HeldOK(call[p])'
    BY <1>1, <1>3, <2>1, <2>2, <2>3, <2>7 DEF ReportInv, HeldOK
  <2> QED BY <1>1, <2>1, <2>2, <2>5, <2>6, QuietStep
<1>4. CASE data # NONE
  <2> DEFINE c == Started(op, pc, data)
  <2>1. c \in Call /\ c.pc = pc /\ c.copy = data /\ c.op = op /\ c.seen = {}
    BY <1>1, <1>5, StartedFields DEF Started
  <2>2. Becomes(p, c, FALSE) /\ reported' = reported
    BY <1>4 DEF MemRead
  <2> HIDE DEF c
  <2>3. /\ call'[p].pc = pc /\ call'[p].copy = data /\ call'[p].op = op
        /\ call'[p].seen = {Shown(data, now)}
    BY <1>1, <2>1, <2>2, BecomesEffect
  <2>8. backend' = backend /\ now' = now
    BY <2>2 DEF Becomes
  <2>4. data \in Entry /\ (Shown(data, now) = data.value \/ Past(data, now))
    BY <1>1, <1>4 DEF Shown
  <2>5. CallOK(call[p])'
    BY <1>1, <1>2, <2>3, <2>4, <2>8 DEF CallOK, Fits, AnswerOK, Past
  <2>6. ReportInv' /\ reported' \in BOOLEAN
    BY <1>1, <1>4, <2>2, <2>3, <2>8 DEF IInv, ReportInv, TypeOK
  <2>7. ASSUME ~tainted PROVE HeldOK(call[p])'
    <3>1. data = intended /\ intended' = intended
      BY <1>1, <1>4, <2>7 DEF IInv, ContentInv, ContentsAsWritten, Untouched
    <3> QED BY <1>2, <2>3, <3>1 DEF HeldOK
  <2> QED BY <1>1, <2>1, <2>2, <2>5, <2>6, <2>7, QuietStep
<1> QED BY <1>3, <1>4

\* The second half of a read, the copy being alive.
LEMMA AliveStep ==
  ASSUME IInv, NEW p \in Procs, backend = "memory", Untouched, Unseen,
         NEW a \in Values \cup Replies, Finishes(p, a, FALSE),
         call[p].op # "get" \/ (a \in Values /\ a \in call[p].seen)
  PROVE  IInv'
<1> DEFINE c == [call[p] EXCEPT !.pc = "idle", !.copy = NONE, !.answer = a]
<1>1. c \in Call /\ c.pc = "idle" /\ c.op = call[p].op /\ c.seen = call[p].seen
      /\ c.answer = a
  BY FinishedFields DEF IInv
<1>2. Becomes(p, c, FALSE) /\ data' = data /\ reported' = reported /\ TypeOK
      /\ data' \in Entry \cup {NONE} /\ backend' = backend /\ reported' \in BOOLEAN
  BY DEF Finishes, Untouched, Unseen, IInv, TypeOK, Becomes
<1> HIDE DEF c
<1>3. /\ call'[p].pc = c.pc /\ call'[p].op = c.op /\ call'[p].answer = c.answer
      /\ call'[p].seen = c.seen \cup {Shown(data, now)}
  BY <1>1, <1>2, BecomesEffect
<1>4. CallOK(call[p])'
  BY <1>1, <1>3, ReplyAssumption DEF CallOK, Fits, AnswerOK, Replies
<1>5. ReportInv' /\ HeldOK(call[p])'
  BY <1>1, <1>2, <1>3 DEF IInv, ReportInv, HeldOK
<1> QED BY <1>1, <1>2, <1>4, <1>5, QuietStep

LEMMA MemCheckStep ==
  ASSUME IInv, NEW p \in Procs, backend = "memory",
         MemGetCheck(p) \/ MemExpireCheck(p)
  PROVE  IInv'
<1>6. call[p].pc \in {"getCheck", "expCheck"}
  BY DEF MemGetCheck, MemExpireCheck
<1>1. /\ CallOK(call[p]) /\ call[p] \in Call /\ now \in Int
      /\ call[p].pc \in {"getCheck", "expCheck"}
  BY <1>6 DEF IInv, CallInv, TypeOK
<1>2. call[p].copy \in Entry
  BY <1>1 DEF CallOK
<1>3. call[p].copy.at \in Int /\ call[p].copy.value \in Values
  BY <1>2 DEF Entry
<1>4. CASE MemGetCheck(p)
  <2>1. CASE Past(call[p].copy, now)
    <3>1. MemDrop(p)
      BY <1>4, <2>1 DEF MemGetCheck
    <3>2. ~call[p].copy.forever /\ now >= call[p].copy.at
      BY <1>1, <1>3, <2>1 DEF Past
    <3> QED BY <1>1, <2>1, <3>1, <3>2, DropStep
  <2>2. CASE ~Past(call[p].copy, now)
    BY <1>1, <1>3, <1>4, <2>2, AliveStep DEF MemGetCheck, CallOK
  <2> QED BY <2>1, <2>2
<1>5. CASE MemExpireCheck(p)
  <2>1. call[p].pc = "expCheck" /\ call[p].op # "get"
    BY <1>1, <1>5 DEF MemExpireCheck, CallOK
  <2>2. CASE ~call[p].copy.forever /\ call[p].copy.at - now <= 0
    <3>1. MemDrop(p) /\ now >= call[p].copy.at
      BY <1>1, <1>3, <1>5, <2>2 DEF MemExpireCheck
    <3> QED BY <2>1, <2>2, <3>1, DropStep
  <2>3. CASE ~(~call[p].copy.forever /\ call[p].copy.at - now <= 0)
    BY <1>5, <2>1, <2>3, AliveStep DEF MemExpireCheck, Replies
  <2> QED BY <2>2, <2>3
<1> QED BY <1>4, <1>5

LEMMA MemSetStep ==
  ASSUME IInv, NEW p \in Procs, backend = "memory",
         NEW v \in Values, NEW timeout \in Timeouts, MemSet(p, v, timeout)
  PROVE  IInv'
<1>1. CASE timeout = 0 \/ timeout <= NotValueExpire
  BY <1>1, AnsweredStep DEF MemSet, Replies
<1>2. CASE ~(timeout = 0 \/ timeout <= NotValueExpire)
  <2> DEFINE e == Lasting(v, timeout)
             c == Started("write", "setWrite", e)
  <2>1. e \in Entry
    BY LastingType DEF IInv
  <2> HIDE DEF e
  <2>2. c \in Call /\ c.pc = "setWrite" /\ c.op = "write" /\ c.copy = e
    BY <2>1, StartedFields DEF Started
  <2>3. Becomes(p, c, FALSE)
    BY <1>2 DEF MemSet, e
  <2> HIDE DEF c
  <2>4. /\ data' = data /\ reported' = reported /\ backend' = backend /\ Untouched
        /\ TypeOK /\ data' \in Entry \cup {NONE} /\ reported' \in BOOLEAN
    BY <2>3 DEF MemSet, Untouched, Unseen, IInv, TypeOK, Becomes
  <2>5. call'[p].pc = c.pc /\ call'[p].op = c.op /\ call'[p].copy = c.copy
    BY <2>2, <2>3, <2>4, BecomesEffect
  <2>6. CallOK(call[p])' /\ HeldOK(call[p])'
    BY <2>1, <2>2, <2>4, <2>5 DEF CallOK, Fits, AnswerOK, HeldOK, Entry
  <2>7. ReportInv'
    BY <2>4 DEF IInv, ReportInv
  <2> QED BY <2>2, <2>3, <2>4, <2>6, <2>7, QuietStep
<1> QED BY <1>1, <1>2

LEMMA MemWriteStep ==
  ASSUME IInv, NEW p \in Procs, backend = "memory",
         MemSetWrite(p) \/ MemDelete(p)
  PROVE  IInv'
<1>1. CASE MemSetWrite(p)
  <2> DEFINE c == [call[p] EXCEPT !.pc = "idle", !.copy = NONE, !.answer = "ok"]
  <2>1. call[p].pc = "setWrite"
    BY <1>1 DEF MemSetWrite
  <2>2. CallOK(call[p])
    BY DEF IInv, CallInv
  <2>3. call[p].copy \in Entry /\ call[p].op # "get"
    BY <2>1, <2>2 DEF CallOK
  <2>4. c \in Call /\ c.pc = "idle" /\ c.op = call[p].op
    BY FinishedFields DEF IInv, Replies
  <2>5. Becomes(p, c, TRUE) /\ Writes(p, call[p].copy) /\ reported' = FALSE
    BY <1>1 DEF MemSetWrite, Finishes
  <2> HIDE DEF c
  <2>6. ReportInv'
    BY <2>5 DEF ReportInv
  <2> QED BY <2>3, <2>4, <2>5, <2>6, WriteStep
<1>2. CASE MemDelete(p)
  <2>1. Becomes(p, Ended("write", "ok"), TRUE) /\ Writes(p, NONE) /\ reported' = reported
    BY <1>2 DEF MemDelete, Unseen
  <2>2. backend' = backend /\ data' = NONE /\ reported' \in BOOLEAN
    BY <2>1 DEF Becomes, Writes, IInv, TypeOK
  <2>3. ReportInv'
    BY <2>2 DEF ReportInv
  <2> QED BY <2>1, <2>2, <2>3, AnsweredWrite DEF Replies
<1> QED BY <1>1, <1>2

LEMMA MemSetExpireStep ==
  ASSUME IInv, NEW p \in Procs, backend = "memory",
         NEW timeout \in Timeouts, MemSetExpire(p, timeout)
  PROVE  IInv'
<1>1. CASE data # NONE /\ (timeout = NeverExpire \/ timeout > 0)
  <2> DEFINE e == Lasting(data.value, timeout)
  <2>1. data \in Entry
    BY <1>1 DEF IInv, TypeOK
  <2>2. data.value \in Values /\ TypeOK
    BY <2>1 DEF Entry, IInv
  <2>3. e \in Entry
    BY <2>2, LastingType
  <2> HIDE DEF e
  <2>4. Writes(p, e) /\ Becomes(p, Ended("write", "ok"), TRUE) /\ reported' = reported
    BY <1>1 DEF MemSetExpire, Unseen, e
  <2>5. ~reported /\ reported \in BOOLEAN
    BY <1>1 DEF IInv, ReportInv, TypeOK
  <2>6. ReportInv'
    BY <2>4, <2>5 DEF ReportInv
  <2> QED BY <2>3, <2>4, <2>5, <2>6, AnsweredWrite DEF Replies
<1>2. CASE ~(data # NONE /\ (timeout = NeverExpire \/ timeout > 0))
  <2>1. Untouched /\ Becomes(p, Ended("write", "ok"), FALSE) /\ Unseen
    BY <1>2 DEF MemSetExpire
  <2> QED BY <2>1, AnsweredStep DEF Replies
<1> QED BY <1>1, <1>2

LEMMA RedisGetStep ==
  ASSUME IInv, NEW p \in Procs, backend = "redis", RedisGet(p)
  PROVE  IInv'
<1> DEFINE shown == Shown(data, now)
           a == IF shown = NONE THEN "missing" ELSE shown
           c == Ended("get", a)
<1>1. TypeOK /\ data \in Entry \cup {NONE} /\ now \in Int
  BY DEF IInv, TypeOK
<1>2. shown \in Values \cup {NONE}
  BY <1>1, ShownType
<1>3. a \in Values \cup Replies
  BY <1>2 DEF Replies
<1>4. /\ Untouched /\ Becomes(p, c, FALSE)
      /\ reported' = (reported \/ shown = NONE)
  BY DEF RedisGet, Reports
<1> HIDE DEF a
<1>5. c \in Call /\ c.pc = "idle" /\ c.op = "get" /\ c.answer = a /\ c.seen = {}
  BY <1>3, EndedFields DEF Ended, Started
<1> HIDE DEF c, shown
<1>6. data' = data /\ now' = now /\ backend' = backend /\ data' \in Entry \cup {NONE}
  BY <1>1, <1>4 DEF Untouched, Becomes
<1>7. /\ call'[p].pc = c.pc /\ call'[p].op = c.op /\ call'[p].answer = c.answer
      /\ call'[p].seen = c.seen \cup {shown}
      /\ \A q \in Procs \ {p} : call'[q].pc = call[q].pc
  BY <1>1, <1>4, <1>5, <1>6, BecomesEffect DEF shown
<1>8. (a = shown /\ shown \in Values) \/ (a = "missing" /\ shown = NONE)
  BY <1>2 DEF a
<1>9. "missing" \notin Values
  BY ReplyAssumption DEF Replies
<1>10. CallOK(call[p])'
  BY <1>5, <1>7, <1>8, <1>9 DEF CallOK, Fits, AnswerOK
<1>11. HeldOK(call[p])'
  BY <1>5, <1>7 DEF HeldOK
<1>12. ReportInv'
  BY <1>6 DEF ReportInv
<1>13. reported' \in BOOLEAN
  BY <1>1, <1>4 DEF TypeOK
<1> QED BY <1>4, <1>5, <1>10, <1>11, <1>12, <1>13, QuietStep

LEMMA RedisExpireStep ==
  ASSUME IInv, NEW p \in Procs, backend = "redis", RedisExpire(p)
  PROVE  IInv'
<1> DEFINE missing == \/ Shown(data, now) = NONE
                      \/ ~data.forever /\ 2 * (data.at - now) < Second
           a == IF missing THEN "missing" ELSE "lives"
<1>1. a \in Replies
  BY DEF Replies
<1>2. Untouched /\ Reports(missing) /\ Becomes(p, Ended("expire", a), FALSE)
  BY DEF RedisExpire
<1>3. \E m \in BOOLEAN : Reports(m)
  <2>1. CASE missing
    BY <1>2, <2>1 DEF Reports
  <2>2. CASE ~missing
    BY <1>2, <2>2 DEF Reports
  <2> QED BY <2>1, <2>2
<1> HIDE DEF a, missing
<1> QED BY <1>1, <1>2, <1>3, AnsweredStep

LEMMA RedisSetStep ==
  ASSUME IInv, NEW p \in Procs, backend = "redis",
         NEW v \in Values, NEW timeout \in Timeouts, RedisSet(p, v, timeout)
  PROVE  IInv'
<1>1. CASE timeout = 0 \/ timeout <= NotValueExpire
  BY <1>1, AnsweredStep DEF RedisSet, Replies
<1>2. CASE ~(timeout = 0 \/ timeout <= NotValueExpire)
  <2>1. Lasting(v, timeout) \in Entry
    BY LastingType DEF IInv
  <2>2. Writes(p, Lasting(v, timeout)) /\ reported' = FALSE
    BY <1>2 DEF RedisSet
  <2>3. PICK a \in RedisAnswers("ok") : Becomes(p, Ended("write", a), TRUE)
    BY <1>2 DEF RedisSet
  <2>4. a \in Replies
    BY DEF RedisAnswers, Replies
  <2>5. ReportInv'
    BY <2>2 DEF ReportInv
  <2> QED BY <2>1, <2>2, <2>3, <2>4, <2>5, AnsweredWrite
<1> QED BY <1>1, <1>2

LEMMA RedisDeleteStep ==
  ASSUME IInv, NEW p \in Procs, backend = "redis", RedisDelete(p)
  PROVE  IInv'
<1>1. Writes(p, NONE) /\ reported' = reported /\ reported \in BOOLEAN /\ TypeOK
  BY DEF RedisDelete, Unseen, IInv, TypeOK
<1>2. PICK a \in RedisAnswers("ok") : Becomes(p, Ended("write", a), TRUE)
  BY DEF RedisDelete
<1>3. a \in Replies
  BY DEF RedisAnswers, Replies
<1> DEFINE c == Ended("write", a)
<1>4. c \in Call /\ c.pc = "idle" /\ Becomes(p, c, TRUE)
  BY <1>2, <1>3, EndedFields DEF Ended, Started
<1> HIDE DEF c
<1>5. data' = NONE /\ backend' = backend
  BY <1>1, <1>2 DEF Writes, Becomes
<1>6. /\ call'[p].pc = c.pc
      /\ \A q \in Procs \ {p} : call'[q].pc = call[q].pc
  BY <1>1, <1>4, <1>5, BecomesEffect
<1>7. ReportInv'
  BY <1>1, <1>4, <1>5, <1>6 DEF IInv, ReportInv, Shown
<1> QED BY <1>1, <1>2, <1>3, <1>7, AnsweredWrite

LEMMA RedisSetExpireStep ==
  ASSUME IInv, NEW p \in Procs, backend = "redis",
         NEW timeout \in Timeouts, RedisSetExpire(p, timeout)
  PROVE  IInv'
<1> DEFINE present == Shown(data, now) # NONE
<1>1. /\ reported' \in BOOLEAN /\ TypeOK /\ data \in Entry \cup {NONE} /\ CallInv
      /\ \E missing \in BOOLEAN : Reports(missing)
  BY DEF RedisSetExpire, Reports, IInv, TypeOK
<1>2. present => data \in Entry
  BY <1>1 DEF Shown, IInv
<1>3. CASE timeout = NeverExpire /\ present
  <2> DEFINE c == Started("write", "rewrite", data)
  <2>1. c \in Call /\ c.pc = "rewrite" /\ c.op = "write" /\ c.copy = data
    BY <1>1, StartedFields DEF Started
  <2>2. Untouched /\ Becomes(p, c, FALSE)
    BY <1>3 DEF RedisSetExpire
  <2> HIDE DEF c
  <2>3. data' = data /\ data' \in Entry \cup {NONE} /\ backend' = backend
        /\ intended' = intended /\ tainted' = tainted
    BY <1>1, <2>2 DEF Untouched, Becomes
  <2>4. call'[p].pc = c.pc /\ call'[p].op = c.op /\ call'[p].copy = c.copy
    BY <1>1, <2>1, <2>2, <2>3, BecomesEffect
  <2>5. CallOK(call[p])'
    BY <1>2, <1>3, <2>1, <2>3, <2>4 DEF CallOK, Fits, AnswerOK, Entry
  <2>6. ReportInv'
    BY <2>3 DEF ReportInv
  <2>7. ASSUME ~tainted PROVE HeldOK(call[p])'
    <3>1. data = intended
      BY <2>7 DEF IInv, ContentInv
    <3>2. data # NONE
      BY <1>3 DEF Shown
    <3> QED BY <2>1, <2>3, <2>4, <3>1, <3>2 DEF HeldOK
  <2> QED BY <1>1, <2>1, <2>2, <2>5, <2>6, <2>7, QuietStep
<1>4. CASE timeout = NeverExpire /\ ~present
  BY <1>1, <1>4, AnsweredStep DEF RedisSetExpire, Replies
<1>5. CASE timeout # NeverExpire /\ timeout > 0 /\ present
  <2>1. data.value \in Values
    BY <1>2, <1>5 DEF Entry
  <2>2. Lasting(data.value, timeout) \in Entry
    BY <1>1, <2>1, LastingType
  <2>3. Writes(p, Lasting(data.value, timeout))
    BY <1>5 DEF RedisSetExpire
  <2>4. PICK a \in RedisAnswers("ok") : Becomes(p, Ended("write", a), TRUE)
    BY <1>5 DEF RedisSetExpire
  <2>5. a \in Replies
    BY DEF RedisAnswers, Replies
  <2>6. ReportInv'
    BY <2>4 DEF ReportInv, Becomes
  <2> QED BY <1>1, <2>2, <2>3, <2>4, <2>5, <2>6, AnsweredWrite
<1>6. CASE timeout # NeverExpire /\ ~(timeout > 0 /\ present)
  BY <1>1, <1>6, AnsweredStep DEF RedisSetExpire, Replies
<1> QED BY <1>3, <1>4, <1>5, <1>6

LEMMA RedisRewriteFailsStep ==
  ASSUME IInv, NEW p \in Procs, backend = "redis", RedisRewriteFails(p)
  PROVE  IInv'
<1> DEFINE c == [call[p] EXCEPT !.pc = "idle", !.copy = NONE, !.answer = "error"]
<1>1. c \in Call /\ c.pc = "idle" /\ c.op = call[p].op
  BY FinishedFields DEF IInv, Replies
<1>2. /\ Becomes(p, c, FALSE) /\ Untouched /\ data' = data /\ reported' = reported
      /\ TypeOK /\ data' \in Entry \cup {NONE} /\ backend' = backend /\ now' = now
      /\ reported' \in BOOLEAN /\ call[p].pc = "rewrite" /\ CallOK(call[p])
  BY DEF RedisRewriteFails, Finishes, Untouched, Unseen, IInv, TypeOK, CallInv, Becomes
<1> HIDE DEF c
<1>3. call'[p].pc = c.pc /\ call'[p].op = c.op
  BY <1>1, <1>2, BecomesEffect
<1>4. call[p].op # "get"
  BY <1>2 DEF CallOK
<1>5. CallOK(call[p])' /\ HeldOK(call[p])' /\ ReportInv'
  BY <1>1, <1>2, <1>3, <1>4 DEF CallOK, Fits, AnswerOK, HeldOK, ReportInv
<1> QED BY <1>1, <1>2, <1>5, QuietStep

\* The copy becomes permanent; so does what is intended, unless in doubt.
LEMMA RedisRewriteStep ==
  ASSUME IInv, NEW p \in Procs, backend = "redis", RedisRewrite(p)
  PROVE  IInv'
<1> DEFINE v == call[p].copy.value
           e == Lasting(v, NeverExpire)
<1>1. /\ TypeOK /\ CallInv /\ CallOK(call[p]) /\ call[p].pc = "rewrite"
      /\ intended \in Entry \cup {NONE} /\ tainted \in BOOLEAN
  BY DEF IInv, CallInv, TypeOK, RedisRewrite
<1>2. v \in Values /\ call[p].op # "get"
  BY <1>1 DEF CallOK, Entry
<1>3. e = [value |-> v, at |-> 0, forever |-> TRUE] /\ e \in Entry
  BY <1>2 DEF Lasting, Entry
<1>4. PICK a \in RedisAnswers("ok") : Finishes(p, a, TRUE)
  BY DEF RedisRewrite
<1> DEFINE c == [call[p] EXCEPT !.pc = "idle", !.copy = NONE, !.answer = a]
<1>5. c \in Call /\ c.pc = "idle" /\ c.op = call[p].op
  <2>1. a \in Values \cup Replies
    BY DEF RedisAnswers, Replies
  <2> QED BY <1>1, <2>1, FinishedFields
<1>6. /\ Becomes(p, c, TRUE) /\ backend' = backend /\ reported' = reported
      /\ data' = e /\ tainted' = (tainted \/ Threat(p))
      /\ intended' = IF tainted \/ intended = NONE THEN intended
                      ELSE [intended EXCEPT !.at = 0, !.forever = TRUE]
  BY <1>4 DEF RedisRewrite, Finishes, Becomes, Unseen
<1> HIDE DEF c, e
<1>7. data' \in Entry \cup {NONE}
  BY <1>3, <1>6
<1>8. /\ call' \in [Procs -> Call] /\ call'[p].pc = c.pc /\ call'[p].op = c.op
      /\ \A q \in Procs \ {p} : call'[q].pc = call[q].pc /\ call'[q].copy = call[q].copy
  BY <1>1, <1>5, <1>6, <1>7, BecomesEffect
<1>9. CallOK(call[p])'
  BY <1>2, <1>5, <1>6, <1>8 DEF CallOK, Fits, AnswerOK
<1>10. CallInv'
  BY <1>1, <1>5, <1>6, <1>7, <1>9, OthersOK
<1>11. intended' \in Entry \cup {NONE}
  <2>1. CASE tainted \/ intended = NONE
    BY <1>1, <1>6, <2>1
  <2>2. CASE ~(tainted \/ intended = NONE)
    <3>1. intended \in Entry /\ intended' = [intended EXCEPT !.at = 0, !.forever = TRUE]
      BY <1>1, <1>6, <2>2
    <3>2. intended' = [value |-> intended.value, at |-> 0, forever |-> TRUE]
          /\ intended.value \in Values
      BY <3>1 DEF Entry
    <3> QED BY <3>2 DEF Entry
  <2> QED BY <2>1, <2>2
<1>12. TypeOK'
  <2>1. tainted' \in BOOLEAN
    BY <1>6
  <2>2. now' \in Nat
    BY <1>6 DEF Becomes, IInv, TypeOK
  <2> QED BY <1>1, <1>2, <1>6, <1>7, <1>8, <1>11, <2>1, <2>2 DEF TypeOK
<1>13. ReportInv'
  BY <1>6 DEF ReportInv
<1>14. ContentInv'
  <2> SUFFICES ASSUME ~tainted'
               PROVE  /\ data' = intended'
                      /\ \A q \in Procs : HeldOK(call[q])'
    BY DEF ContentInv, ContentsAsWritten
  <2>1. ~tainted /\ ~Threat(p)
    BY <1>6
  <2>2. intended # NONE /\ v = intended.value
    BY <1>1, <2>1 DEF IInv, ContentInv, HeldOK
  <2>3. intended \in Entry
    BY <1>1, <2>2
  <2>4. intended' = [intended EXCEPT !.at = 0, !.forever = TRUE]
    BY <1>6, <2>1, <2>2
  <2>5. data' = intended'
    BY <1>3, <1>6, <2>2, <2>3, <2>4 DEF Entry
  <2>6. \A q \in Procs \ {p} :
          ~(call[q].pc \in {"getCheck", "expCheck"} /\ ~call[q].copy.forever)
          /\ call[q].pc # "rewrite"
    BY <2>1 DEF Threat
  <2> QED BY <1>5, <1>8, <2>5, <2>6 DEF HeldOK
<1> QED BY <1>10, <1>12, <1>13, <1>14 DEF IInv

LEMMA TickStep == ASSUME IInv, Tick PROVE IInv'
<1>1. /\ TypeOK /\ now \in Nat /\ now' = now + 1 /\ data' = data /\ backend' = backend
      /\ intended' = intended /\ tainted' = tainted /\ reported' = reported
      /\ data \in Entry \cup {NONE} /\ intended \in Entry \cup {NONE}
  BY DEF IInv, Tick, TypeOK
<1>2. now' \in Int /\ Shown(data', now') \in Values \cup {NONE}
  BY <1>1, ShownType
<1>3. ASSUME NEW e \in Entry, Past(e, now) PROVE Past(e, now')
  BY <1>1, <1>3 DEF Past, Entry
<1>4. \A q \in Procs : call[q] \in Call
  BY <1>1 DEF TypeOK
<1>5. ASSUME NEW q \in Procs
      PROVE  /\ call'[q] \in Call
             /\ call'[q].pc = call[q].pc /\ call'[q].copy = call[q].copy
             /\ call'[q].op = call[q].op /\ call'[q].answer = call[q].answer
             /\ call[q].seen \subseteq call'[q].seen
             /\ call[q].pc = "idle" => call'[q] = call[q]
             /\ call'[q].overtaken = call[q].overtaken
  <2>1. CASE call[q].pc = "idle"
    BY <1>4, <2>1 DEF Tick, Idle
  <2>2. CASE call[q].pc # "idle"
    <3>1. call'[q] = [call[q] EXCEPT !.seen = @ \cup {Shown(data', now')},
                                     !.overtaken = @ \/ FALSE]
      BY <2>2 DEF Tick, Observed, Idle
    <3>2. /\ call'[q].pc = call[q].pc /\ call'[q].copy = call[q].copy
          /\ call'[q].op = call[q].op /\ call'[q].answer = call[q].answer
          /\ call'[q].seen = call[q].seen \cup {Shown(data', now')}
          /\ call'[q].overtaken = (call[q].overtaken \/ FALSE)
      BY <1>4, <3>1 DEF Call
    <3>3. call[q].overtaken \in BOOLEAN
      BY <1>4 DEF Call
    <3>4. [call[q] EXCEPT !.seen = @ \cup {Shown(data', now')},
                          !.overtaken = @ \/ FALSE] \in Call
      BY <1>2, <1>4 DEF Call
    <3> QED BY <2>2, <3>1, <3>2, <3>3, <3>4
  <2> QED BY <2>1, <2>2
<1>6. TypeOK'
  <2>1. call' \in [Procs -> Call]
    BY <1>5 DEF Tick
  <2> QED BY <1>1, <2>1 DEF TypeOK
<1>7. CallInv'
  <2> SUFFICES ASSUME NEW q \in Procs PROVE CallOK(call[q])'
    BY DEF CallInv
  <2>1. CallOK(call[q])
    BY DEF IInv, CallInv
  <2>2. Fits(call[q].pc)' /\ AnswerOK(call[q])'
    BY <1>1, <1>5, <2>1 DEF CallOK, Fits, AnswerOK
  <2>3. /\ (call[q].pc # "idle" => call[q].copy \in Entry)'
        /\ (call[q].pc \in {"expCheck", "setWrite", "rewrite"} => call[q].op # "get")'
    BY <1>5, <2>1 DEF CallOK, Entry
  <2>4. ASSUME call'[q].pc = "getCheck"
        PROVE  (/\ call[q].overtaken \/ data = call[q].copy
                /\ call[q].copy.value \in call[q].seen \/ Past(call[q].copy, now))'
    BY <1>1, <1>3, <1>5, <2>1, <2>4 DEF CallOK
  <2> QED BY <2>2, <2>3, <2>4 DEF CallOK
<1>8. ReportInv'
  BY <1>1 DEF IInv, ReportInv
<1>9. ContentInv'
  <2>1. ContentsAsWritten'
    <3>1. CASE tainted \/ data = intended
      BY <1>1, <3>1 DEF ContentsAsWritten
    <3>2. CASE ~(tainted \/ data = intended)
      <4>1. data = NONE /\ intended # NONE /\ ~intended.forever /\ now >= intended.at
        BY <3>2 DEF IInv, ContentInv, ContentsAsWritten
      <4>2. intended.at \in Int
        BY <1>1, <4>1 DEF Entry
      <4>3. now' >= intended.at
        BY <1>1, <4>1, <4>2
      <4> QED BY <1>1, <4>1, <4>3 DEF ContentsAsWritten
    <3> QED BY <3>1, <3>2
  <2>2. ASSUME ~tainted PROVE (\A q \in Procs : HeldOK(call[q]))'
    BY <1>1, <1>5, <2>2 DEF IInv, ContentInv, HeldOK
  <2> QED BY <1>1, <2>1, <2>2 DEF IInv, ContentInv
<1> QED BY <1>6, <1>7, <1>8, <1>9 DEF IInv

LEMMA IInvInit == Init => IInv
<1> SUFFICES ASSUME Init PROVE IInv
  OBVIOUS
<1>1. TypeOK
  BY DEF Init, TypeOK, Call, Replies
<1>2. \A q \in Procs : call[q].pc = "idle" /\ call[q].op = "none"
  BY DEF Init
<1>3. CallInv
  BY <1>2 DEF CallInv, CallOK, Fits, AnswerOK
<1>4. ReportInv
  BY DEF Init, ReportInv
<1>5. ContentInv
  BY <1>2 DEF Init, ContentInv, ContentsAsWritten, HeldOK
<1> QED BY <1>1, <1>3, <1>4, <1>5 DEF IInv

LEMMA IInvNext == IInv /\ [Next]_vars => IInv'
<1> SUFFICES ASSUME IInv, [Next]_vars PROVE IInv'
  OBVIOUS
<1>1. CASE Tick
  BY <1>1, TickStep
<1>2. ASSUME NEW p \in Procs, Refused(p) PROVE IInv'
  BY <1>2, RefusedStep
<1>3. ASSUME NEW p \in Procs, backend = "memory", Memory(p) PROVE IInv'
  <2>1. CASE MemRead(p, "get", "getCheck") \/ MemRead(p, "expire", "expCheck")
    BY <1>3, <2>1, MemReadStep
  <2>2. CASE MemGetCheck(p) \/ MemExpireCheck(p)
    BY <1>3, <2>2, MemCheckStep
  <2>3. CASE MemSetWrite(p) \/ MemDelete(p)
    BY <1>3, <2>3, MemWriteStep
  <2>4. CASE \E v \in Values, timeout \in Timeouts : MemSet(p, v, timeout)
    BY <1>3, <2>4, MemSetStep
  <2>5. CASE \E timeout \in Timeouts : MemSetExpire(p, timeout)
    BY <1>3, <2>5, MemSetExpireStep
  <2> QED BY <1>3, <2>1, <2>2, <2>3, <2>4, <2>5 DEF Memory
<1>4. ASSUME NEW p \in Procs, backend = "redis", Redis(p) PROVE IInv'
  <2>1. CASE RedisGet(p)
    BY <1>4, <2>1, RedisGetStep
  <2>2. CASE RedisExpire(p)
    BY <1>4, <2>2, RedisExpireStep
  <2>3. CASE RedisDelete(p)
    BY <1>4, <2>3, RedisDeleteStep
  <2>4. CASE RedisRewrite(p)
    BY <1>4, <2>4, RedisRewriteStep
  <2>5. CASE RedisRewriteFails(p)
    BY <1>4, <2>5, RedisRewriteFailsStep
  <2>6. CASE \E v \in Values, timeout \in Timeouts : RedisSet(p, v, timeout)
    BY <1>4, <2>6, RedisSetStep
  <2>7. CASE \E timeout \in Timeouts : RedisSetExpire(p, timeout)
    BY <1>4, <2>7, RedisSetExpireStep
  <2> QED BY <1>4, <2>1, <2>2, <2>3, <2>4, <2>5, <2>6, <2>7 DEF Redis
<1>5. CASE UNCHANGED vars
  BY <1>5 DEF vars, IInv, TypeOK, CallInv, CallOK, Fits, AnswerOK, ReportInv,
              ContentInv, ContentsAsWritten, HeldOK, Past, Shown, Entry, Call, Replies
<1> QED BY <1>1, <1>2, <1>3, <1>4, <1>5 DEF Next

\* The inductive invariant holds in every state.
THEOREM StoresInvariant == Spec => []IInv
BY IInvInit, IInvNext, PTL DEF Spec

-----------------------------------------------------------------------------
(* What the stores promise *)

\* Every variable keeps its type: an answer is a value or one of the replies.
THEOREM StoresTypes == Spec => []TypeOK
<1>1. IInv => TypeOK
  BY DEF IInv
<1> QED BY <1>1, StoresInvariant, PTL

\* Get is honest about the interval of the call, in both stores, however the
\* lock sections of MemoryStore interleave with other calls.
THEOREM StoreReads == Spec => []ReadsAnswerWhatWasThere
<1>1. IInv => ReadsAnswerWhatWasThere
  BY DEF IInv, CallInv, CallOK, AnswerOK, ReadsAnswerWhatWasThere, Idle
<1> QED BY <1>1, StoresInvariant, PTL

\* Time brings nothing back.
LEMMA GoneStaysGone ==
  ASSUME NEW e \in Entry \cup {NONE}, NEW t \in Int, Shown(e, t) = NONE
  PROVE  Shown(e, t + 1) = NONE
<1>1. CASE e = NONE
  BY <1>1 DEF Shown
<1>2. CASE e # NONE
  <2>1. e \in Entry /\ Past(e, t)
    BY <1>2, NoneAssumption DEF Shown, Entry
  <2>2. Past(e, t + 1)
    BY <2>1 DEF Past, Entry
  <2> QED BY <2>2 DEF Shown
<1> QED BY <1>1, <1>2

\* What brings a key back that a call has reported missing.
LEMMA ReportedStep ==
  ASSUME IInv, [Next]_vars, reported, reported', Shown(data, now) = NONE,
         ~Rewritten
  PROVE  Shown(data', now') = NONE
<1>1. TypeOK /\ data \in Entry \cup {NONE} /\ now \in Int
  BY DEF IInv, TypeOK
<1>2. CASE Tick
  BY <1>1, <1>2, GoneStaysGone DEF Tick
<1>3. SUFFICES ASSUME now' = now, data' # data PROVE data' = NONE
  <2>1. CASE UNCHANGED vars
    BY <2>1 DEF vars
  <2>2. CASE now' = now /\ data' = data
    BY <2>2
  <2>3. ASSUME NEW p \in Procs,
               \/ Refused(p) \/ (backend = "memory" /\ Memory(p))
               \/ (backend = "redis" /\ Redis(p))
        PROVE  now' = now
    <3>1. CASE Refused(p)
      BY <3>1 DEF Refused, Becomes
    <3>2. CASE Memory(p)
      BY <3>2 DEF Memory, MemRead, MemGetCheck, MemExpireCheck, MemDrop, MemSet,
                  MemSetWrite, MemDelete, MemSetExpire, Finishes, Becomes
    <3>3. CASE Redis(p)
      BY <3>3 DEF Redis, RedisGet, RedisExpire, RedisDelete, RedisRewrite,
                  RedisRewriteFails, RedisSet, RedisSetExpire, Finishes, Becomes
    <3> QED BY <2>3, <3>1, <3>2, <3>3
  <2>4. data' = NONE => Shown(data', now') = NONE
    BY DEF Shown
  <2> QED BY <1>2, <1>3, <2>1, <2>2, <2>3, <2>4 DEF Next
<1>4. PICK p \in Procs :
        \/ Refused(p) \/ (backend = "memory" /\ Memory(p))
        \/ (backend = "redis" /\ Redis(p))
  BY <1>3 DEF Next, Tick, vars
<1>5. CASE Refused(p)
  BY <1>3, <1>5 DEF Refused, Untouched
<1>6. CASE backend = "memory" /\ Memory(p)
  <2>1. data = NONE
    BY <1>6 DEF IInv, ReportInv
  <2>2. CASE MemSetWrite(p)
    BY <2>2 DEF MemSetWrite
  <2>3. CASE MemDelete(p)
    BY <2>3 DEF MemDelete, Writes
  <2>4. CASE MemGetCheck(p) \/ MemExpireCheck(p)
    BY <1>3, <2>4 DEF MemGetCheck, MemExpireCheck, MemDrop, Untouched
  <2>5. CASE \/ MemRead(p, "get", "getCheck") \/ MemRead(p, "expire", "expCheck")
             \/ \E v \in Values, timeout \in Timeouts : MemSet(p, v, timeout)
    BY <1>3, <2>5 DEF MemRead, MemSet, Untouched
  <2>6. CASE \E timeout \in Timeouts : MemSetExpire(p, timeout)
    BY <1>3, <2>1, <2>6 DEF MemSetExpire, Untouched
  <2> QED BY <1>6, <2>2, <2>3, <2>4, <2>5, <2>6 DEF Memory
<1>7. CASE backend = "redis" /\ Redis(p)
  <2>1. ~RedisRewrite(p)
    <3> SUFFICES ASSUME RedisRewrite(p) PROVE Rewritten
      OBVIOUS
    <3>1. PICK a \in RedisAnswers("ok") : Finishes(p, a, TRUE)
      BY DEF RedisRewrite
    <3> DEFINE c == [call[p] EXCEPT !.pc = "idle", !.copy = NONE, !.answer = a]
    <3>2. c \in Call /\ c.pc = "idle"
      BY <1>1, <3>1, FinishedFields DEF RedisAnswers, Replies
    <3>3. call'[p] = [c EXCEPT !.seen = @ \cup {Shown(data, now)}]
      BY <3>1 DEF Finishes, Becomes
    <3> HIDE DEF c
    <3>4. call'[p].pc = "idle"
      BY <3>2, <3>3 DEF Call
    <3> QED BY <3>4 DEF RedisRewrite, Rewritten
  <2>2. CASE RedisDelete(p)
    BY <2>2 DEF RedisDelete, Writes
  <2>3. CASE RedisGet(p) \/ RedisExpire(p) \/ RedisRewriteFails(p)
    BY <1>3, <2>3 DEF RedisGet, RedisExpire, RedisRewriteFails, Untouched
  <2>4. CASE \E v \in Values, timeout \in Timeouts : RedisSet(p, v, timeout)
    BY <1>3, <2>4 DEF RedisSet, Untouched
  <2>5. CASE \E timeout \in Timeouts : RedisSetExpire(p, timeout)
    BY <1>3, <2>5 DEF RedisSetExpire, Untouched
  <2> QED BY <1>7, <2>1, <2>2, <2>3, <2>4, <2>5 DEF Redis
<1> QED BY <1>4, <1>5, <1>6, <1>7

\* A missing key that any call, of either store, has answered to be missing
\* comes back only by a Set or by the SET of a SetExpire(NeverExpire).
THEOREM StoreMissing == Spec => MissingStaysMissing
<1>1. IInv /\ [Next]_vars =>
        [reported /\ Shown(data, now) = NONE /\ Shown(data', now') # NONE
           => ~reported' \/ Rewritten]_vars
  BY ReportedStep DEF IInv, TypeOK
<1> QED BY <1>1, StoresInvariant, PTL DEF Spec, MissingStaysMissing

\* The key holds what was written last, or nothing once that is due, unless
\* that write overlapped a call with an older copy.
THEOREM StoreContents == Spec => []ContentsAsWritten
<1>1. IInv => ContentsAsWritten
  BY DEF IInv, ContentInv
<1> QED BY <1>1, StoresInvariant, PTL
=============================================================================
