------------------------------ MODULE MongoOutbox ------------------------------
(***************************************************************************)
(* The MySQL -> MongoDB outbox of package mongox (src/mongox/mongox.go).   *)
(*                                                                         *)
(* A business transaction appends an event to the outbox table; each       *)
(* replayer (the Loop of one instance of the service) sweeps: it selects   *)
(* a batch of pending events, applies them to MongoDB one by one and marks *)
(* each of them.  The table and MongoDB are external: what is modelled is  *)
(* what EventStore and DocApplier ask of them.  MongoDB's answer may be an *)
(* error after the write took effect, and so may the table's.              *)
(*                                                                         *)
(* A definition marked MUTANT is a plausible mistake in the one after it;  *)
(* no specification uses it.                                               *)
(***************************************************************************)
EXTENDS Naturals, FiniteSets

CONSTANTS
  Docs,         \* aggregates: documents of MongoDB
  Replayers,    \* running instances
  Batch,        \* ReplayerOptions.Batch
  MaxAttempts,  \* attempts after which an event is left to a human
  ApplyFails,   \* Apply may return an error
  NONE,         \* the document of a row not yet written
  MaxEvents,    \* bound: business transactions
  MaxFaults     \* bound: crashes of instances, and errors of marking an event

ASSUME BatchAssumption == Batch \in Nat \ {0}
ASSUME MaxAttemptsAssumption == MaxAttempts \in Nat \ {0}
ASSUME BoundsAssumption == MaxEvents \in Nat /\ MaxFaults \in Nat
ASSUME FailsAssumption == ApplyFails \in BOOLEAN
ASSUME NoneAssumption == NONE \notin Docs

\* Event ids grow with created_at.
Events == 1..MaxEvents

VARIABLES
  outbox,    \* the table: a row per event
  size,      \* rows 1..size exist
  mongo,     \* per document: the event whose image it holds, 0: no document
  sweep,     \* per replayer: the events left of its sweep, and the next call
  faults,    \* crashes and failed marks so far
  \* history variables, read by no guard
  tries,     \* per event: calls of Apply so far
  applied    \* events for which some Apply returned nil

vars == <<outbox, size, mongo, sweep, faults, tries, applied>>

Row == [doc : Docs \cup {NONE}, kind : {"SAVE", "DELETE"},
        status : {"pending", "done"}, attempts : Nat]

NoRow == [doc |-> NONE, kind |-> "SAVE", status |-> "pending", attempts |-> 0]

Sweeping == [pc : {"wait", "apply", "markOk", "markFail"}, batch : SUBSET Events]

Waiting == [pc |-> "wait", batch |-> {}]

TypeOK ==
  /\ outbox \in [Events -> Row]
  /\ size \in 0..MaxEvents
  /\ mongo \in [Docs -> 0..MaxEvents]
  /\ sweep \in [Replayers -> Sweeping]
  /\ faults \in 0..MaxFaults
  /\ tries \in [Events -> Nat]
  /\ applied \in SUBSET Events

Init ==
  /\ outbox = [e \in Events |-> NoRow]
  /\ size = 0
  /\ mongo = [d \in Docs |-> 0]
  /\ sweep = [r \in Replayers |-> Waiting]
  /\ faults = 0
  /\ tries = [e \in Events |-> 0]
  /\ applied = {}

-----------------------------------------------------------------------------
(* The table *)

\* MUTANT: attempts are not limited
DueForever == {e \in 1..size : outbox[e].status = "pending"}

\* SelectPendingOutbox: pending, with attempts left ...
Due == {e \in 1..size : /\ outbox[e].status = "pending"
                        /\ outbox[e].attempts < MaxAttempts}

\* MUTANT: the newest
LastDue == {e \in Due : Cardinality({f \in Due : f >= e}) =< Batch}

\* MUTANT: LIMIT before the attempts are looked at
LimitFirst ==
  {e \in Due : Cardinality({f \in 1..e : outbox[f].status = "pending"}) =< Batch}

\* ... the oldest Batch of them
FirstDue == {e \in Due : Cardinality({f \in Due : f =< e}) =< Batch}

\* MUTANT: attempts are counted down
SyncedCountsDown(row) == [row EXCEPT !.status = "done", !.attempts = @ - 1]

Synced(row) == [row EXCEPT !.status = "done", !.attempts = @ + 1]

\* MUTANT: a failed attempt is counted twice
FailedTwice(row) == [row EXCEPT !.attempts = @ + 2]

Failed(row) == [row EXCEPT !.attempts = @ + 1]

\* What MongoDB holds once event e is applied: its payload, or nothing.
Image(e) == IF outbox[e].kind = "DELETE" THEN 0 ELSE e

-----------------------------------------------------------------------------
(* Actions *)

\* A business transaction commits: its write and the event, or neither.
Enqueue(d, k) ==
  /\ size < MaxEvents
  /\ size' = size + 1
  /\ outbox' = [outbox EXCEPT ![size + 1] = [NoRow EXCEPT !.doc = d, !.kind = k]]
  /\ UNCHANGED <<mongo, sweep, faults, tries, applied>>

\* MUTANT: the newest first
CurrentNewest(r, e) ==
  e \in sweep[r].batch /\ \A f \in sweep[r].batch : e >= f

\* The event a sweep is at: batches are worked in the order of selection.
Current(r, e) ==
  e \in sweep[r].batch /\ \A f \in sweep[r].batch : e =< f

\* A failed selection ends the sweep before it began, as an empty one does.
Select(r) ==
  /\ sweep[r].pc = "wait"
  /\ sweep' = [sweep EXCEPT ![r] =
                 IF FirstDue = {} THEN Waiting
                 ELSE [pc |-> "apply", batch |-> FirstDue]]
  /\ UNCHANGED <<outbox, size, mongo, faults, tries, applied>>

\* MUTANT: an error of Apply is taken for success
ApplySwallowed(r) ==
  /\ sweep[r].pc = "apply"
  /\ \E e \in Events :
       /\ Current(r, e)
       /\ tries' = [tries EXCEPT ![e] = @ + 1]
       /\ UNCHANGED <<mongo, applied>>
  /\ sweep' = [sweep EXCEPT ![r].pc = "markOk"]
  /\ UNCHANGED <<outbox, size, faults>>

Apply(r) ==
  /\ sweep[r].pc = "apply"
  /\ \E e \in Events :
       /\ Current(r, e)
       /\ tries' = [tries EXCEPT ![e] = @ + 1]
       /\ \/ /\ mongo' = [mongo EXCEPT ![outbox[e].doc] = Image(e)]
             /\ sweep' = [sweep EXCEPT ![r].pc = "markOk"]
             /\ applied' = applied \cup {e}
          \/ /\ ApplyFails
             /\ mongo' \in {mongo, [mongo EXCEPT ![outbox[e].doc] = Image(e)]}
             /\ sweep' = [sweep EXCEPT ![r].pc = "markFail"]
             /\ UNCHANGED applied
  /\ UNCHANGED <<outbox, size, faults>>

\* The sweep goes on after event e.
Advance(r, e) ==
  sweep' = [sweep EXCEPT ![r] =
              IF sweep[r].batch = {e} THEN Waiting
              ELSE [pc |-> "apply", batch |-> sweep[r].batch \ {e}]]

Fault == faults < MaxFaults /\ faults' = faults + 1

\* Row e is written; or the call returns an error, having written it or not,
\* and Sweep returns.
Mark(r, e, row) ==
  \/ /\ outbox' = [outbox EXCEPT ![e] = row]
     /\ Advance(r, e)
     /\ UNCHANGED faults
  \/ /\ Fault
     /\ outbox' \in {outbox, [outbox EXCEPT ![e] = row]}
     /\ sweep' = [sweep EXCEPT ![r] = Waiting]

MarkSynced(r) ==
  /\ sweep[r].pc = "markOk"
  /\ \E e \in Events : Current(r, e) /\ Mark(r, e, Synced(outbox[e]))
  /\ UNCHANGED <<size, mongo, tries, applied>>

MarkFailed(r) ==
  /\ sweep[r].pc = "markFail"
  /\ \E e \in Events : Current(r, e) /\ Mark(r, e, Failed(outbox[e]))
  /\ UNCHANGED <<size, mongo, tries, applied>>

\* The instance crashes and is started again: the rest of the sweep is lost.
Crash(r) ==
  /\ sweep[r].pc # "wait"
  /\ Fault
  /\ sweep' = [sweep EXCEPT ![r] = Waiting]
  /\ UNCHANGED <<outbox, size, mongo, tries, applied>>

Sweep(r) == Select(r) \/ Apply(r) \/ MarkSynced(r) \/ MarkFailed(r)

Next ==
  \/ \E d \in Docs, k \in {"SAVE", "DELETE"} : Enqueue(d, k)
  \/ \E r \in Replayers : Sweep(r) \/ Crash(r)

Spec == Init /\ [][Next]_vars

\* Loop sweeps at every tick of its timer, for as long as the process lives.
FairSpec == Spec /\ \A r \in Replayers : WF_vars(Sweep(r))

-----------------------------------------------------------------------------
(* Properties *)

EventsOf(d) == {e \in 1..size : outbox[e].doc = d}

\* All events of the document are marked as synced.
AtRest(d) == \A e \in EventsOf(d) : outbox[e].status = "done"

\* MongoDB holds what the latest business write of d left.
UpToDate(d) ==
  \A e \in EventsOf(d) : (\A f \in EventsOf(d) : f =< e) => mongo[d] = Image(e)

\* The two stores agree on every document whose events are all synced, though
\* instances crash and marks fail: the purpose of the package.
StoresAgree == \A d \in Docs : AtRest(d) => UpToDate(d)

\* If they do not, some event of that document was applied more than once: only
\* a retry or a second replayer can bring an old image back.
StaleOnlyByRetry ==
  \A d \in Docs : AtRest(d) /\ ~UpToDate(d) => \E e \in EventsOf(d) : tries[e] > 1

\* An event is marked synced only after an Apply of it returned nil, whatever
\* crashed in between: no event is lost.
SyncedWasApplied == \A e \in Events : outbox[e].status = "done" => e \in applied

\* attempts never counts a call of Apply that did not happen.
AttemptsCounted == \A e \in Events : outbox[e].attempts =< tries[e]

\* "At the limit it is retried no more; the row stays, with attempts = limit":
\* one replayer never exceeds MaxAttempts, and of several each may count one
\* attempt more on an event it had selected before the limit was reached.
AttemptsBounded ==
  \A e \in Events : outbox[e].attempts < MaxAttempts + Cardinality(Replayers)

\* Every event is synced in the end, or has used up its attempts: no event that
\* keeps failing starves the others.
EveryEventSettles ==
  \A e \in Events :
    e =< size ~> (outbox[e].status = "done" \/ outbox[e].attempts >= MaxAttempts)
=============================================================================
