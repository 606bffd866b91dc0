------------------------------ MODULE Transactions ------------------------------
(***************************************************************************)
(* Transactions of package db (Handle.Within, src/db/tx.go) and the writes *)
(* of package mysqlx (Update, UpdateColumn, Delete) inside them.           *)
(*                                                                         *)
(* Each run p is one call of Within by a service, with a transaction       *)
(* function chosen step by step: statements through the handle, nested     *)
(* calls of Within, and a return of nil or of an error, or a panic.  MySQL *)
(* is external: row locks held to the end of the transaction, a victim of  *)
(* a deadlock rolled back as a whole, a commit whose answer may be lost.   *)
(*                                                                         *)
(* A definition marked MUTANT is a plausible mistake in the one after it;  *)
(* no specification uses it.                                               *)
(***************************************************************************)
EXTENDS Naturals, FiniteSets

CONSTANTS
  Keys,       \* rows of the database
  Procs,      \* runs: calls of Within by concurrent requests
  NONE,       \* no run, or no row
  Careless,   \* a function may ignore that its transaction was rolled back
  MaxDepth,   \* bound: calls of Within inside one another
  MaxSteps    \* bound: statements and calls of Within of a run

ASSUME CarelessAssumption == Careless \in BOOLEAN
ASSUME BoundsAssumption == MaxDepth \in Nat \ {0} /\ MaxSteps \in Nat

VARIABLES
  rows,    \* the committed rows
  locks,   \* per row: the run that holds its lock
  pend,    \* per run: the rows its open transaction has written
  run      \* per run: the state of its call

vars == <<rows, locks, pend, run>>

\* ops stands for the contents: the runs whose updates the row contains.
Row == [version : Nat, ops : SUBSET Procs, live : BOOLEAN,
        by   : SUBSET Procs,   \* history: the runs that have updated the row
        bare : BOOLEAN]        \* history: an update came without a version

ASSUME NoneAssumption == NONE \notin Procs \cup Keys /\ NONE \notin Row

Run ==
  [depth  : 0..MaxDepth,     \* calls of Within it is in
   tx     : {"none",         \* not begun, or over
             "open",
             "closed",       \* rolled back by database/sql: the context ended
             "gone"},        \* rolled back by the server; statements autocommit
   key    : Keys \cup {NONE},
   copy   : Row \cup {NONE}, \* the entity the function has read, of row key
   error  : BOOLEAN,         \* a call has just returned an error to the function
   inner  : BOOLEAN,         \* history: an inner Within returned an error
   wrote  : SUBSET Keys,     \* history: updates the function was told succeeded
   steps  : 0..MaxSteps,
   result : {"none", "nil", "error", "unknown", "panic"}]

NoRun == [depth |-> 0, tx |-> "none", key |-> NONE, copy |-> NONE,
          error |-> FALSE, inner |-> FALSE, wrote |-> {}, steps |-> 0,
          result |-> "none"]

NoWrites == [k \in Keys |-> NONE]

TypeOK ==
  /\ rows \in [Keys -> Row]
  /\ locks \in [Keys -> Procs \cup {NONE}]
  /\ pend \in [Procs -> [Keys -> Row \cup {NONE}]]
  /\ run \in [Procs -> Run]

Init ==
  /\ rows = [k \in Keys |-> [version |-> 0, ops |-> {}, live |-> TRUE,
                           by |-> {}, bare |-> FALSE]]
  /\ locks = [k \in Keys |-> NONE]
  /\ pend = [p \in Procs |-> NoWrites]
  /\ run = [p \in Procs |-> NoRun]

-----------------------------------------------------------------------------
(* Statements *)

\* The function is running and has dealt with the last error.
CanStep(p) ==
  run[p].result = "none" /\ ~run[p].error /\ run[p].steps < MaxSteps

Stepped(p) == [run[p] EXCEPT !.steps = @ + 1]

Goto(p, r) == run' = [run EXCEPT ![p] = r]

\* The row a statement of run p finds: a transaction sees its own writes.
Seen(p, k) == IF pend[p][k] # NONE THEN pend[p][k] ELSE rows[k]

\* SELECT ... WHERE id = ? AND is_deleted = 0, in the transaction or, before
\* it, from the pool; no row is an error for the function (WrapNoRows).
Read(p, k) ==
  /\ CanStep(p)
  /\ IF run[p].tx = "closed" \/ ~Seen(p, k).live
     THEN Goto(p, [Stepped(p) EXCEPT !.error = TRUE])
     ELSE Goto(p, [Stepped(p) EXCEPT !.key = k, !.copy = Seen(p, k)])
  /\ UNCHANGED <<rows, locks, pend>>

Free(p, k) == locks[k] \in {p, NONE}

\* The statement of run p sets row k to r, or, when hit is false, affects no
\* row, which the function takes for an error (RequireAffected).
Write(p, k, hit, r, done) ==
  /\ CanStep(p) /\ run[p].tx # "none"
  /\ \/ /\ run[p].tx = "closed"
        /\ Goto(p, [Stepped(p) EXCEPT !.error = TRUE])
        /\ UNCHANGED <<rows, locks, pend>>
     \/ /\ run[p].tx = "open" /\ Free(p, k)
        /\ locks' = [locks EXCEPT ![k] = p]
        /\ pend' = IF hit THEN [pend EXCEPT ![p][k] = r] ELSE pend
        /\ Goto(p, IF hit THEN done ELSE [Stepped(p) EXCEPT !.error = TRUE])
        /\ UNCHANGED rows
     \/ /\ run[p].tx = "gone" /\ Free(p, k)
        /\ rows' = IF hit THEN [rows EXCEPT ![k] = r] ELSE rows
        /\ Goto(p, IF hit THEN done ELSE [Stepped(p) EXCEPT !.error = TRUE])
        /\ UNCHANGED <<locks, pend>>

Updated(p, k) ==
  [Seen(p, k) EXCEPT !.version = @ + 1, !.ops = run[p].copy.ops \cup {p},
                     !.by = @ \cup {p}]

\* Without a version to check there is none to count up.
Overwritten(p, k, kept) ==
  [Seen(p, k) EXCEPT !.ops = kept \cup {p}, !.by = @ \cup {p}, !.bare = TRUE]

Told(p, k) == [Stepped(p) EXCEPT !.wrote = @ \cup {k}]

\* The entity a checked update has used is stale: its version has gone up.
Wrote(p, k) == [Told(p, k) EXCEPT !.copy = NONE, !.key = NONE]

\* MUTANT: no WHERE version = ?
UpdateUnchecked(p) ==
  /\ run[p].copy # NONE
  /\ LET k == run[p].key IN
     Write(p, k, Seen(p, k).live, Updated(p, k), Wrote(p, k))

\* MUTANT: is_deleted is written like any other column
UpdateRevives(p) ==
  /\ run[p].copy # NONE
  /\ LET k == run[p].key IN
     Write(p, k, Seen(p, k).version = run[p].copy.version,
           [Updated(p, k) EXCEPT !.live = run[p].copy.live], Wrote(p, k))

\* mysqlx.Update of the entity read, with its version, then RequireUpdated
Update(p) ==
  /\ run[p].copy # NONE
  /\ LET k == run[p].key IN
     Write(p, k, Seen(p, k).live /\ Seen(p, k).version = run[p].copy.version,
           Updated(p, k), Wrote(p, k))

\* mysqlx.Update of the entity read, without a version: an entity that has
\* none.  A row that holds these values already is not affected.
UpdateBare(p) ==
  /\ run[p].copy # NONE
  /\ LET k == run[p].key IN
     \E changes \in BOOLEAN :
       Write(p, k, Seen(p, k).live /\ changes,
             Overwritten(p, k, run[p].copy.ops), Told(p, k))

\* mysqlx.UpdateColumn: a value written without having read the row; what
\* others wrote to other columns is kept.
UpdateColumn(p, k) ==
  \E kept \in SUBSET Seen(p, k).ops : \E changes \in BOOLEAN :
    Write(p, k, Seen(p, k).live /\ changes, Overwritten(p, k, kept), Told(p, k))

\* The function is told of an error, and nothing else happens.
Error(p) ==
  /\ CanStep(p) /\ run[p].tx # "none"
  /\ Goto(p, [Stepped(p) EXCEPT !.error = TRUE])
  /\ UNCHANGED <<rows, locks, pend>>

\* mysqlx.Update without a version and with nothing to set sends no statement:
\* its 0 rows are an error for the function (RequireUpdated).
UpdateNothing(p) == Error(p)

\* mysqlx.Delete: the row is marked; its version stays
Delete(p, k) ==
  Write(p, k, Seen(p, k).live, [Seen(p, k) EXCEPT !.live = FALSE], Stepped(p))

\* A statement fails without effect and the transaction stays usable (a
\* violated constraint, a lock wait that timed out).
StatementFails(p) == Error(p)

-----------------------------------------------------------------------------
(* Ends of a transaction *)

Unlocked(p) == [k \in Keys |-> IF locks[k] = p THEN NONE ELSE locks[k]]

Discard(p) ==
  /\ locks' = Unlocked(p)
  /\ pend' = [pend EXCEPT ![p] = NoWrites]
  /\ UNCHANGED rows

Apply(p) ==
  /\ rows' = [k \in Keys |-> Seen(p, k)]
  /\ locks' = Unlocked(p)
  /\ pend' = [pend EXCEPT ![p] = NoWrites]

\* MUTANT: a call that never opened is counted as left
OverCountsDown(p, result) ==
  [run[p] EXCEPT !.depth = @ - 1, !.tx = "none", !.error = FALSE, !.key = NONE,
                 !.copy = NONE, !.result = result]

Over(p, result) ==
  [run[p] EXCEPT !.depth = 0, !.tx = "none", !.error = FALSE, !.key = NONE,
                 !.copy = NONE, !.result = result]

\* Chosen as the victim of a deadlock while it waits for row k.
LockVictim(p, k) ==
  /\ CanStep(p) /\ run[p].tx = "open" /\ ~Free(p, k)
  /\ Goto(p, [Stepped(p) EXCEPT !.tx = "gone", !.error = TRUE])
  /\ Discard(p)

\* The context of the run is cancelled: database/sql rolls back.
Cancel(p) ==
  /\ run[p].tx = "open"
  /\ Goto(p, [run[p] EXCEPT !.tx = "closed"])
  /\ Discard(p)

-----------------------------------------------------------------------------
(* Handle.Within *)

\* BeginTx, for the outermost call; it may fail.
Begin(p) ==
  /\ CanStep(p) /\ run[p].depth = 0
  /\ \/ Goto(p, [Stepped(p) EXCEPT !.depth = 1, !.tx = "open"])
     \/ Goto(p, Over(p, "error"))
  /\ UNCHANGED <<rows, locks, pend>>

\* A call inside another joins its transaction.
Join(p) ==
  /\ CanStep(p) /\ run[p].depth \in 1..(MaxDepth - 1)
  /\ Goto(p, [Stepped(p) EXCEPT !.depth = @ + 1])
  /\ UNCHANGED <<rows, locks, pend>>

\* The function ignores the error of its last call.
Ignore(p) ==
  /\ run[p].error
  /\ run[p].tx = "gone" => Careless
  /\ Goto(p, [run[p] EXCEPT !.error = FALSE])
  /\ UNCHANGED <<rows, locks, pend>>

\* MUTANT: an inner call commits
InnerReturnsCommits(p) ==
  /\ run[p].depth > 1
  /\ Goto(p, [run[p] EXCEPT !.depth = @ - 1])
  /\ Apply(p)

\* An inner call returns what its function returned, and does nothing else.
InnerReturns(p) ==
  /\ run[p].depth > 1
  /\ \/ ~run[p].error /\ Goto(p, [run[p] EXCEPT !.depth = @ - 1])
     \/ Goto(p, [run[p] EXCEPT !.depth = @ - 1, !.error = TRUE, !.inner = TRUE])
  /\ UNCHANGED <<rows, locks, pend>>

\* The function returned nil: commit.  An error of the commit leaves open
\* whether it took effect, unless database/sql had already rolled back.
Commit(p) ==
  /\ run[p].depth = 1 /\ ~run[p].error
  /\ \/ run[p].tx \in {"open", "gone"} /\ Goto(p, Over(p, "nil")) /\ Apply(p)
     \/ run[p].tx = "open" /\ Goto(p, Over(p, "unknown")) /\ (Apply(p) \/ Discard(p))
     \/ run[p].tx = "closed" /\ Goto(p, Over(p, "error")) /\ Discard(p)

\* The function returned an error, of a call or of its own.  When the rollback
\* fails the connection is lost and the server rolls back.
Rollback(p) ==
  /\ run[p].depth = 1
  /\ Goto(p, Over(p, "error"))
  /\ Discard(p)

\* MUTANT: the transaction stays open
PanicLeaves(p) ==
  /\ run[p].depth > 0
  /\ Goto(p, Over(p, "panic"))
  /\ UNCHANGED <<rows, locks, pend>>

\* A panic passes through the inner calls; the outermost rolls back.
Panic(p) ==
  /\ run[p].depth > 0
  /\ Goto(p, Over(p, "panic"))
  /\ Discard(p)

Statement(p) ==
  \/ \E k \in Keys :
       Read(p, k) \/ UpdateColumn(p, k) \/ Delete(p, k) \/ LockVictim(p, k)
  \/ Update(p) \/ UpdateBare(p) \/ UpdateNothing(p) \/ StatementFails(p)

Within(p) ==
  \/ Begin(p) \/ Join(p) \/ Ignore(p) \/ InnerReturns(p)
  \/ Commit(p) \/ Rollback(p) \/ Panic(p) \/ Cancel(p)

Next == \E p \in Procs : Statement(p) \/ Within(p)

Spec == Init /\ [][Next]_vars

-----------------------------------------------------------------------------
(* Properties *)

\* The rows that run p has updated, for good.
Committed(p) == {k \in Keys : p \in rows[k].by}

\* "fn returns nil: commit; an error or a panic: roll back; nested calls join":
\* Within returned nil only if every update its function was told succeeded, at
\* any depth, was made in the database; after an error or a panic none was;
\* after a failed commit all were or none was.
AllOrNothing ==
  \A p \in Procs :
    CASE run[p].result = "nil" -> Committed(p) = run[p].wrote
      [] run[p].result = "unknown" -> Committed(p) \in {{}, run[p].wrote}
      [] OTHER -> Committed(p) = {}

\* A run that is over holds no lock and has no transaction open, panics
\* included: nobody waits for it.
NothingLeftOpen ==
  \A p \in Procs : run[p].result # "none" =>
    (\A k \in Keys : locks[k] # p) /\ pend[p] = NoWrites

\* The version check works: as long as every update of a row gives the version
\* it read, the row contains them all, whatever runs read before, in or across
\* their transactions.  (An update without a version, of an entity or of one
\* column, overwrites what it did not read, and is itself undone by an update
\* that read the row before it, since it does not count the version up.)
NoLostUpdate == \A k \in Keys : rows[k].bare \/ rows[k].ops = rows[k].by

\* A row deleted logically is not brought back by an update that read it alive,
\* although Delete leaves its version as it was.
DeletedStaysDeleted == [][\A k \in Keys : rows'[k].live => rows[k].live]_vars

\* "Nested calls join the outer transaction: an inner error makes the outer one
\* roll back as a whole", so no update of a run whose inner call failed stays.
InnerErrorRollsBack == \A p \in Procs : run[p].inner => Committed(p) = {}
=============================================================================
