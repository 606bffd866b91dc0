--------------------------- MODULE MongoOutboxProofs ---------------------------
(***************************************************************************)
(* Proofs about MongoOutbox, for every set of documents, every batch size, *)
(* every number of events and faults.  For any number of replayers: no     *)
(* event is marked synced that was not applied, attempts counts real calls *)
(* only, and exceeds its limit by less than the number of replayers; and   *)
(* where MongoDB disagrees with MySQL at rest, an event was applied twice. *)
(* With one replayer and no failing Apply the two stores agree.            *)
(***************************************************************************)
EXTENDS MongoOutbox, FiniteSetTheorems, TLAPS

-----------------------------------------------------------------------------
(* Types, and what is applied *)

\* A sweep works on rows that exist.
BatchesExist == \A r \in Replayers : sweep[r].batch \subseteq 1..size

\* The event about to be marked synced has been applied.
MarksApplied ==
  \A r \in Replayers : \A e \in Events :
    sweep[r].pc = "markOk" /\ Current(r, e) => e \in applied

OInv == TypeOK /\ BatchesExist /\ MarksApplied /\ SyncedWasApplied

LEMMA RowTypes ==
  ASSUME NEW row \in Row
  PROVE  /\ Synced(row) \in Row /\ Synced(row).status = "done"
         /\ Failed(row) \in Row /\ Failed(row).status = row.status
         /\ Synced(row).attempts = row.attempts + 1
         /\ Failed(row).attempts = row.attempts + 1
         /\ Synced(row).doc = row.doc /\ Synced(row).kind = row.kind
         /\ Failed(row).doc = row.doc /\ Failed(row).kind = row.kind
<1> DEFINE n == row.attempts + 1
<1>1. n \in Nat
  BY DEF Row
<1>2. /\ Synced(row) = [row EXCEPT !.status = "done", !.attempts = n]
      /\ Failed(row) = [row EXCEPT !.attempts = n]
  BY DEF Row, Synced, Failed
<1> HIDE DEF n
<1>3. /\ Synced(row) \in Row /\ Synced(row).status = "done"
      /\ Failed(row) \in Row /\ Failed(row).status = row.status
      /\ Synced(row).attempts = n /\ Failed(row).attempts = n
      /\ Synced(row).doc = row.doc /\ Synced(row).kind = row.kind
      /\ Failed(row).doc = row.doc /\ Failed(row).kind = row.kind
  BY <1>1, <1>2 DEF Row
<1> QED
  BY <1>3 DEF n

LEMMA NewRowType ==
  ASSUME NEW d \in Docs, NEW k \in {"SAVE", "DELETE"}
  PROVE  LET row == [NoRow EXCEPT !.doc = d, !.kind = k]
         IN  row \in Row /\ row.status = "pending" /\ row.attempts = 0
             /\ row.doc = d
BY DEF NoRow, Row

LEMMA EnqueueEffect ==
  ASSUME TypeOK, NEW d \in Docs, NEW k \in {"SAVE", "DELETE"}, Enqueue(d, k)
  PROVE  /\ size + 1 \in Events
         /\ \A e \in Events \ {size + 1} : outbox'[e] = outbox[e]
         /\ outbox'[size + 1].status = "pending"
         /\ outbox'[size + 1].attempts = 0
         /\ outbox'[size + 1].doc = d
         /\ outbox' \in [Events -> Row]
<1> DEFINE row == [NoRow EXCEPT !.doc = d, !.kind = k]
<1>1. /\ row \in Row /\ row.status = "pending" /\ row.attempts = 0
      /\ row.doc = d
  BY NewRowType
<1>2. size + 1 \in Events
  BY BoundsAssumption DEF Enqueue, TypeOK, Events
<1>3. outbox' = [outbox EXCEPT ![size + 1] = row]
  BY DEF Enqueue
<1> HIDE DEF row
<1> QED
  BY <1>1, <1>2, <1>3 DEF TypeOK

\* A sweep is at one event.
LEMMA OneCurrent ==
  ASSUME TypeOK, NEW r \in Replayers, NEW e, NEW f, Current(r, e), Current(r, f)
  PROVE  e = f
<1>1. e \in Int /\ f \in Int
  BY BoundsAssumption DEF TypeOK, Sweeping, Current, Events
<1> QED
  BY <1>1 DEF Current

LEMMA FirstDueRows == FirstDue \subseteq Due /\ Due \subseteq 1..size
BY DEF FirstDue, Due

\* What a mark of event e does, answered or not.
MarkEffect(r, e, row) ==
  /\ outbox' \in {outbox, [outbox EXCEPT ![e] = row]}
  /\ \/ sweep' = [sweep EXCEPT ![r] = Waiting]
     \/ /\ outbox' = [outbox EXCEPT ![e] = row]
        /\ sweep' = [sweep EXCEPT ![r] =
                       [pc |-> "apply", batch |-> sweep[r].batch \ {e}]]
  /\ faults' \in 0..MaxFaults

LEMMA MarkHasEffect ==
  ASSUME TypeOK, NEW r \in Replayers, NEW e \in Events, NEW row, Mark(r, e, row)
  PROVE  MarkEffect(r, e, row)
<1>1. faults' \in 0..MaxFaults
  BY BoundsAssumption DEF Mark, Fault, TypeOK
<1>2. CASE sweep[r].batch = {e}
  BY <1>1, <1>2 DEF Mark, MarkEffect, Advance
<1>3. CASE sweep[r].batch # {e}
  BY <1>1, <1>3 DEF Mark, MarkEffect, Advance
<1> QED
  BY <1>2, <1>3

LEMMA OInvInit == Init => OInv
<1> SUFFICES ASSUME Init PROVE OInv
  OBVIOUS
<1>1. NoRow \in Row /\ Waiting \in Sweeping
  BY DEF NoRow, Row, Waiting, Sweeping
<1>2. TypeOK
  BY <1>1, BoundsAssumption DEF Init, TypeOK
<1>3. BatchesExist /\ MarksApplied /\ SyncedWasApplied
  BY DEF Init, BatchesExist, MarksApplied, SyncedWasApplied, Waiting, NoRow
<1> QED
  BY <1>2, <1>3 DEF OInv

LEMMA OInvStep == OInv /\ [Next]_vars => OInv'
<1> SUFFICES ASSUME OInv, [Next]_vars PROVE OInv'
  OBVIOUS
<1>0. TypeOK /\ BatchesExist /\ MarksApplied /\ SyncedWasApplied
  BY DEF OInv
<1>1. ASSUME NEW d \in Docs, NEW k \in {"SAVE", "DELETE"}, Enqueue(d, k)
      PROVE  OInv'
  <2>1. /\ size + 1 \in Events
        /\ \A e \in Events \ {size + 1} : outbox'[e] = outbox[e]
        /\ outbox'[size + 1].status = "pending"
        /\ outbox' \in [Events -> Row]
    BY <1>0, <1>1, EnqueueEffect
  <2>2. TypeOK'
    BY <1>0, <1>1, <2>1, BoundsAssumption DEF Enqueue, TypeOK, Events
  <2>3. BatchesExist'
    BY <1>0, <1>1, BoundsAssumption DEF Enqueue, TypeOK, BatchesExist
  <2>4. MarksApplied'
    BY <1>0, <1>1 DEF Enqueue, MarksApplied, Current
  <2>5. SyncedWasApplied'
    BY <1>0, <1>1, <2>1 DEF Enqueue, SyncedWasApplied
  <2> QED
    BY <2>2, <2>3, <2>4, <2>5 DEF OInv
<1>2. ASSUME NEW r \in Replayers, Select(r)
      PROVE  OInv'
  <2> DEFINE w == IF FirstDue = {} THEN Waiting
                  ELSE [pc |-> "apply", batch |-> FirstDue]
  <2>1. FirstDue \subseteq 1..size /\ 1..size \subseteq Events
    BY <1>0, FirstDueRows, BoundsAssumption DEF TypeOK, Events
  <2>2. w \in Sweeping /\ w.batch \subseteq 1..size /\ w.pc # "markOk"
    BY <2>1 DEF Waiting, Sweeping
  <2>3. sweep' = [sweep EXCEPT ![r] = w]
        /\ UNCHANGED <<outbox, size, mongo, faults, tries, applied>>
    BY <1>2 DEF Select
  <2> HIDE DEF w
  <2>4. TypeOK'
    BY <1>0, <2>2, <2>3 DEF TypeOK
  <2>5. BatchesExist' /\ MarksApplied' /\ SyncedWasApplied'
    BY <1>0, <2>2, <2>3
       DEF TypeOK, BatchesExist, MarksApplied, SyncedWasApplied, Current
  <2> QED
    BY <2>4, <2>5 DEF OInv
<1>3. ASSUME NEW r \in Replayers, Apply(r)
      PROVE  OInv'
  <2>1. PICK e \in Events : /\ Current(r, e)
                            /\ tries' = [tries EXCEPT ![e] = tries[e] + 1]
    BY <1>0, <1>3 DEF Apply, TypeOK
  <2>2. /\ UNCHANGED <<outbox, size, faults>>
        /\ \/ sweep' = [sweep EXCEPT ![r].pc = "markOk"]
              /\ applied' = applied \cup {e}
           \/ sweep' = [sweep EXCEPT ![r].pc = "markFail"] /\ UNCHANGED applied
        /\ mongo' \in [Docs -> 0..MaxEvents]
    <3>1. \A f \in Events : Image(f) \in 0..MaxEvents
      BY BoundsAssumption DEF Image, Events
    <3>2. PICK f \in Events :
            /\ Current(r, f)
            /\ mongo' \in {mongo, [mongo EXCEPT ![outbox[f].doc] = Image(f)]}
            /\ \/ sweep' = [sweep EXCEPT ![r].pc = "markOk"]
                  /\ applied' = applied \cup {f}
               \/ sweep' = [sweep EXCEPT ![r].pc = "markFail"] /\ UNCHANGED applied
      BY <1>3 DEF Apply
    <3>3. f = e
      BY <1>0, <2>1, <3>2, OneCurrent
    <3> QED
      BY <1>0, <1>3, <3>1, <3>2, <3>3 DEF Apply, TypeOK
  <2>3. TypeOK'
    <3>1. sweep' \in [Replayers -> Sweeping]
      BY <1>0, <2>1, <2>2 DEF TypeOK, Sweeping
    <3>2. mongo' \in [Docs -> 0..MaxEvents]
      BY <1>0, <2>1, <2>2 DEF TypeOK
    <3> QED
      BY <1>0, <2>1, <2>2, <3>1, <3>2 DEF TypeOK
  <2>4. BatchesExist'
    BY <1>0, <2>2 DEF TypeOK, Sweeping, BatchesExist
  <2>5. MarksApplied'
    <3> SUFFICES ASSUME NEW q \in Replayers, NEW f \in Events,
                        sweep'[q].pc = "markOk", Current(q, f)'
                 PROVE  f \in applied'
      BY DEF MarksApplied
    <3>1. CASE q = r
      <4>1. sweep'[r].batch = sweep[r].batch
        BY <1>0, <2>2 DEF TypeOK, Sweeping
      <4>2. Current(r, f)
        BY <3>1, <4>1 DEF Current
      <4>3. f = e
        BY <1>0, <2>1, <4>2, OneCurrent
      <4> QED
        BY <1>0, <2>2, <3>1, <4>3 DEF TypeOK, Sweeping
    <3>2. CASE q # r
      BY <1>0, <2>2, <3>2 DEF MarksApplied, Current, TypeOK
    <3> QED
      BY <3>1, <3>2
  <2>6. SyncedWasApplied'
    BY <1>0, <2>2 DEF SyncedWasApplied
  <2> QED
    BY <2>3, <2>4, <2>5, <2>6 DEF OInv
<1>4. ASSUME NEW r \in Replayers, NEW e \in Events, NEW row \in Row,
             MarkEffect(r, e, row), UNCHANGED <<size, mongo, tries, applied>>,
             row.status = "done" => e \in applied
      PROVE  OInv'
  <2>1. sweep[r] \in Sweeping
        /\ [pc |-> "apply", batch |-> sweep[r].batch \ {e}] \in Sweeping
        /\ Waiting \in Sweeping
    BY <1>0 DEF TypeOK, Sweeping, Waiting
  <2>2. TypeOK'
    BY <1>0, <1>4, <2>1 DEF MarkEffect, TypeOK
  <2>3. BatchesExist'
    BY <1>0, <1>4, <2>1 DEF MarkEffect, TypeOK, BatchesExist, Waiting
  <2>4. MarksApplied'
    BY <1>0, <1>4, <2>1 DEF MarkEffect, TypeOK, MarksApplied, Current, Waiting
  <2>5. SyncedWasApplied'
    BY <1>0, <1>4 DEF MarkEffect, TypeOK, SyncedWasApplied
  <2> QED
    BY <2>2, <2>3, <2>4, <2>5 DEF OInv
<1>5. ASSUME NEW r \in Replayers, MarkSynced(r)
      PROVE  OInv'
  <2>1. PICK e \in Events : Current(r, e) /\ Mark(r, e, Synced(outbox[e]))
    BY <1>5 DEF MarkSynced
  <2>2. outbox[e] \in Row /\ e \in applied
    BY <1>0, <1>5, <2>1 DEF TypeOK, MarkSynced, MarksApplied
  <2> QED
    BY <1>0, <1>4, <1>5, <2>1, <2>2, MarkHasEffect, RowTypes DEF MarkSynced
<1>6. ASSUME NEW r \in Replayers, MarkFailed(r)
      PROVE  OInv'
  <2>1. PICK e \in Events : Current(r, e) /\ Mark(r, e, Failed(outbox[e]))
    BY <1>6 DEF MarkFailed
  <2>2. /\ outbox[e] \in Row
        /\ Failed(outbox[e]).status = "done" => e \in applied
    BY <1>0, <2>1 DEF TypeOK, SyncedWasApplied, Failed, Row
  <2> QED
    BY <1>0, <1>4, <1>6, <2>1, <2>2, MarkHasEffect, RowTypes DEF MarkFailed
<1>7. ASSUME NEW r \in Replayers, Crash(r)
      PROVE  OInv'
  <2>1. sweep' = [sweep EXCEPT ![r] = Waiting] /\ Waiting \in Sweeping
        /\ UNCHANGED <<outbox, size, mongo, tries, applied>>
        /\ faults' \in 0..MaxFaults
    BY <1>0, <1>7, BoundsAssumption DEF Crash, Fault, Waiting, Sweeping, TypeOK
  <2>2. TypeOK'
    BY <1>0, <2>1 DEF TypeOK
  <2>3. BatchesExist' /\ MarksApplied' /\ SyncedWasApplied'
    BY <1>0, <2>1 DEF TypeOK, BatchesExist, MarksApplied, SyncedWasApplied,
       Current, Waiting
  <2> QED
    BY <2>2, <2>3 DEF OInv
<1>8. CASE UNCHANGED vars
  BY <1>0, <1>8 DEF vars, OInv, TypeOK, BatchesExist, MarksApplied,
     SyncedWasApplied, Current
<1> QED
  BY <1>1, <1>2, <1>3, <1>5, <1>6, <1>7, <1>8 DEF Next, Sweep

THEOREM OutboxInvariance == Spec => []OInv
BY OInvInit, OInvStep, PTL DEF Spec

\* Every variable keeps its type.
THEOREM OutboxTypeCorrect == Spec => []TypeOK
<1>1. OInv => TypeOK
  BY DEF OInv
<1> QED
  BY <1>1, OutboxInvariance, PTL

\* No event is marked synced before it was applied, whatever crashes and with
\* any number of replayers: see SyncedWasApplied.
THEOREM NoEventLost == Spec => []SyncedWasApplied
<1>1. OInv => SyncedWasApplied
  BY DEF OInv
<1> QED
  BY <1>1, OutboxInvariance, PTL

-----------------------------------------------------------------------------
(* What attempts counts *)

\* The replayers about to mark event e.
Marking(e) ==
  {r \in Replayers : sweep[r].pc \in {"markOk", "markFail"} /\ Current(r, e)}

\* Each of them stands for a call of Apply that attempts does not count yet.
CInv == \A e \in Events : outbox[e].attempts + Cardinality(Marking(e)) =< tries[e]

\* One element more, or less.
LEMMA CardinalityAround ==
  ASSUME NEW M, NEW x, IsFiniteSet(M)
  PROVE  /\ IsFiniteSet(M \cup {x}) /\ IsFiniteSet(M \ {x})
         /\ Cardinality(M \cup {x}) \in Nat /\ Cardinality(M \ {x}) \in Nat
         /\ Cardinality(M \cup {x}) =< Cardinality(M) + 1
         /\ Cardinality(M \ {x}) =< Cardinality(M)
         /\ x \in M => Cardinality(M \ {x}) = Cardinality(M) - 1
<1>1. Cardinality(M) \in Nat
  BY FS_CardinalityType
<1>2. /\ IsFiniteSet(M \cup {x})
      /\ Cardinality(M \cup {x}) =
           IF x \in M THEN Cardinality(M) ELSE Cardinality(M) + 1
  BY FS_AddElement
<1>3. /\ IsFiniteSet(M \ {x})
      /\ Cardinality(M \ {x}) =
           IF x \in M THEN Cardinality(M) - 1 ELSE Cardinality(M)
  BY FS_RemoveElement
<1>4. Cardinality(M \cup {x}) \in Nat /\ Cardinality(M \ {x}) \in Nat
  BY <1>2, <1>3, FS_CardinalityType
<1> QED
  BY <1>1, <1>2, <1>3, <1>4

LEMMA MarkingFinite ==
  ASSUME IsFiniteSet(Replayers), NEW e
  PROVE  IsFiniteSet(Marking(e)) /\ Cardinality(Marking(e)) \in Nat
BY FS_Subset, FS_CardinalityType DEF Marking

\* A replayer that ends its call leaves the others where they are.
LEMMA MarkingShrinks ==
  ASSUME IsFiniteSet(Replayers), TypeOK, NEW r \in Replayers, NEW e,
         sweep' = [sweep EXCEPT ![r] = sweep'[r]],
         sweep'[r].pc \in {"wait", "apply"}
  PROVE  /\ Cardinality(Marking(e)') =< Cardinality(Marking(e))
         /\ Cardinality(Marking(e)') \in Nat
         /\ r \in Marking(e) =>
              Cardinality(Marking(e)') = Cardinality(Marking(e)) - 1
<1>1. Marking(e)' = Marking(e) \ {r}
  BY DEF Marking, Current, TypeOK
<1> QED
  BY <1>1, MarkingFinite, CardinalityAround

LEMMA CInvMark ==
  ASSUME IsFiniteSet(Replayers), TypeOK, CInv, NEW r \in Replayers,
         NEW e \in Events, NEW row,
         MarkEffect(r, e, row), UNCHANGED tries, r \in Marking(e),
         row.attempts = outbox[e].attempts + 1
  PROVE  CInv'
<1> SUFFICES ASSUME NEW f \in Events
             PROVE  outbox'[f].attempts + Cardinality(Marking(f)') =< tries'[f]
  BY DEF CInv
<1>1. /\ sweep' = [sweep EXCEPT ![r] = sweep'[r]]
      /\ sweep'[r].pc \in {"wait", "apply"}
  BY DEF MarkEffect, TypeOK, Waiting
<1>2. /\ outbox[f].attempts \in Nat /\ outbox[e].attempts \in Nat
      /\ tries[f] \in Nat /\ Cardinality(Marking(f)) \in Nat
      /\ outbox[f].attempts + Cardinality(Marking(f)) =< tries[f]
  BY MarkingFinite DEF TypeOK, Row, CInv
<1>3. /\ Cardinality(Marking(f)') =< Cardinality(Marking(f))
      /\ Cardinality(Marking(f)') \in Nat
      /\ f = e => Cardinality(Marking(f)') = Cardinality(Marking(f)) - 1
  BY <1>1, MarkingShrinks
<1>4. /\ f # e => outbox'[f].attempts = outbox[f].attempts
      /\ f = e => outbox'[f].attempts \in {outbox[f].attempts,
                                          outbox[f].attempts + 1}
  BY DEF MarkEffect, TypeOK
<1> QED
  BY <1>2, <1>3, <1>4

LEMMA CInvStep ==
  ASSUME IsFiniteSet(Replayers), OInv, CInv, [Next]_vars
  PROVE  CInv'
<1>0. TypeOK
  BY DEF OInv
<1>1. ASSUME NEW r \in Replayers,
             sweep' = [sweep EXCEPT ![r] = sweep'[r]],
             sweep'[r].pc \in {"wait", "apply"},
             UNCHANGED <<outbox, tries>>
      PROVE  CInv'
  <2> SUFFICES ASSUME NEW f \in Events
               PROVE  outbox'[f].attempts + Cardinality(Marking(f)') =< tries'[f]
    BY DEF CInv
  <2>1. /\ outbox[f].attempts \in Nat /\ tries[f] \in Nat
        /\ Cardinality(Marking(f)) \in Nat
        /\ outbox[f].attempts + Cardinality(Marking(f)) =< tries[f]
    BY <1>0, MarkingFinite DEF TypeOK, Row, CInv
  <2>2. /\ Cardinality(Marking(f)') =< Cardinality(Marking(f))
        /\ Cardinality(Marking(f)') \in Nat
    BY <1>0, <1>1, MarkingShrinks
  <2> QED
    BY <1>1, <2>1, <2>2
<1>2. ASSUME NEW d \in Docs, NEW k \in {"SAVE", "DELETE"}, Enqueue(d, k)
      PROVE  CInv'
  <2>1. \A e \in Events : outbox'[e].attempts \in {outbox[e].attempts, 0}
    BY <1>0, <1>2, EnqueueEffect
  <2>2. \A e \in Events : Marking(e)' = Marking(e)
    BY <1>2 DEF Enqueue, Marking, Current
  <2>3. \A e \in Events : Cardinality(Marking(e)) \in Nat
    BY MarkingFinite
  <2>4. \A e \in Events : outbox[e].attempts \in Nat /\ tries[e] \in Nat
    BY <1>0 DEF TypeOK, Row
  <2>5. UNCHANGED tries
    BY <1>2 DEF Enqueue
  <2> QED
    BY <2>1, <2>2, <2>3, <2>4, <2>5 DEF CInv
<1>3. ASSUME NEW r \in Replayers, Select(r)
      PROVE  CInv'
  BY <1>0, <1>1, <1>3 DEF Select, TypeOK, Waiting
<1>4. ASSUME NEW r \in Replayers, Crash(r)
      PROVE  CInv'
  BY <1>0, <1>1, <1>4 DEF Crash, TypeOK, Waiting
<1>5. ASSUME NEW r \in Replayers, Apply(r)
      PROVE  CInv'
  <2>1. PICK e \in Events : /\ Current(r, e)
                            /\ tries' = [tries EXCEPT ![e] = tries[e] + 1]
    BY <1>0, <1>5 DEF Apply, TypeOK
  <2>2. /\ UNCHANGED outbox /\ sweep[r].pc = "apply"
        /\ sweep'[r].batch = sweep[r].batch
        /\ \A q \in Replayers \ {r} : sweep'[q] = sweep[q]
    BY <1>0, <1>5 DEF Apply, TypeOK, Sweeping
  <2> SUFFICES ASSUME NEW f \in Events
               PROVE  outbox'[f].attempts + Cardinality(Marking(f)') =< tries'[f]
    BY DEF CInv
  <2>3. /\ outbox[f].attempts \in Nat /\ tries[f] \in Nat
        /\ Cardinality(Marking(f)) \in Nat /\ IsFiniteSet(Marking(f))
        /\ outbox[f].attempts + Cardinality(Marking(f)) =< tries[f]
    BY <1>0, MarkingFinite DEF TypeOK, Row, CInv
  <2>4. CASE f = e
    <3>1. Marking(f)' \subseteq Marking(f) \cup {r}
      BY <2>2 DEF Marking, Current
    <3>2. /\ IsFiniteSet(Marking(f) \cup {r})
          /\ Cardinality(Marking(f) \cup {r}) =< Cardinality(Marking(f)) + 1
          /\ Cardinality(Marking(f) \cup {r}) \in Nat
      BY <2>3, CardinalityAround
    <3>3. /\ Cardinality(Marking(f)') =< Cardinality(Marking(f) \cup {r})
          /\ Cardinality(Marking(f)') \in Nat
      BY <3>1, <3>2, FS_Subset, FS_CardinalityType
    <3>4. tries'[f] = tries[f] + 1
      BY <1>0, <2>1, <2>4 DEF TypeOK
    <3> QED
      BY <2>2, <2>3, <3>2, <3>3, <3>4
  <2>5. CASE f # e
    <3>1. ~Current(r, f)
      BY <1>0, <2>1, <2>5, OneCurrent
    <3>2. Marking(f)' = Marking(f)
      BY <2>2, <3>1 DEF Marking, Current
    <3>3. tries'[f] = tries[f]
      BY <1>0, <2>1, <2>5 DEF TypeOK
    <3> QED
      BY <2>2, <2>3, <3>2, <3>3
  <2> QED
    BY <2>4, <2>5
<1>6. ASSUME NEW r \in Replayers, MarkSynced(r)
      PROVE  CInv'
  <2>1. PICK e \in Events : Current(r, e) /\ Mark(r, e, Synced(outbox[e]))
    BY <1>6 DEF MarkSynced
  <2>2. r \in Marking(e) /\ outbox[e] \in Row /\ UNCHANGED tries
    BY <1>0, <1>6, <2>1 DEF MarkSynced, Marking, TypeOK
  <2> QED
    BY <1>0, <2>1, <2>2, MarkHasEffect, RowTypes, CInvMark
<1>7. ASSUME NEW r \in Replayers, MarkFailed(r)
      PROVE  CInv'
  <2>1. PICK e \in Events : Current(r, e) /\ Mark(r, e, Failed(outbox[e]))
    BY <1>7 DEF MarkFailed
  <2>2. r \in Marking(e) /\ outbox[e] \in Row /\ UNCHANGED tries
    BY <1>0, <1>7, <2>1 DEF MarkFailed, Marking, TypeOK
  <2> QED
    BY <1>0, <2>1, <2>2, MarkHasEffect, RowTypes, CInvMark
<1>8. CASE UNCHANGED vars
  BY <1>8 DEF vars, CInv, Marking, Current
<1> QED
  BY <1>2, <1>3, <1>4, <1>5, <1>6, <1>7, <1>8 DEF Next, Sweep

\* With any finite number of replayers: see AttemptsCounted.
THEOREM AttemptsAreReal ==
  ASSUME IsFiniteSet(Replayers) PROVE Spec => []AttemptsCounted
<1>1. Init => CInv
  <2> SUFFICES ASSUME Init PROVE CInv
    OBVIOUS
  <2>1. \A e : Marking(e) = {}
    BY DEF Init, Marking, Waiting
  <2> QED
    BY <2>1, FS_EmptySet DEF Init, CInv, NoRow
<1>2. OInv /\ CInv /\ [Next]_vars => CInv'
  BY CInvStep
<1>3. OInv /\ CInv => AttemptsCounted
  <2> SUFFICES ASSUME OInv, CInv, NEW e \in Events
               PROVE  outbox[e].attempts =< tries[e]
    BY DEF AttemptsCounted
  <2>1. /\ outbox[e].attempts \in Nat /\ tries[e] \in Nat
        /\ Cardinality(Marking(e)) \in Nat
    BY MarkingFinite DEF OInv, TypeOK, Row
  <2> QED
    BY <2>1 DEF CInv
<1> QED
  BY <1>1, <1>2, <1>3, OutboxInvariance, PTL DEF Spec

-----------------------------------------------------------------------------
(* How far attempts goes *)

\* The replayers that have still to work event e.
Holding(e) == {r \in Replayers : e \in sweep[r].batch}

\* Each of them may count one attempt more; none joins them at the limit.
BInv ==
  \A e \in Events :
    outbox[e].attempts + Cardinality(Holding(e)) < MaxAttempts + Cardinality(Replayers)

LEMMA HoldingFinite ==
  ASSUME IsFiniteSet(Replayers), NEW e
  PROVE  /\ IsFiniteSet(Holding(e)) /\ Cardinality(Holding(e)) \in Nat
         /\ Cardinality(Replayers) \in Nat
         /\ Cardinality(Holding(e)) =< Cardinality(Replayers)
BY FS_Subset, FS_CardinalityType DEF Holding

\* A replayer that drops events from its batch.
LEMMA HoldingShrinks ==
  ASSUME IsFiniteSet(Replayers), TypeOK, NEW r \in Replayers, NEW e,
         sweep' = [sweep EXCEPT ![r] = sweep'[r]],
         sweep'[r].batch \subseteq sweep[r].batch
  PROVE  /\ Cardinality(Holding(e)') =< Cardinality(Holding(e))
         /\ Cardinality(Holding(e)') \in Nat
         /\ r \in Holding(e) /\ e \notin sweep'[r].batch =>
              Cardinality(Holding(e)') = Cardinality(Holding(e)) - 1
<1>1. Holding(e)' \in {Holding(e), Holding(e) \ {r}}
  BY DEF Holding, TypeOK
<1>2. r \in Holding(e) /\ e \notin sweep'[r].batch => Holding(e)' = Holding(e) \ {r}
  BY DEF Holding, TypeOK
<1> QED
  BY <1>1, <1>2, HoldingFinite, CardinalityAround

LEMMA BInvMark ==
  ASSUME IsFiniteSet(Replayers), TypeOK, BInv, NEW r \in Replayers,
         NEW e \in Events, Current(r, e), NEW row, MarkEffect(r, e, row),
         row.attempts = outbox[e].attempts + 1
  PROVE  BInv'
<1> SUFFICES ASSUME NEW f \in Events
             PROVE  outbox'[f].attempts + Cardinality(Holding(f)')
                      < MaxAttempts + Cardinality(Replayers)
  BY DEF BInv
<1>1. /\ sweep' = [sweep EXCEPT ![r] = sweep'[r]]
      /\ sweep'[r].batch \subseteq sweep[r].batch \ {e}
      /\ r \in Holding(e)
  BY DEF MarkEffect, TypeOK, Waiting, Holding, Current
<1>2. /\ outbox[f].attempts \in Nat /\ outbox[e].attempts \in Nat
      /\ Cardinality(Holding(f)) \in Nat /\ Cardinality(Replayers) \in Nat
      /\ outbox[f].attempts + Cardinality(Holding(f))
           < MaxAttempts + Cardinality(Replayers)
  BY HoldingFinite DEF TypeOK, Row, BInv
<1>3. /\ Cardinality(Holding(f)') =< Cardinality(Holding(f))
      /\ Cardinality(Holding(f)') \in Nat
      /\ f = e => Cardinality(Holding(f)') = Cardinality(Holding(f)) - 1
  BY <1>1, HoldingShrinks
<1>4. /\ f # e => outbox'[f].attempts = outbox[f].attempts
      /\ f = e => outbox'[f].attempts \in {outbox[f].attempts,
                                          outbox[f].attempts + 1}
  BY DEF MarkEffect, TypeOK
<1> QED
  BY <1>2, <1>3, <1>4, MaxAttemptsAssumption

LEMMA BInvStep ==
  ASSUME IsFiniteSet(Replayers), OInv, BInv, [Next]_vars
  PROVE  BInv'
<1>0. TypeOK /\ BatchesExist
  BY DEF OInv
<1>1. ASSUME NEW d \in Docs, NEW k \in {"SAVE", "DELETE"}, Enqueue(d, k)
      PROVE  BInv'
  <2>1. \A e \in Events : outbox'[e].attempts \in {outbox[e].attempts, 0}
    BY <1>0, <1>1, EnqueueEffect
  <2>2. \A e \in Events : Holding(e)' = Holding(e)
    BY <1>1 DEF Enqueue, Holding
  <2>3. \A e \in Events : /\ Cardinality(Holding(e)) \in Nat
                          /\ Cardinality(Replayers) \in Nat
                          /\ outbox[e].attempts \in Nat
    BY <1>0, HoldingFinite DEF TypeOK, Row
  <2> QED
    BY <2>1, <2>2, <2>3, MaxAttemptsAssumption DEF BInv
<1>2. ASSUME NEW r \in Replayers, Select(r)
      PROVE  BInv'
  <2>1. /\ UNCHANGED outbox
        /\ sweep'[r].batch \subseteq FirstDue
        /\ \A q \in Replayers \ {r} : sweep'[q] = sweep[q]
        /\ sweep' = [sweep EXCEPT ![r] = sweep'[r]]
    BY <1>0, <1>2 DEF Select, TypeOK, Waiting
  <2> SUFFICES ASSUME NEW f \in Events
               PROVE  outbox[f].attempts + Cardinality(Holding(f)')
                        < MaxAttempts + Cardinality(Replayers)
    BY <2>1 DEF BInv
  <2>2. /\ outbox[f].attempts \in Nat
        /\ Cardinality(Holding(f)) \in Nat /\ Cardinality(Replayers) \in Nat
        /\ IsFiniteSet(Holding(f))
        /\ outbox[f].attempts + Cardinality(Holding(f))
             < MaxAttempts + Cardinality(Replayers)
    BY <1>0, HoldingFinite DEF TypeOK, Row, BInv
  <2>3. CASE f \in FirstDue
    <3>1. outbox[f].attempts < MaxAttempts
      BY <2>3 DEF FirstDue, Due
    <3>2. Holding(f)' \subseteq Replayers
      BY DEF Holding
    <3>3. /\ Cardinality(Holding(f)') \in Nat
          /\ Cardinality(Holding(f)') =< Cardinality(Replayers)
      BY <3>2, FS_Subset, FS_CardinalityType
    <3> QED
      BY <2>2, <3>1, <3>3, MaxAttemptsAssumption
  <2>4. CASE f \notin FirstDue
    <3>1. Holding(f)' \subseteq Holding(f)
      BY <2>1, <2>4 DEF Holding
    <3>2. /\ Cardinality(Holding(f)') \in Nat
          /\ Cardinality(Holding(f)') =< Cardinality(Holding(f))
      BY <2>2, <3>1, FS_Subset, FS_CardinalityType
    <3> QED
      BY <2>2, <3>2, MaxAttemptsAssumption
  <2> QED
    BY <2>3, <2>4
<1>3. ASSUME NEW r \in Replayers, Apply(r)
      PROVE  BInv'
  <2>1. UNCHANGED outbox /\ \A q \in Replayers : sweep'[q].batch = sweep[q].batch
    BY <1>0, <1>3 DEF Apply, TypeOK, Sweeping
  <2>2. \A e : Holding(e)' = Holding(e)
    BY <2>1 DEF Holding
  <2> QED
    BY <2>1, <2>2 DEF BInv
<1>4. ASSUME NEW r \in Replayers, MarkSynced(r) \/ MarkFailed(r)
      PROVE  BInv'
  <2>1. PICK e \in Events :
          /\ Current(r, e)
          /\ Mark(r, e, Synced(outbox[e])) \/ Mark(r, e, Failed(outbox[e]))
    BY <1>4 DEF MarkSynced, MarkFailed
  <2>2. /\ Synced(outbox[e]).attempts = outbox[e].attempts + 1
        /\ Failed(outbox[e]).attempts = outbox[e].attempts + 1
    BY <1>0, RowTypes DEF TypeOK
  <2> QED
    BY <1>0, <2>1, <2>2, MarkHasEffect, BInvMark
<1>5. ASSUME NEW r \in Replayers, Crash(r)
      PROVE  BInv'
  <2>1. /\ sweep' = [sweep EXCEPT ![r] = sweep'[r]] /\ UNCHANGED outbox
        /\ sweep'[r].batch \subseteq sweep[r].batch
    BY <1>0, <1>5 DEF Crash, TypeOK, Waiting
  <2>2. \A e \in Events : /\ Cardinality(Holding(e)') =< Cardinality(Holding(e))
                          /\ Cardinality(Holding(e)') \in Nat
    BY <1>0, <2>1, HoldingShrinks
  <2>3. \A e \in Events : /\ Cardinality(Holding(e)) \in Nat
                          /\ Cardinality(Replayers) \in Nat
                          /\ outbox[e].attempts \in Nat
    BY <1>0, HoldingFinite DEF TypeOK, Row
  <2> QED
    BY <2>1, <2>2, <2>3, MaxAttemptsAssumption DEF BInv
<1>6. CASE UNCHANGED vars
  BY <1>6 DEF vars, BInv, Holding
<1> QED
  BY <1>1, <1>2, <1>3, <1>4, <1>5, <1>6 DEF Next, Sweep

\* With any finite number of replayers: see AttemptsBounded.
THEOREM AttemptsWithinLimit ==
  ASSUME IsFiniteSet(Replayers) PROVE Spec => []AttemptsBounded
<1>1. Init => BInv
  <2> SUFFICES ASSUME Init PROVE BInv
    OBVIOUS
  <2>1. \A e : Holding(e) = {}
    BY DEF Init, Holding, Waiting
  <2>2. Cardinality(Replayers) \in Nat
    BY FS_CardinalityType
  <2>3. \A e \in Events : outbox[e].attempts = 0
    BY DEF Init, NoRow
  <2>4. \A e : Cardinality(Holding(e)) = 0
    BY <2>1, FS_EmptySet
  <2> QED
    BY <2>2, <2>3, <2>4, MaxAttemptsAssumption DEF BInv
<1>2. OInv /\ BInv /\ [Next]_vars => BInv'
  BY BInvStep
<1>3. OInv /\ BInv => AttemptsBounded
  <2> SUFFICES ASSUME OInv, BInv, NEW e \in Events
               PROVE  outbox[e].attempts < MaxAttempts + Cardinality(Replayers)
    BY DEF AttemptsBounded
  <2>1. /\ outbox[e].attempts \in Nat
        /\ Cardinality(Holding(e)) \in Nat /\ Cardinality(Replayers) \in Nat
    BY HoldingFinite DEF OInv, TypeOK, Row
  <2> QED
    BY <2>1, MaxAttemptsAssumption DEF BInv
<1> QED
  BY <1>1, <1>2, <1>3, OutboxInvariance, PTL DEF Spec

-----------------------------------------------------------------------------
(* The purpose of package mongox, proved where it holds: with one replayer   *)
(* and an Apply that does not fail, MongoDB agrees with MySQL on every       *)
(* document whose events are all synced, whatever crashes and whichever      *)
(* marks fail.  Both assumptions are needed: TLC finds counterexamples with  *)
(* two replayers, and with one whose Apply fails once.                       *)

OneReplayer == \A r, q \in Replayers : r = q

Pending(e) == e \in 1..size /\ outbox[e].status = "pending"
Done(e)    == e \in 1..size /\ outbox[e].status = "done"

\* The oldest pending event.
First(c) == Pending(c) /\ \A e \in 1..size : e < c => Done(e)

\* d holds the image of its latest synced event.
Settled(d) ==
  \A e : Done(e) /\ outbox[e].doc = d
            /\ (\A f : Done(f) /\ outbox[f].doc = d => f =< e)
         => mongo[d] = Image(e)

\* A sweep works on pending events, none skipped.
BatchOK ==
  \A r \in Replayers :
    /\ sweep[r].pc # "markFail"
    /\ \A f \in sweep[r].batch :
         Pending(f) /\ \A e : Pending(e) /\ e < f => e \in sweep[r].batch

\* Events are synced in order, and a pending one has not been counted yet.
TableOK ==
  /\ \A e \in 1..size : outbox[e].doc \in Docs
  /\ \A e : Pending(e) => outbox[e].attempts = 0
  /\ \A f : Done(f) => \A e \in 1..f : Done(e)

\* Between Apply and mark the document holds the image of the event.  Otherwise
\* it is settled, unless its oldest pending event is about to be applied
\* (again).
MongoOK ==
  /\ \A r \in Replayers : \A e \in Events :
       sweep[r].pc = "markOk" /\ Current(r, e) => mongo[outbox[e].doc] = Image(e)
  /\ \A d \in Docs : Settled(d) \/ \E c : First(c) /\ outbox[c].doc = d

SInv == BatchOK /\ TableOK /\ MongoOK

-----------------------------------------------------------------------------
(* Steps *)

\* Rows, table size and documents stay.
LEMMA SameTable ==
  ASSUME TableOK, UNCHANGED <<outbox, size>>
  PROVE  TableOK'
BY DEF TableOK, Pending, Done

LEMMA SettledSame ==
  ASSUME MongoOK, UNCHANGED <<outbox, size, mongo>>
  PROVE  \A d \in Docs : Settled(d)' \/ \E c : First(c)' /\ outbox'[c].doc = d
<1>1. \A e : Image(e)' = Image(e) /\ Done(e)' = Done(e) /\ Pending(e)' = Pending(e)
  BY DEF Image, Done, Pending
<1>2. \A e : First(e)' = First(e)
  BY <1>1 DEF First
<1>3. \A d : Settled(d)' = Settled(d)
  BY <1>1 DEF Settled
<1> QED
  BY <1>2, <1>3 DEF MongoOK

LEMMA SEnqueue ==
  ASSUME OInv, SInv, NEW d \in Docs, NEW k \in {"SAVE", "DELETE"}, Enqueue(d, k)
  PROVE  SInv'
<1> DEFINE n == size + 1
<1>1. /\ n \in Events /\ size \in Nat /\ size' = n
      /\ UNCHANGED <<mongo, sweep>>
      /\ \A e \in 1..size : outbox'[e] = outbox[e] /\ e # n
      /\ outbox'[n].status = "pending" /\ outbox'[n].attempts = 0
      /\ outbox'[n].doc = d
  <2>1. TypeOK /\ size \in Nat /\ 1..size \subseteq Events
    BY BoundsAssumption DEF OInv, TypeOK, Events
  <2>2. \A e \in 1..size : e # n
    BY <2>1
  <2> QED
    BY <2>1, <2>2, EnqueueEffect DEF Enqueue
<1>2. /\ \A e : Done(e)' <=> Done(e)
      /\ \A e : Pending(e)' <=> Pending(e) \/ e = n
      /\ \A e \in 1..size : Image(e)' = Image(e)
  <2>1. \A e : e \in 1..size' <=> e \in 1..size \/ e = n
    BY <1>1
  <2>2. ~(n \in 1..size)
    BY <1>1
  <2>3. \A e \in 1..size : Image(e)' = Image(e)
    BY <1>1 DEF Image
  <2>4. \A e : Done(e)' <=> Done(e)
    BY <1>1, <2>1, <2>2 DEF Done
  <2> QED
    BY <1>1, <2>1, <2>2, <2>3, <2>4 DEF Pending
<1>3. \A e : Done(e) \/ Pending(e) => e \in 1..size /\ e < n /\ outbox'[e] = outbox[e]
  BY <1>1 DEF Done, Pending
<1>4. TableOK'
  <2>1. \A e \in 1..size' : outbox'[e].doc \in Docs
    BY <1>1 DEF SInv, TableOK
  <2>2. \A e : Pending(e)' => outbox'[e].attempts = 0
    BY <1>1, <1>2, <1>3 DEF SInv, TableOK
  <2>3. \A f : Done(f)' => \A e \in 1..f : Done(e)'
    BY <1>2 DEF SInv, TableOK
  <2> QED
    BY <2>1, <2>2, <2>3 DEF TableOK
<1>5. BatchOK'
  <2> SUFFICES ASSUME NEW r \in Replayers, NEW f \in sweep'[r].batch
               PROVE  /\ Pending(f)'
                      /\ \A e : Pending(e)' /\ e < f => e \in sweep'[r].batch
    BY <1>1 DEF SInv, BatchOK
  <2>1. Pending(f) /\ \A e : Pending(e) /\ e < f => e \in sweep[r].batch
    BY <1>1 DEF SInv, BatchOK
  <2>2. f < n /\ ~(n < f)
    BY <1>1, <1>3, <2>1 DEF Pending
  <2> QED
    BY <1>1, <1>2, <2>1, <2>2
<1>6. MongoOK'
  <2>1. \A r \in Replayers : \A e \in Events :
          sweep'[r].pc = "markOk" /\ Current(r, e)' =>
            mongo'[outbox'[e].doc] = Image(e)'
    <3> SUFFICES ASSUME NEW r \in Replayers, NEW e \in Events,
                        sweep'[r].pc = "markOk", Current(r, e)'
                 PROVE  mongo'[outbox'[e].doc] = Image(e)'
      OBVIOUS
    <3>1. sweep[r].pc = "markOk" /\ Current(r, e) /\ e \in sweep[r].batch
      BY <1>1 DEF Current
    <3>2. e \in 1..size
      BY <3>1 DEF SInv, BatchOK, Pending
    <3> QED
      BY <1>1, <1>2, <3>1, <3>2 DEF SInv, MongoOK
  <2>2. ASSUME NEW x \in Docs, Settled(x)
        PROVE  Settled(x)'
    BY <1>1, <1>2, <1>3, <2>2 DEF Settled
  <2>3. ASSUME NEW c, First(c)
        PROVE  First(c)' /\ outbox'[c] = outbox[c]
    <3>1. Pending(c)' /\ c \in 1..size /\ outbox'[c] = outbox[c] /\ c < n
      BY <1>2, <1>3, <2>3 DEF First
    <3>2. \A e \in 1..size' : e < c => Done(e)'
      BY <1>1, <1>2, <2>3, <3>1 DEF First
    <3> QED
      BY <3>1, <3>2 DEF First
  <2> QED
    BY <2>1, <2>2, <2>3 DEF SInv, MongoOK
<1> QED
  BY <1>4, <1>5, <1>6 DEF SInv

\* The selection takes the oldest of the rows that are due.
LEMMA OldestDue ==
  ASSUME TypeOK, NEW f \in FirstDue, NEW e \in Due, e < f
  PROVE  e \in FirstDue
<1>1. /\ size \in Nat /\ Due \subseteq 1..size /\ f \in Due
      /\ Cardinality({g \in Due : g =< f}) =< Batch
  BY DEF FirstDue, TypeOK, Due
<1>2. IsFiniteSet({g \in Due : g =< f})
  <2>1. IsFiniteSet(1..size)
    BY <1>1, FS_Interval
  <2>2. {g \in Due : g =< f} \in SUBSET (1..size)
    BY <1>1
  <2> QED
    BY <2>1, <2>2, FS_Subset
<1>3. {g \in Due : g =< e} \in SUBSET {g \in Due : g =< f}
  <2>1. \A g \in Due : g =< e => g =< f
    BY <1>1
  <2> QED
    BY <2>1
<1>4. /\ Cardinality({g \in Due : g =< e}) =< Cardinality({g \in Due : g =< f})
      /\ Cardinality({g \in Due : g =< e}) \in Nat
      /\ Cardinality({g \in Due : g =< f}) \in Nat
  BY <1>2, <1>3, FS_Subset, FS_CardinalityType
<1>5. Cardinality({g \in Due : g =< e}) =< Batch
  BY <1>1, <1>4, BatchAssumption
<1> QED
  BY <1>5 DEF FirstDue

\* With no attempt counted, every pending event is due.
LEMMA SelectionOK ==
  ASSUME OInv, SInv, NEW f \in FirstDue
  PROVE  Pending(f) /\ \A e : Pending(e) /\ e < f => e \in FirstDue
<1>1. TypeOK /\ Pending(f)
  BY DEF OInv, FirstDue, Due, Pending
<1>2. \A e : Pending(e) => e \in Due
  BY MaxAttemptsAssumption DEF Pending, Due, SInv, TableOK
<1> QED
  BY <1>1, <1>2, OldestDue

LEMMA SSelect ==
  ASSUME OInv, SInv, NEW r \in Replayers, Select(r)
  PROVE  SInv'
<1>1. /\ UNCHANGED <<outbox, size, mongo>>
      /\ sweep'[r].batch \subseteq FirstDue
      /\ sweep'[r].batch = {} \/ sweep'[r].batch = FirstDue
      /\ sweep'[r].pc \in {"wait", "apply"}
      /\ \A q \in Replayers \ {r} : sweep'[q] = sweep[q]
  BY DEF Select, OInv, TypeOK, Waiting
<1>2. \A e : Pending(e)' <=> Pending(e)
  BY <1>1 DEF Pending
<1>3. BatchOK'
  <2>1. \A f \in sweep'[r].batch :
          Pending(f) /\ \A e : Pending(e) /\ e < f => e \in sweep'[r].batch
    BY <1>1, SelectionOK
  <2> QED
    BY <1>1, <1>2, <2>1 DEF SInv, BatchOK
<1>4. \A q \in Replayers : \A e \in Events :
        sweep'[q].pc = "markOk" /\ Current(q, e)' => mongo'[outbox'[e].doc] = Image(e)'
  BY <1>1 DEF SInv, MongoOK, Current, Image
<1> QED
  BY <1>1, <1>3, <1>4, SettledSame, SameTable DEF SInv, MongoOK

\* The event a sweep is at is the oldest pending one.
LEMMA CurrentIsFirst ==
  ASSUME OInv, SInv, NEW r \in Replayers, NEW e \in Events, Current(r, e)
  PROVE  /\ First(e) /\ e \in 1..size /\ outbox[e] \in Row
         /\ outbox[e].doc \in Docs
<1>1. /\ e \in sweep[r].batch /\ Pending(e) /\ e \in 1..size
      /\ size \in Nat /\ 1..size \subseteq Events
      /\ \A x \in Events : outbox[x] \in Row
  BY BoundsAssumption DEF Current, SInv, BatchOK, Pending, OInv, TypeOK, Events
<1>2. ASSUME NEW x \in 1..size, x < e
      PROVE  Done(x)
  <2>1. x \notin sweep[r].batch
    BY <1>1, <1>2 DEF Current
  <2>2. ~Pending(x)
    BY <1>1, <1>2, <2>1 DEF SInv, BatchOK
  <2> QED
    BY <1>1, <1>2, <2>2 DEF Pending, Done, Row
<1> QED
  BY <1>1, <1>2 DEF First, SInv, TableOK

LEMMA SApply ==
  ASSUME ApplyFails = FALSE, OInv, SInv, NEW r \in Replayers, Apply(r)
  PROVE  SInv'
<1>0. TypeOK
  BY DEF OInv
<1>1. PICK e \in Events :
        /\ Current(r, e)
        /\ mongo' = [mongo EXCEPT ![outbox[e].doc] = Image(e)]
        /\ sweep' = [sweep EXCEPT ![r].pc = "markOk"]
        /\ UNCHANGED <<outbox, size>>
  BY DEF Apply
<1>2. /\ \A q \in Replayers : sweep'[q].batch = sweep[q].batch
      /\ sweep'[r].pc = "markOk"
      /\ \A q \in Replayers \ {r} : sweep'[q] = sweep[q]
  BY <1>0, <1>1 DEF TypeOK, Sweeping
<1>3. /\ First(e) /\ e \in 1..size /\ outbox[e].doc \in Docs
      /\ mongo'[outbox[e].doc] = Image(e)
      /\ \A d \in Docs : d # outbox[e].doc => mongo'[d] = mongo[d]
  BY <1>0, <1>1, CurrentIsFirst DEF TypeOK
<1>4. /\ \A x : Done(x)' <=> Done(x)
      /\ \A x : Pending(x)' <=> Pending(x)
      /\ \A x : Image(x)' = Image(x)
  BY <1>1 DEF Done, Pending, Image
<1>5. \A x : First(x)' <=> First(x)
  BY <1>1, <1>4 DEF First
<1>6. BatchOK'
  BY <1>2, <1>4 DEF SInv, BatchOK
<1>7. \A q \in Replayers : \A f \in Events :
        sweep'[q].pc = "markOk" /\ Current(q, f)' => mongo'[outbox'[f].doc] = Image(f)'
  <2> SUFFICES ASSUME NEW q \in Replayers, NEW f \in Events,
                      sweep'[q].pc = "markOk", Current(q, f)'
               PROVE  mongo'[outbox'[f].doc] = Image(f)'
    OBVIOUS
  <2>1. Current(q, f)
    BY <1>2 DEF Current
  <2>2. f = e
    <3>1. First(f) /\ First(e)
      BY <1>1, <2>1, CurrentIsFirst
    <3>2. f \in Int /\ e \in Int
      BY <1>0, BoundsAssumption DEF Events
    <3> QED
      BY <3>1, <3>2 DEF First, Pending, Done
  <2> QED
    BY <1>1, <1>3, <1>4, <2>2
<1>8. ASSUME NEW d \in Docs
      PROVE  Settled(d)' \/ \E c : First(c)' /\ outbox'[c].doc = d
  <2>1. CASE d = outbox[e].doc
    BY <1>1, <1>3, <1>5, <2>1
  <2>2. CASE d # outbox[e].doc
    <3>1. Settled(d) => Settled(d)'
      BY <1>1, <1>3, <1>4, <2>2 DEF Settled
    <3> QED
      BY <1>1, <1>5, <3>1 DEF SInv, MongoOK
  <2> QED
    BY <2>1, <2>2
<1> QED
  BY <1>1, <1>6, <1>7, <1>8, SameTable DEF SInv, MongoOK

\* The rest of a sweep is dropped: by a crash, or by a mark without effect.
LEMMA SDrop ==
  ASSUME OInv, SInv, NEW r \in Replayers,
         sweep' = [sweep EXCEPT ![r] = Waiting], UNCHANGED <<outbox, size, mongo>>
  PROVE  SInv'
<1>1. /\ sweep'[r].pc = "wait" /\ sweep'[r].batch = {}
      /\ \A q \in Replayers \ {r} : sweep'[q] = sweep[q]
  BY DEF OInv, TypeOK, Waiting
<1>2. BatchOK'
  BY <1>1 DEF SInv, BatchOK, Pending
<1>3. \A q \in Replayers : \A f \in Events :
        sweep'[q].pc = "markOk" /\ Current(q, f)' => mongo'[outbox'[f].doc] = Image(f)'
  BY <1>1 DEF SInv, MongoOK, Current, Image
<1> QED
  BY <1>2, <1>3, SettledSame, SameTable DEF SInv, MongoOK

LEMMA SMark ==
  ASSUME OneReplayer, OInv, SInv, NEW r \in Replayers, MarkSynced(r)
  PROVE  SInv'
<1>0. TypeOK
  BY DEF OInv
<1>1. PICK e \in Events : Current(r, e) /\ Mark(r, e, Synced(outbox[e]))
  BY DEF MarkSynced
<1>2. /\ sweep[r].pc = "markOk" /\ UNCHANGED <<size, mongo>>
      /\ \A q \in Replayers : q = r
      /\ MarkEffect(r, e, Synced(outbox[e]))
  BY <1>0, <1>1, MarkHasEffect DEF MarkSynced, OneReplayer
<1>3. /\ First(e) /\ e \in 1..size /\ outbox[e] \in Row
      /\ outbox[e].doc \in Docs /\ Pending(e) /\ size \in Nat
      /\ mongo[outbox[e].doc] = Image(e)
  BY <1>0, <1>1, <1>2, CurrentIsFirst DEF First, SInv, MongoOK, TypeOK
<1>4. CASE UNCHANGED outbox /\ sweep' = [sweep EXCEPT ![r] = Waiting]
  BY <1>2, <1>4, SDrop
<1>5. CASE outbox' = [outbox EXCEPT ![e] = Synced(outbox[e])]
  <2>1. /\ sweep'[r].pc \in {"wait", "apply"}
        /\ sweep'[r].batch \in {{}, sweep[r].batch \ {e}}
    BY <1>0, <1>2 DEF MarkEffect, TypeOK, Waiting
  <2>2. /\ \A x : x # e => outbox'[x] = outbox[x]
        /\ outbox'[e].status = "done" /\ outbox'[e].doc = outbox[e].doc
        /\ outbox'[e].kind = outbox[e].kind
    BY <1>0, <1>3, <1>5, RowTypes DEF TypeOK
  <2>3. /\ \A x : Done(x)' <=> Done(x) \/ x = e
        /\ \A x : Pending(x)' <=> Pending(x) /\ x # e
        /\ \A x : Image(x)' = Image(x) /\ outbox'[x].doc = outbox[x].doc
    <3>1. \A x : outbox'[x].doc = outbox[x].doc /\ outbox'[x].kind = outbox[x].kind
      BY <2>2
    <3> QED
      BY <1>2, <1>3, <2>2, <3>1 DEF Done, Pending, Image
  <2>4. BatchOK'
    BY <1>2, <2>1, <2>3 DEF SInv, BatchOK
  <2>5. TableOK'
    <3>1. \A x \in 1..size' : outbox'[x].doc \in Docs
      BY <1>2, <2>3 DEF SInv, TableOK
    <3>2. \A x : Pending(x)' => outbox'[x].attempts = 0
      BY <2>2, <2>3 DEF SInv, TableOK
    <3>3. \A f : Done(f)' => \A x \in 1..f : Done(x)'
      <4>1. \A x \in 1..e : x = e \/ Done(x)
        BY <1>3 DEF First
      <4> QED
        BY <2>3, <4>1 DEF SInv, TableOK
    <3> QED
      BY <3>1, <3>2, <3>3 DEF TableOK
  <2>6. \A q \in Replayers : sweep'[q].pc # "markOk"
    BY <1>2, <2>1
  <2>7. ASSUME NEW d \in Docs
        PROVE  Settled(d)' \/ \E c : First(c)' /\ outbox'[c].doc = d
    <3>1. CASE d = outbox[e].doc
      <4> SUFFICES ASSUME NEW x, Done(x)', outbox'[x].doc = d,
                          \A f : Done(f)' /\ outbox'[f].doc = d => f =< x
                   PROVE  mongo'[d] = Image(x)'
        BY DEF Settled
      <4>1. e =< x
        BY <2>3, <3>1
      <4>2. x = e
        <5>1. SUFFICES ASSUME x # e PROVE FALSE
          OBVIOUS
        <5>2. Done(x) /\ x \in Int /\ e \in 1..x
          BY <1>3, <2>3, <4>1, <5>1 DEF Done
        <5>3. Done(e)
          BY <5>2 DEF SInv, TableOK
        <5> QED
          BY <1>3, <5>3 DEF Done, Pending
      <4> QED
        BY <1>2, <1>3, <2>3, <3>1, <4>2
    <3>2. CASE d # outbox[e].doc
      <4>1. \A c : First(c) => c = e
        BY <1>3 DEF First, Pending, Done
      <4>2. Settled(d)
        BY <3>2, <4>1 DEF SInv, MongoOK
      <4>3. \A x : Done(x)' /\ outbox'[x].doc = d <=> Done(x) /\ outbox[x].doc = d
        BY <2>3, <3>2
      <4>4. Settled(d)'
        BY <1>2, <2>3, <4>2, <4>3 DEF Settled
      <4> QED
        BY <4>4
    <3> QED
      BY <3>1, <3>2
  <2> QED
    BY <2>4, <2>5, <2>6, <2>7 DEF SInv, MongoOK
<1> QED
  BY <1>2, <1>4, <1>5 DEF MarkEffect

LEMMA SStep ==
  ASSUME OneReplayer, ApplyFails = FALSE, OInv, SInv, [Next]_vars
  PROVE  SInv'
<1>1. ASSUME NEW r \in Replayers, Sweep(r)
      PROVE  SInv'
  <2>1. ~MarkFailed(r)
    BY DEF MarkFailed, SInv, BatchOK
  <2> QED
    BY <1>1, <2>1, SSelect, SApply, SMark DEF Sweep
<1>2. ASSUME NEW r \in Replayers, Crash(r)
      PROVE  SInv'
  BY <1>2, SDrop DEF Crash
<1>3. CASE UNCHANGED vars
  <2>1. UNCHANGED <<outbox, size, mongo, sweep>>
    BY <1>3 DEF vars
  <2>2. BatchOK'
    BY <2>1 DEF SInv, BatchOK, Pending
  <2>3. \A q \in Replayers : \A f \in Events :
          sweep'[q].pc = "markOk" /\ Current(q, f)' => mongo'[outbox'[f].doc] = Image(f)'
    BY <2>1 DEF SInv, MongoOK, Current, Image
  <2> QED
    BY <2>1, <2>2, <2>3, SettledSame, SameTable DEF SInv, MongoOK
<1> QED
  BY <1>1, <1>2, <1>3, SEnqueue DEF Next

\* With one replayer and an Apply that does not fail: see StoresAgree.
THEOREM StoresDoAgree ==
  ASSUME OneReplayer, ApplyFails = FALSE PROVE Spec => []StoresAgree
<1>1. Init => SInv
  BY DEF Init, SInv, BatchOK, TableOK, MongoOK, Settled, Pending, Done, Waiting
<1>2. OInv /\ SInv /\ [Next]_vars => SInv'
  BY SStep
<1>3. SInv => StoresAgree
  <2> SUFFICES ASSUME SInv, NEW d \in Docs, AtRest(d) PROVE UpToDate(d)
    BY DEF StoresAgree
  <2>1. \A c : ~(First(c) /\ outbox[c].doc = d)
    BY DEF AtRest, EventsOf, First, Pending
  <2>2. Settled(d)
    BY <2>1 DEF SInv, MongoOK
  <2> QED
    BY <2>2 DEF Settled, UpToDate, AtRest, EventsOf, Done
<1> QED
  BY <1>1, <1>2, <1>3, OutboxInvariance, PTL DEF Spec

-----------------------------------------------------------------------------
(* What is left of that purpose with several replayers and an Apply that     *)
(* fails: the first calls of Apply come in the order of the events, so a     *)
(* document goes back to an old image only when an event is applied again.   *)

\* No event is tried before an older one, in the table's order or a sweep's.
InOrder ==
  /\ \A e \in 1..size : tries[e] > 0 => \A f \in 1..e : tries[f] > 0
  /\ \A r \in Replayers : \A e \in sweep[r].batch : \A f \in 1..e :
       f \in sweep[r].batch \/ tries[f] > 0

\* Only a tried event is applied, marked or about to be.
TriedFirst ==
  /\ \A e \in Events : outbox[e].attempts > 0 \/ e \in applied => tries[e] > 0
  /\ \A e \in Events : tries[e] > 0 => e =< size
  /\ \A r \in Replayers : \A e \in Events :
       sweep[r].pc \in {"markOk", "markFail"} /\ Current(r, e) => tries[e] > 0

\* e is the latest event of d that was tried.
Latest(d, e) == e \in EventsOf(d) /\ \A f \in EventsOf(d) : e < f => tries[f] = 0

\* While nothing was tried twice, d holds its latest event, if it was applied.
HoldsLatest ==
  \A d \in Docs : \A e \in applied :
    Latest(d, e) /\ (\A f \in EventsOf(d) : tries[f] =< 1) => mongo[d] = Image(e)

RInv == InOrder /\ TriedFirst /\ HoldsLatest

LEMMA REnqueue ==
  ASSUME OInv, RInv, NEW d \in Docs, NEW k \in {"SAVE", "DELETE"}, Enqueue(d, k)
  PROVE  RInv'
<1>0. /\ TypeOK /\ BatchesExist /\ InOrder /\ TriedFirst /\ HoldsLatest
      /\ size \in Nat
  BY DEF OInv, RInv, TypeOK
<1>1. /\ size + 1 \in Events
      /\ \A e \in Events \ {size + 1} : outbox'[e] = outbox[e]
      /\ outbox'[size + 1].attempts = 0
  BY <1>0, EnqueueEffect
<1>2. size' = size + 1 /\ UNCHANGED <<mongo, sweep, tries, applied>>
  BY DEF Enqueue
<1>3. tries[size + 1] = 0 /\ size + 1 \notin applied
  <2>1. tries[size + 1] \in Nat /\ ~(size + 1 =< size)
    BY <1>0, <1>1 DEF TypeOK
  <2> QED
    BY <1>0, <1>1, <2>1 DEF TriedFirst
<1>4. InOrder'
  <2>1. \A e \in 1..size' : e \in 1..size \/ e = size + 1
    BY <1>0, <1>2
  <2> QED
    BY <1>0, <1>2, <1>3, <2>1 DEF InOrder
<1>5. TriedFirst'
  <2>1. \A e \in Events : e =< size => e =< size'
    BY <1>0, <1>2, BoundsAssumption DEF Events
  <2>2. \A e \in Events : outbox'[e].attempts > 0 => outbox[e].attempts > 0
    BY <1>1
  <2> QED
    BY <1>0, <1>2, <2>1, <2>2 DEF TriedFirst, Current
<1>6. HoldsLatest'
  <2>1. \A e \in 1..size : e \in 1..size' /\ e # size + 1 /\ e \in Events
    BY <1>0, <1>2, BoundsAssumption DEF TypeOK, Events
  <2>2. \A c \in Docs : EventsOf(c) \subseteq EventsOf(c)'
    BY <1>1, <2>1 DEF EventsOf
  <2>3. \A c \in Docs : \A e \in applied : Latest(c, e)' => Latest(c, e)
    <3>1. \A e \in applied : e \in Events /\ e # size + 1
      BY <1>0, <1>3 DEF TypeOK
    <3>2. \A c \in Docs : \A e \in EventsOf(c)' : e # size + 1 => e \in EventsOf(c)
      BY <1>0, <1>1, <1>2, BoundsAssumption DEF EventsOf, TypeOK, Events
    <3> QED
      BY <1>2, <2>2, <3>1, <3>2 DEF Latest
  <2>4. \A e \in applied : Image(e)' = Image(e)
    BY <1>0, <1>1, <1>3 DEF TypeOK, Image
  <2> QED
    BY <1>0, <1>2, <2>2, <2>3, <2>4 DEF HoldsLatest
<1> QED
  BY <1>4, <1>5, <1>6 DEF RInv

\* Table, documents and history stay; a sweep gets another batch in order.
LEMMA RResumed ==
  ASSUME OInv, RInv, NEW r \in Replayers,
         UNCHANGED <<outbox, size, mongo, tries, applied>>,
         sweep'[r].pc \in {"wait", "apply"},
         \A e \in sweep'[r].batch : \A f \in 1..e :
           f \in sweep'[r].batch \/ tries[f] > 0,
         \A q \in Replayers \ {r} : sweep'[q] = sweep[q]
  PROVE  RInv'
<1>1. InOrder'
  BY DEF RInv, InOrder
<1>2. TriedFirst'
  BY DEF RInv, TriedFirst, Current
<1>3. HoldsLatest'
  <2>1. \A d : EventsOf(d)' = EventsOf(d)
    BY DEF EventsOf
  <2>2. \A e : Image(e)' = Image(e)
    BY DEF Image
  <2>3. \A d, e : Latest(d, e)' <=> Latest(d, e)
    BY <2>1 DEF Latest
  <2> QED
    BY <2>1, <2>2, <2>3 DEF RInv, HoldsLatest
<1> QED
  BY <1>1, <1>2, <1>3 DEF RInv

LEMMA RSelect ==
  ASSUME OInv, RInv, NEW r \in Replayers, Select(r)
  PROVE  RInv'
<1>1. /\ UNCHANGED <<outbox, size, mongo, tries, applied>>
      /\ sweep'[r].batch \in {{}, FirstDue}
      /\ sweep'[r].pc \in {"wait", "apply"}
      /\ \A q \in Replayers \ {r} : sweep'[q] = sweep[q]
  BY DEF Select, OInv, TypeOK, Waiting
<1>2. ASSUME NEW e \in FirstDue, NEW f \in 1..e
      PROVE  f \in FirstDue \/ tries[f] > 0
  <2>1. /\ TypeOK /\ size \in Nat /\ e \in 1..size /\ f \in 1..size /\ f \in Events
    BY BoundsAssumption DEF OInv, TypeOK, FirstDue, Due, Events
  <2>2. CASE f \in Due
    BY <2>1, <2>2, OldestDue
  <2>3. CASE f \notin Due
    <3>1. outbox[f] \in Row
      BY <2>1 DEF TypeOK
    <3>2. outbox[f].status = "done" \/ outbox[f].attempts > 0
      BY <2>1, <2>3, <3>1, MaxAttemptsAssumption DEF Due, Row
    <3> QED
      BY <2>1, <3>2 DEF RInv, TriedFirst, OInv, SyncedWasApplied
  <2> QED
    BY <2>2, <2>3
<1> QED
  BY <1>1, <1>2, RResumed

LEMMA RApply ==
  ASSUME OInv, RInv, NEW r \in Replayers, Apply(r)
  PROVE  RInv'
<1>0. TypeOK /\ BatchesExist /\ InOrder /\ TriedFirst /\ HoldsLatest /\ size \in Nat
  BY DEF OInv, RInv, TypeOK
<1>1. PICK e \in Events :
        /\ Current(r, e)
        /\ tries' = [tries EXCEPT ![e] = @ + 1]
        /\ mongo' \in {mongo, [mongo EXCEPT ![outbox[e].doc] = Image(e)]}
        /\ \/ /\ mongo' = [mongo EXCEPT ![outbox[e].doc] = Image(e)]
              /\ applied' = applied \cup {e}
           \/ UNCHANGED applied
        /\ \E pc \in {"markOk", "markFail"} : sweep' = [sweep EXCEPT ![r].pc = pc]
        /\ UNCHANGED <<outbox, size>>
  BY DEF Apply
<1>2. /\ \A q \in Replayers : sweep'[q].batch = sweep[q].batch
      /\ \A q \in Replayers \ {r} : sweep'[q] = sweep[q]
      /\ \A q \in Replayers : \A x : Current(q, x)' <=> Current(q, x)
  <2>1. \A q \in Replayers : sweep'[q].batch = sweep[q].batch
    BY <1>0, <1>1 DEF TypeOK, Sweeping
  <2> QED
    BY <1>0, <1>1, <2>1 DEF TypeOK, Current
<1>3. /\ tries'[e] = tries[e] + 1 /\ tries'[e] > 0
      /\ \A x \in Events : tries[x] \in Nat /\ tries'[x] \in Nat
      /\ \A x : x # e => tries'[x] = tries[x]
  BY <1>0, <1>1 DEF TypeOK
<1>4. \A x \in Events : tries[x] > 0 => tries'[x] > 0
  BY <1>3
<1>5. /\ e \in sweep[r].batch /\ e \in 1..size
      /\ \A f \in 1..e : f = e \/ tries[f] > 0
      /\ \A x \in 1..size : x \in Events /\ x \in Int
  <2>1. e \in sweep[r].batch /\ e \in 1..size
    BY <1>0, <1>1 DEF Current, BatchesExist
  <2>2. \A f \in 1..e : f \in sweep[r].batch => f = e
    BY <1>1, <2>1 DEF Current
  <2>3. \A x \in 1..size : x \in Events /\ x \in Int
    BY <1>0, BoundsAssumption DEF TypeOK, Events
  <2> QED
    BY <1>0, <2>1, <2>2, <2>3 DEF InOrder
<1>6. InOrder'
  <2>1. \A x \in 1..size : \A f \in 1..x : f \in Events
    BY <1>0, <1>5
  <2>2. ASSUME NEW x \in 1..size', tries'[x] > 0, NEW f \in 1..x
        PROVE  tries'[f] > 0
    BY <1>0, <1>1, <1>3, <1>4, <1>5, <2>1, <2>2 DEF InOrder
  <2>3. ASSUME NEW q \in Replayers, NEW x \in sweep'[q].batch, NEW f \in 1..x
        PROVE  f \in sweep'[q].batch \/ tries'[f] > 0
    <3>1. x \in 1..size /\ f \in Events
      BY <1>0, <1>2, <2>1 DEF BatchesExist
    <3> QED
      BY <1>0, <1>2, <1>4, <3>1 DEF InOrder
  <2> QED
    BY <2>2, <2>3 DEF InOrder
<1>7. TriedFirst'
  <2>1. \A x \in Events :
          outbox'[x].attempts > 0 \/ x \in applied' => tries'[x] > 0
    BY <1>0, <1>1, <1>3, <1>4 DEF TriedFirst
  <2>2. \A x \in Events : tries'[x] > 0 => x =< size'
    BY <1>0, <1>1, <1>3, <1>5 DEF TriedFirst
  <2>3. \A q \in Replayers : \A x \in Events :
          sweep'[q].pc \in {"markOk", "markFail"} /\ Current(q, x)' => tries'[x] > 0
    <3>1. \A x : Current(r, x) => x = e
      BY <1>0, <1>1, OneCurrent
    <3> QED
      BY <1>0, <1>2, <1>3, <1>4, <3>1 DEF TriedFirst
  <2> QED
    BY <2>1, <2>2, <2>3 DEF TriedFirst
<1>8. HoldsLatest'
  <2> SUFFICES ASSUME NEW d \in Docs, NEW x \in applied', Latest(d, x)',
                      \A f \in EventsOf(d)' : tries'[f] =< 1
               PROVE  mongo'[d] = Image(x)'
    BY DEF HoldsLatest
  <2>1. EventsOf(d)' = EventsOf(d) /\ Image(x)' = Image(x)
    BY <1>1 DEF EventsOf, Image
  <2>2. \A f \in EventsOf(d) : f \in 1..size /\ f \in Events
    BY <1>5 DEF EventsOf
  <2>3. x \in EventsOf(d)
    BY <2>1 DEF Latest
  <2>4. \A f \in EventsOf(d) : tries[f] =< 1 /\ (tries'[f] = 0 => tries[f] = 0)
    BY <1>3, <2>1, <2>2
  <2>5. Latest(d, x)
    BY <2>1, <2>3, <2>4 DEF Latest
  <2>6. CASE outbox[e].doc # d
    <3>1. x # e /\ x \in applied /\ mongo'[d] = mongo[d]
      BY <1>0, <1>1, <2>3, <2>6 DEF EventsOf, TypeOK
    <3> QED
      BY <1>0, <2>1, <2>4, <2>5, <3>1 DEF HoldsLatest
  <2>7. CASE outbox[e].doc = d
    <3>1. e \in EventsOf(d) /\ tries[e] = 0 /\ e \notin applied
      <4>1. e \in EventsOf(d)
        BY <1>5, <2>7 DEF EventsOf
      <4>2. tries'[e] =< 1
        BY <2>1, <4>1
      <4>3. tries[e] = 0
        BY <1>3, <4>2
      <4> QED
        BY <1>0, <4>1, <4>3 DEF TriedFirst
    <3>2. ~(x < e)
      BY <1>3, <2>1, <3>1 DEF Latest
    <3>3. ~(e < x)
      <4>1. SUFFICES ASSUME e < x PROVE FALSE
        OBVIOUS
      <4>2. x # e /\ x \in 1..size /\ e \in 1..x
        BY <1>5, <2>2, <2>3, <4>1
      <4>3. tries[x] > 0
        BY <1>0, <1>1, <2>2, <2>3, <4>2 DEF TriedFirst
      <4> QED
        BY <1>0, <3>1, <4>2, <4>3 DEF InOrder
    <3>4. x = e
      BY <1>5, <2>2, <2>3, <3>2, <3>3
    <3>5. mongo' = [mongo EXCEPT ![outbox[e].doc] = Image(e)]
      BY <1>1, <3>1, <3>4
    <3> QED
      BY <1>0, <2>1, <2>7, <3>4, <3>5 DEF TypeOK
  <2> QED
    BY <2>6, <2>7
<1> QED
  BY <1>6, <1>7, <1>8 DEF RInv

LEMMA RDrop ==
  ASSUME OInv, RInv, NEW r \in Replayers,
         sweep' = [sweep EXCEPT ![r] = Waiting],
         UNCHANGED <<outbox, size, mongo, tries, applied>>
  PROVE  RInv'
<1>1. /\ sweep'[r].pc = "wait" /\ sweep'[r].batch = {}
      /\ \A q \in Replayers \ {r} : sweep'[q] = sweep[q]
  BY DEF OInv, TypeOK, Waiting
<1> QED
  BY <1>1, RResumed

\* A mark counts an attempt of a tried event and may end or shorten the sweep.
LEMMA RMark ==
  ASSUME OInv, RInv, NEW r \in Replayers, MarkSynced(r) \/ MarkFailed(r)
  PROVE  RInv'
<1>0. TypeOK /\ BatchesExist /\ InOrder /\ TriedFirst /\ HoldsLatest
  BY DEF OInv, RInv
<1>1. PICK e \in Events :
        \E row \in {Synced(outbox[e]), Failed(outbox[e])} :
          Current(r, e) /\ Mark(r, e, row)
  BY DEF MarkSynced, MarkFailed
<1> PICK row \in {Synced(outbox[e]), Failed(outbox[e])} :
       Current(r, e) /\ Mark(r, e, row)
  BY <1>1
<1>2. /\ sweep[r].pc \in {"markOk", "markFail"}
      /\ UNCHANGED <<size, mongo, tries, applied>>
      /\ MarkEffect(r, e, row) /\ tries[e] > 0
  BY <1>0, MarkHasEffect DEF MarkSynced, MarkFailed, TriedFirst
<1>3. \A x \in Events : /\ outbox'[x].doc = outbox[x].doc
                        /\ outbox'[x].kind = outbox[x].kind
                        /\ x # e => outbox'[x] = outbox[x]
  <2>1. row.doc = outbox[e].doc /\ row.kind = outbox[e].kind
    BY <1>0, <1>1, RowTypes DEF TypeOK
  <2> QED
    BY <1>0, <1>2, <2>1 DEF MarkEffect, TypeOK
<1>4. /\ sweep'[r].pc \in {"wait", "apply"}
      /\ sweep'[r].batch \in {{}, sweep[r].batch \ {e}}
      /\ \A q \in Replayers \ {r} : sweep'[q] = sweep[q]
  BY <1>0, <1>2 DEF MarkEffect, TypeOK, Waiting
<1>5. InOrder'
  BY <1>0, <1>2, <1>4 DEF InOrder
<1>6. TriedFirst'
  <2>1. \A x \in Events : outbox'[x].attempts > 0 \/ x \in applied' => tries'[x] > 0
    BY <1>0, <1>2, <1>3 DEF TriedFirst
  <2>2. \A q \in Replayers : \A x \in Events :
          sweep'[q].pc \in {"markOk", "markFail"} /\ Current(q, x)' => tries'[x] > 0
    BY <1>0, <1>2, <1>4 DEF TriedFirst, Current
  <2> QED
    BY <1>0, <1>2, <2>1, <2>2 DEF TriedFirst
<1>7. HoldsLatest'
  <2>1. \A x \in 1..size : x \in Events
    BY <1>0, BoundsAssumption DEF TypeOK, Events
  <2>2. \A d : EventsOf(d)' = EventsOf(d)
    BY <1>2, <1>3, <2>1 DEF EventsOf
  <2>3. \A x \in applied : Image(x)' = Image(x)
    BY <1>0, <1>3 DEF Image, TypeOK
  <2>4. \A d, x : Latest(d, x)' <=> Latest(d, x)
    BY <1>2, <2>2 DEF Latest
  <2> QED
    BY <1>0, <1>2, <2>2, <2>3, <2>4 DEF HoldsLatest
<1> QED
  BY <1>5, <1>6, <1>7 DEF RInv

LEMMA RStep ==
  ASSUME OInv, RInv, [Next]_vars
  PROVE  RInv'
<1>1. ASSUME NEW r \in Replayers, Crash(r)
      PROVE  RInv'
  BY <1>1, RDrop DEF Crash
<1>2. CASE UNCHANGED vars
  BY <1>2 DEF vars, RInv, InOrder, TriedFirst, HoldsLatest, Latest, EventsOf,
              Current, Image
<1> QED
  BY <1>1, <1>2, REnqueue, RSelect, RApply, RMark DEF Next, Sweep

\* For any number of replayers, failing applies, crashes and failed marks: see
\* StaleOnlyByRetry.
THEOREM OnlyRetriesAreStale == Spec => []StaleOnlyByRetry
<1>1. Init => RInv
  <2> SUFFICES ASSUME Init PROVE RInv
    OBVIOUS
  <2>1. 1..size = {} /\ applied = {} /\ \A r \in Replayers : sweep[r] = Waiting
    BY DEF Init
  <2>2. InOrder
    BY <2>1 DEF InOrder, Waiting
  <2>3. TriedFirst
    BY <2>1 DEF Init, TriedFirst, Waiting, NoRow
  <2>4. HoldsLatest
    BY <2>1 DEF HoldsLatest
  <2> QED
    BY <2>2, <2>3, <2>4 DEF RInv
<1>2. OInv /\ RInv /\ [Next]_vars => RInv'
  BY RStep
<1>3. OInv /\ RInv => StaleOnlyByRetry
  <2> SUFFICES ASSUME OInv, RInv, NEW d \in Docs, AtRest(d),
                      \A f \in EventsOf(d) : ~(tries[f] > 1),
                      NEW e \in EventsOf(d), \A f \in EventsOf(d) : f =< e
               PROVE  mongo[d] = Image(e)
    BY DEF StaleOnlyByRetry, UpToDate
  <2>1. \A f \in EventsOf(d) : f \in Events /\ f \in Int /\ tries[f] \in Nat
    BY BoundsAssumption DEF OInv, TypeOK, EventsOf, Events
  <2>2. Latest(d, e) /\ \A f \in EventsOf(d) : tries[f] =< 1
    BY <2>1 DEF Latest
  <2>3. e \in applied
    BY <2>1 DEF AtRest, OInv, SyncedWasApplied
  <2> QED
    BY <2>2, <2>3 DEF RInv, HoldsLatest
<1> QED
  BY <1>1, <1>2, <1>3, OutboxInvariance, PTL DEF Spec
=============================================================================
