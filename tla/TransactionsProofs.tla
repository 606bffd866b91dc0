--------------------------- MODULE TransactionsProofs ---------------------------
(***************************************************************************)
(* Proofs about Transactions, for every set of rows and runs, every depth  *)
(* of nesting and every number of statements, provided no function ignores *)
(* that its transaction was rolled back: atomicity, nothing left open, no  *)
(* lost update of a row whose updates check its version, no revived row.   *)
(***************************************************************************)
EXTENDS Transactions, TLAPS

-----------------------------------------------------------------------------
(* The inductive invariant *)

\* A run works under the locks of its open transaction only.
LockInv ==
  \A p \in Procs : \A k \in Keys :
    /\ pend[p][k] # NONE => locks[k] = p
    /\ locks[k] = p => run[p].tx = "open"

\* A row holds every update made of it, unless one came without a version.
Whole(r) == r.bare \/ r.ops = r.by

\* From row r to row s, written by p: unless an update came without a version,
\* the contents change only with the version.
Extends(r, s, p) ==
  /\ r.by \subseteq s.by /\ s.by \subseteq r.by \cup {p}
  /\ r.version =< s.version
  /\ s.bare \/ (r.version = s.version => r.ops = s.ops)
  /\ r.bare => s.bare
  /\ s.live => r.live

PendInv ==
  \A p \in Procs : \A k \in Keys :
    pend[p][k] # NONE => Extends(rows[k], pend[p][k], p)

WholeInv ==
  /\ \A k \in Keys : Whole(rows[k])
  /\ \A p \in Procs : \A k \in Keys : pend[p][k] # NONE => Whole(pend[p][k])

\* The entity a run has read is not newer than the row it finds, and has its
\* contents if it has its version, as long as updates count the version up.
CopyInv ==
  \A p \in Procs : run[p].copy # NONE /\ run[p].tx \in {"none", "open"} =>
    /\ run[p].key \in Keys
    /\ run[p].copy.version =< Seen(p, run[p].key).version
    /\ \/ Seen(p, run[p].key).bare
       \/ run[p].copy.version = Seen(p, run[p].key).version =>
            run[p].copy.ops = Seen(p, run[p].key).ops

\* What is over stays over, and a lost transaction is an error not yet returned.
StateInv ==
  \A p \in Procs :
    /\ run[p].result # "none" => run[p].tx = "none"
    /\ run[p].tx = "none" <=> run[p].depth = 0
    /\ run[p].tx = "gone" => run[p].error
    /\ run[p].tx = "none" /\ run[p].result = "none" => run[p].wrote = {}

\* The updates the function knows of are those its transaction holds.
WroteInv ==
  \A p \in Procs : run[p].tx = "open" =>
    \A k \in Keys : k \in run[p].wrote <=> pend[p][k] # NONE /\ p \in pend[p][k].by

IInv ==
  /\ TypeOK /\ LockInv /\ PendInv /\ WholeInv /\ CopyInv /\ StateInv /\ WroteInv
  /\ AllOrNothing

LEMMA IInvInit == Init => IInv
<1> SUFFICES ASSUME Init PROVE IInv
  OBVIOUS
<1>1. NoRun \in Run
  BY BoundsAssumption DEF NoRun, Run
<1>2. TypeOK
  BY <1>1 DEF Init, TypeOK, NoWrites, Row
<1>3. LockInv /\ PendInv /\ WholeInv
  BY NoneAssumption DEF Init, LockInv, PendInv, WholeInv, Whole, NoWrites
<1>4. CopyInv /\ StateInv /\ WroteInv
  BY DEF Init, CopyInv, StateInv, WroteInv, NoRun
<1>5. AllOrNothing
  BY DEF Init, AllOrNothing, Committed, NoRun
<1> QED
  BY <1>2, <1>3, <1>4, <1>5 DEF IInv

-----------------------------------------------------------------------------
(* The four kinds of step *)

\* Only the state of run p changes, and its transaction may begin.
LEMMA LocalStep ==
  ASSUME IInv, NEW p \in Procs, NEW r \in Run, run' = [run EXCEPT ![p] = r],
         UNCHANGED <<rows, locks, pend>>,
         \/ r.tx = run[p].tx /\ r.result = run[p].result
         \/ /\ run[p].tx = "none" /\ run[p].result = "none"
            /\ r.tx = "open" /\ r.result = "none"
         \/ /\ run[p].tx = "none" /\ run[p].result = "none"
            /\ r.tx = "none" /\ r.result = "error",
         r.tx = "gone" => r.error, r.wrote = run[p].wrote,
         r.tx = "none" <=> r.depth = 0,
         \/ r.copy = NONE
         \/ r.copy = run[p].copy /\ r.key = run[p].key
         \/ r.key \in Keys /\ r.copy = Seen(p, r.key)
  PROVE  IInv'
<1>0. /\ TypeOK /\ LockInv /\ PendInv /\ WholeInv /\ CopyInv /\ StateInv
      /\ WroteInv /\ AllOrNothing
  BY DEF IInv
<1>1. /\ run'[p] = r
      /\ \A q \in Procs \ {p} : run'[q] = run[q]
  BY <1>0 DEF TypeOK
<1>2. TypeOK'
  BY <1>0 DEF TypeOK
<1>3. \A k : Seen(p, k)' = Seen(p, k) /\ \A q : Seen(q, k)' = Seen(q, k)
  BY DEF Seen
<1>4. LockInv' /\ PendInv' /\ WholeInv'
  BY <1>0, <1>1 DEF LockInv, PendInv, Extends, WholeInv, Whole
<1>5. CopyInv'
  <2>1. r.copy # NONE /\ r.tx \in {"none", "open"} =>
          /\ r.key \in Keys
          /\ r.copy.version =< Seen(p, r.key).version
          /\ \/ Seen(p, r.key).bare
             \/ r.copy.version = Seen(p, r.key).version =>
                  r.copy.ops = Seen(p, r.key).ops
    <3>1. r.key \in Keys => Seen(p, r.key) \in Row
      BY <1>0 DEF Seen, TypeOK
    <3> QED
      BY <1>0, <3>1 DEF CopyInv, Row
  <2> QED
    BY <1>0, <1>1, <1>3, <2>1 DEF CopyInv
<1>6. StateInv'
  BY <1>0, <1>1 DEF StateInv
<1>7. WroteInv'
  BY <1>0, <1>1 DEF WroteInv, LockInv, StateInv
<1>8. AllOrNothing'
  BY <1>0, <1>1 DEF AllOrNothing, Committed
<1> QED
  BY <1>2, <1>4, <1>5, <1>6, <1>7, <1>8 DEF IInv

\* Run p writes row k in its open transaction.
LEMMA WriteStep ==
  ASSUME IInv, NEW p \in Procs, NEW k \in Keys, NEW r \in Run, NEW s \in Row,
         run' = [run EXCEPT ![p] = r],
         pend' = [pend EXCEPT ![p][k] = s],
         locks' = [locks EXCEPT ![k] = p], UNCHANGED rows,
         run[p].tx = "open", Free(p, k), Extends(Seen(p, k), s, p), Whole(s),
         r.tx = "open", r.depth # 0, r.result = "none",
         r.wrote = IF p \in s.by THEN run[p].wrote \cup {k} ELSE run[p].wrote,
         \/ r.copy = NONE
         \/ /\ r.copy = run[p].copy /\ r.key = run[p].key
            /\ s.version = Seen(p, k).version
  PROVE  IInv'
<1>0. /\ TypeOK /\ LockInv /\ PendInv /\ WholeInv /\ CopyInv /\ StateInv
      /\ WroteInv /\ AllOrNothing
  BY DEF IInv
<1>1. /\ run'[p] = r
      /\ \A q \in Procs \ {p} : run'[q] = run[q] /\ pend'[q] = pend[q]
      /\ pend'[p][k] = s
      /\ \A j \in Keys \ {k} : pend'[p][j] = pend[p][j] /\ locks'[j] = locks[j]
      /\ locks'[k] = p
  BY <1>0 DEF TypeOK
<1>2. TypeOK'
  BY <1>0 DEF TypeOK
<1>3. s # NONE /\ p # NONE
  BY NoneAssumption
<1>4. \A q \in Procs \ {p} : pend[q][k] = NONE
  BY <1>0, <1>3, NoneAssumption DEF Free, LockInv
<1>5. Extends(rows[k], s, p)
  <2>1. Seen(p, k) \in Row /\ rows[k] \in Row
    BY <1>0 DEF Seen, TypeOK
  <2>2. Extends(rows[k], Seen(p, k), p)
    BY <1>0, <2>1 DEF Seen, PendInv, Extends, Row
  <2> QED
    BY <2>1, <2>2 DEF Extends, Row
<1>6. LockInv'
  BY <1>0, <1>1, <1>4 DEF LockInv, Free
<1>7. PendInv'
  <2> SUFFICES ASSUME NEW q \in Procs, NEW j \in Keys, pend'[q][j] # NONE
               PROVE  Extends(rows[j], pend'[q][j], q)
    BY DEF PendInv, Extends
  <2> QED
    BY <1>0, <1>1, <1>5 DEF PendInv
<1>12. WholeInv'
  BY <1>0, <1>1 DEF WholeInv, Whole
<1>8. CopyInv'
  <2>1. /\ Seen(p, k)' = s
        /\ \A j \in Keys \ {k} : Seen(p, j)' = Seen(p, j)
        /\ \A q \in Procs \ {p} : \A j : Seen(q, j)' = Seen(q, j)
    BY <1>1, <1>3 DEF Seen
  <2>2. /\ s.bare \/ (s.version = Seen(p, k).version => s.ops = Seen(p, k).ops)
        /\ Seen(p, k).bare => s.bare
    BY DEF Extends
  <2> QED
    BY <1>0, <1>1, <2>1, <2>2 DEF CopyInv
<1>9. StateInv'
  BY <1>0, <1>1 DEF StateInv
<1>10. WroteInv'
  <2>1. p \notin s.by => (k \notin run[p].wrote)
    BY <1>0 DEF WroteInv, Extends, Seen
  <2>2. \A j \in Keys \ {k} : j \in r.wrote <=> j \in run[p].wrote
    OBVIOUS
  <2>3. k \in r.wrote <=> p \in s.by
    BY <2>1
  <2> QED
    BY <1>0, <1>1, <1>3, <2>2, <2>3 DEF WroteInv
<1>11. AllOrNothing'
  <2>1. run[p].result = "none"
    BY <1>0 DEF StateInv, TypeOK, Run
  <2> QED
    BY <1>0, <1>1, <2>1 DEF AllOrNothing, Committed
<1> QED
  BY <1>2, <1>6, <1>7, <1>8, <1>9, <1>10, <1>11, <1>12 DEF IInv

LEMMA UnlockEffect ==
  ASSUME TypeOK, NEW p \in Procs, locks' = Unlocked(p),
         pend' = [pend EXCEPT ![p] = NoWrites]
  PROVE  /\ pend' \in [Procs -> [Keys -> Row \cup {NONE}]]
         /\ locks' \in [Keys -> Procs \cup {NONE}]
         /\ \A k \in Keys : pend'[p][k] = NONE /\ locks'[k] # p
         /\ \A q \in Procs \ {p} : pend'[q] = pend[q]
         /\ \A q \in Procs \ {p} : \A k \in Keys : locks'[k] = q <=> locks[k] = q
BY NoneAssumption DEF TypeOK, Unlocked, NoWrites

\* The transaction of run p is rolled back.
LEMMA DiscardStep ==
  ASSUME IInv, NEW p \in Procs, NEW r \in Run,
         run' = [run EXCEPT ![p] = r], Discard(p),
         run[p].result = "none", run[p].tx # "none",
         \/ /\ r.tx = "none" /\ r.result \in {"error", "unknown", "panic"}
            /\ r.copy = NONE
         \/ r.tx \in {"closed", "gone"} /\ r.result = "none",
         r.tx = "gone" => r.error, r.tx = "none" <=> r.depth = 0
  PROVE  IInv'
<1>0. /\ TypeOK /\ LockInv /\ PendInv /\ WholeInv /\ CopyInv /\ StateInv
      /\ WroteInv /\ AllOrNothing
  BY DEF IInv
<1>1. /\ run'[p] = r
      /\ \A q \in Procs \ {p} : run'[q] = run[q]
      /\ UNCHANGED rows
  BY <1>0 DEF TypeOK, Discard
<1>2. /\ pend' \in [Procs -> [Keys -> Row \cup {NONE}]]
      /\ locks' \in [Keys -> Procs \cup {NONE}]
      /\ \A k \in Keys : pend'[p][k] = NONE /\ locks'[k] # p
      /\ \A q \in Procs \ {p} : pend'[q] = pend[q]
      /\ \A q \in Procs \ {p} : \A k \in Keys : locks'[k] = q <=> locks[k] = q
  BY <1>0, UnlockEffect DEF Discard
<1>3. TypeOK'
  BY <1>0, <1>1, <1>2 DEF TypeOK
<1>4. LockInv' /\ PendInv' /\ WholeInv'
  <2>1. LockInv'
    BY <1>0, <1>1, <1>2 DEF LockInv
  <2>2. ASSUME NEW q \in Procs, NEW k \in Keys, pend'[q][k] # NONE
        PROVE  q # p /\ pend'[q][k] = pend[q][k] /\ rows'[k] = rows[k]
    BY <1>1, <1>2, <2>2
  <2>3. PendInv'
    BY <1>0, <2>2 DEF PendInv, Extends
  <2>4. WholeInv'
    BY <1>0, <1>1, <2>2 DEF WholeInv, Whole
  <2> QED
    BY <2>1, <2>3, <2>4
<1>5. CopyInv'
  <2>1. \A q \in Procs \ {p} : \A k : Seen(q, k)' = Seen(q, k)
    BY <1>1, <1>2 DEF Seen
  <2> QED
    BY <1>0, <1>1, <2>1 DEF CopyInv
<1>6. StateInv' /\ WroteInv'
  BY <1>0, <1>1, <1>2 DEF StateInv, WroteInv
<1>7. AllOrNothing'
  BY <1>0, <1>1 DEF AllOrNothing, Committed
<1> QED
  BY <1>3, <1>4, <1>5, <1>6, <1>7 DEF IInv

\* What a commit does to the rows.
LEMMA CommitExtends ==
  ASSUME IInv, NEW p \in Procs, Apply(p), NEW k \in Keys
  PROVE  /\ rows'[k] = Seen(p, k) /\ Extends(rows[k], rows'[k], p)
         /\ rows'[k] \in Row /\ Whole(rows'[k])
<1>0. TypeOK /\ PendInv /\ WholeInv
  BY DEF IInv
<1>1. rows'[k] = Seen(p, k) /\ Seen(p, k) \in Row /\ rows[k] \in Row
  BY <1>0 DEF Apply, Seen, TypeOK
<1> QED
  BY <1>0, <1>1 DEF Seen, PendInv, Extends, Row, WholeInv, Whole

\* The transaction of run p commits.
LEMMA ApplyStep ==
  ASSUME IInv, NEW p \in Procs, NEW r \in Run,
         run' = [run EXCEPT ![p] = r], Apply(p), run[p].tx = "open",
         r.tx = "none", r.depth = 0, r.result \in {"nil", "unknown"}, r.copy = NONE,
         r.wrote = run[p].wrote
  PROVE  IInv'
<1>0. /\ TypeOK /\ LockInv /\ PendInv /\ WholeInv /\ CopyInv /\ StateInv
      /\ WroteInv /\ AllOrNothing
  BY DEF IInv
<1>1. /\ run'[p] = r
      /\ \A q \in Procs \ {p} : run'[q] = run[q]
  BY <1>0 DEF TypeOK
<1>2. /\ pend' \in [Procs -> [Keys -> Row \cup {NONE}]]
      /\ locks' \in [Keys -> Procs \cup {NONE}]
      /\ \A k \in Keys : pend'[p][k] = NONE /\ locks'[k] # p
      /\ \A q \in Procs \ {p} : pend'[q] = pend[q]
      /\ \A q \in Procs \ {p} : \A k \in Keys : locks'[k] = q <=> locks[k] = q
  BY <1>0, UnlockEffect DEF Apply
<1>3. \A k \in Keys : /\ rows'[k] = Seen(p, k) /\ Extends(rows[k], rows'[k], p)
                      /\ rows'[k] \in Row /\ rows[k] \in Row
                      /\ Whole(rows'[k])
  BY <1>0, CommitExtends DEF TypeOK
<1>4. TypeOK'
  BY <1>0, <1>1, <1>2, <1>3 DEF TypeOK, Apply
<1>5. LockInv'
  BY <1>0, <1>1, <1>2 DEF LockInv
<1>6. \A q \in Procs \ {p} : \A k \in Keys :
        pend[q][k] # NONE => rows'[k] = rows[k]
  BY <1>0, <1>3 DEF LockInv, Seen
<1>7. PendInv'
  BY <1>0, <1>2, <1>6 DEF PendInv, Extends
<1>11. WholeInv'
  BY <1>0, <1>2, <1>3 DEF WholeInv, Whole
<1>8. CopyInv'
  <2> SUFFICES ASSUME NEW q \in Procs, q # p, run[q].copy # NONE,
                      run[q].tx \in {"none", "open"}
               PROVE  /\ run[q].key \in Keys
                      /\ run[q].copy.version =< Seen(q, run[q].key)'.version
                      /\ \/ Seen(q, run[q].key)'.bare
                         \/ run[q].copy.version = Seen(q, run[q].key)'.version =>
                              run[q].copy.ops = Seen(q, run[q].key)'.ops
    <3>1. \A q \in Procs : q # p => run'[q] = run[q]
      BY <1>1
    <3> QED
      BY <1>1, <3>1 DEF CopyInv, Seen
  <2>1. PICK k \in Keys : k = run[q].key
    BY <1>0 DEF CopyInv
  <2>2. /\ run[q].copy.version =< Seen(q, k).version
        /\ \/ Seen(q, k).bare
           \/ run[q].copy.version = Seen(q, k).version =>
                run[q].copy.ops = Seen(q, k).ops
    BY <1>0, <2>1 DEF CopyInv
  <2>3. run[q].copy.version \in Nat
    BY <1>0 DEF TypeOK, Run, Row
  <2>4. CASE pend[q][k] # NONE
    BY <1>2, <2>1, <2>2, <2>4 DEF Seen
  <2>5. CASE pend[q][k] = NONE
    <3>1. Seen(q, k) = rows[k] /\ Seen(q, k)' = rows'[k]
      BY <1>2, <2>5 DEF Seen
    <3>2. /\ rows[k].version =< rows'[k].version
          /\ \/ rows'[k].bare
             \/ rows[k].version = rows'[k].version => rows[k].ops = rows'[k].ops
          /\ rows[k].bare => rows'[k].bare
          /\ rows[k].version \in Nat /\ rows'[k].version \in Nat
      BY <1>3 DEF Extends, Row
    <3> QED
      BY <2>1, <2>2, <2>3, <3>1, <3>2
  <2> QED
    BY <2>4, <2>5
<1>9. StateInv' /\ WroteInv'
  BY <1>0, <1>1, <1>2 DEF StateInv, WroteInv
<1>10. AllOrNothing'
  <2>1. \A q \in Procs \ {p} : Committed(q)' = Committed(q)
    BY <1>3 DEF Committed, Extends
  <2>2. Committed(p) = {}
    BY <1>0 DEF AllOrNothing, StateInv
  <2>3. Committed(p)' = run[p].wrote
    <3>1. \A k \in Keys : p \in rows'[k].by <=> k \in run[p].wrote
      BY <1>0, <1>3, <2>2 DEF Committed, WroteInv, Seen
    <3>2. run[p].wrote \subseteq Keys
      BY <1>0 DEF TypeOK, Run
    <3> QED
      BY <3>1, <3>2 DEF Committed
  <2> QED
    BY <1>0, <1>1, <2>1, <2>3 DEF AllOrNothing
<1> QED
  BY <1>4, <1>5, <1>7, <1>8, <1>9, <1>10, <1>11 DEF IInv

\* A statement of run p affects no row, and keeps its lock.
LEMMA LockStep ==
  ASSUME IInv, NEW p \in Procs, NEW k \in Keys, NEW r \in Run,
         run' = [run EXCEPT ![p] = r],
         locks' = [locks EXCEPT ![k] = p], UNCHANGED <<rows, pend>>,
         run[p].tx = "open", Free(p, k),
         r.tx = "open", r.depth # 0, r.result = "none", r.wrote = run[p].wrote,
         r.copy = run[p].copy, r.key = run[p].key
  PROVE  IInv'
<1>0. /\ TypeOK /\ LockInv /\ PendInv /\ WholeInv /\ CopyInv /\ StateInv
      /\ WroteInv /\ AllOrNothing
  BY DEF IInv
<1>1. /\ run'[p] = r
      /\ \A q \in Procs \ {p} : run'[q] = run[q]
      /\ locks'[k] = p /\ \A j \in Keys \ {k} : locks'[j] = locks[j]
  BY <1>0 DEF TypeOK
<1>2. TypeOK'
  BY <1>0 DEF TypeOK
<1>3. LockInv'
  BY <1>0, <1>1, NoneAssumption DEF LockInv, Free
<1>4. PendInv' /\ WholeInv'
  BY <1>0, <1>1 DEF PendInv, Extends, WholeInv, Whole
<1>5. CopyInv'
  <2>1. \A q : \A j : Seen(q, j)' = Seen(q, j)
    BY DEF Seen
  <2> QED
    BY <1>0, <1>1, <2>1 DEF CopyInv
<1>6. StateInv' /\ WroteInv'
  BY <1>0, <1>1 DEF StateInv, WroteInv
<1>7. AllOrNothing'
  <2>1. run[p].result = "none"
    BY <1>0 DEF StateInv, TypeOK, Run
  <2> QED
    BY <1>0, <1>1, <2>1 DEF AllOrNothing, Committed
<1> QED
  BY <1>2, <1>3, <1>4, <1>5, <1>6, <1>7 DEF IInv

-----------------------------------------------------------------------------
(* Every step is one of the four *)

LEMMA RunTypes ==
  ASSUME TypeOK, NEW p \in Procs
  PROVE  /\ run[p] \in Run
         /\ run[p].result = "none" /\ run[p].steps < MaxSteps => Stepped(p) \in Run
<1> USE BoundsAssumption
<1>1. run[p] \in Run
  BY DEF TypeOK
<1> QED
  BY <1>1 DEF Run, Stepped

\* What a run that is over looks like.
LEMMA OverRun ==
  ASSUME TypeOK, NEW p \in Procs, NEW x \in {"nil", "error", "unknown", "panic"}
  PROVE  /\ Over(p, x) \in Run
         /\ Over(p, x).tx = "none" /\ Over(p, x).depth = 0
         /\ Over(p, x).result = x /\ Over(p, x).copy = NONE
         /\ Over(p, x).wrote = run[p].wrote
<1>1. run[p] \in Run /\ 0 \in 0..MaxDepth
  BY BoundsAssumption DEF TypeOK
<1>2. Over(p, x) \in Run
  BY <1>1 DEF Run, Over
<1> QED
  BY <1>1, <1>2 DEF Run, Over

LEMMA ErrorState ==
  ASSUME TypeOK, NEW p \in Procs, CanStep(p)
  PROVE  LET f == [Stepped(p) EXCEPT !.error = TRUE] IN
         /\ f \in Run /\ f.tx = run[p].tx /\ f.result = "none" /\ f.error
         /\ f.wrote = run[p].wrote /\ f.copy = run[p].copy /\ f.key = run[p].key
         /\ f.depth = run[p].depth
<1>1. Stepped(p) \in Run /\ run[p] \in Run /\ run[p].result = "none"
  BY RunTypes DEF CanStep, TypeOK
<1> QED
  BY <1>1 DEF Stepped, Run

\* A statement that writes row k keeps the invariant, if what it writes extends
\* the row it finds.
LEMMA WriteKeeps ==
  ASSUME IInv, NEW p \in Procs, NEW k, NEW hit \in BOOLEAN, NEW s, NEW r,
         Write(p, k, hit, s, r),
         run[p].tx = "open" => k \in Keys,
         run[p].tx = "open" /\ hit =>
           /\ s \in Row /\ Extends(Seen(p, k), s, p) /\ Whole(s)
           /\ r \in Run /\ r.tx = run[p].tx /\ r.depth = run[p].depth
           /\ r.result = "none"
           /\ r.wrote = IF p \in s.by THEN run[p].wrote \cup {k} ELSE run[p].wrote
           /\ \/ r.copy = NONE
              \/ /\ r.copy = run[p].copy /\ r.key = run[p].key
                 /\ s.version = Seen(p, k).version
  PROVE  IInv' /\ UNCHANGED rows
<1>0. TypeOK /\ StateInv /\ CanStep(p)
  BY DEF IInv, Write
<1> DEFINE f == [Stepped(p) EXCEPT !.error = TRUE]
<1>1. /\ f \in Run /\ f.tx = run[p].tx /\ f.result = "none" /\ f.error
      /\ f.wrote = run[p].wrote /\ f.copy = run[p].copy /\ f.key = run[p].key
      /\ f.depth = run[p].depth
  BY <1>0, ErrorState
<1>2. /\ run[p].tx # "gone" /\ run[p].result = "none"
      /\ run[p].tx = "none" <=> run[p].depth = 0
  BY <1>0 DEF StateInv, CanStep
<1>3. \/ Goto(p, f) /\ UNCHANGED <<rows, locks, pend>>
      \/ /\ run[p].tx = "open" /\ Free(p, k)
         /\ locks' = [locks EXCEPT ![k] = p]
         /\ pend' = IF hit THEN [pend EXCEPT ![p][k] = s] ELSE pend
         /\ Goto(p, IF hit THEN r ELSE f)
         /\ UNCHANGED rows
  BY <1>2 DEF Write
<1> HIDE DEF f
<1>4. CASE Goto(p, f) /\ UNCHANGED <<rows, locks, pend>>
  BY <1>1, <1>2, <1>4, LocalStep DEF Goto
<1>5. CASE /\ run[p].tx = "open" /\ Free(p, k)
           /\ locks' = [locks EXCEPT ![k] = p]
           /\ pend' = IF hit THEN [pend EXCEPT ![p][k] = s] ELSE pend
           /\ Goto(p, IF hit THEN r ELSE f)
           /\ UNCHANGED rows
  <2>1. CASE hit
    <3>1. /\ run' = [run EXCEPT ![p] = r] /\ pend' = [pend EXCEPT ![p][k] = s]
          /\ s \in Row /\ r \in Run
      BY <1>5, <2>1 DEF Goto
    <3> QED
      BY <1>2, <1>5, <2>1, <3>1, WriteStep
  <2>2. CASE ~hit
    <3>1. run' = [run EXCEPT ![p] = f] /\ UNCHANGED <<rows, pend>>
      BY <1>5, <2>2 DEF Goto
    <3> QED
      BY <1>1, <1>2, <1>5, <3>1, LockStep
  <2> QED
    BY <2>1, <2>2
<1> QED
  BY <1>3, <1>4, <1>5

\* The state of a run that has been told of its update.
LEMMA ToldRun ==
  ASSUME IInv, NEW p \in Procs, NEW k \in Keys, CanStep(p)
  PROVE  /\ Told(p, k) \in Run /\ Told(p, k).tx = run[p].tx
         /\ Told(p, k).depth = run[p].depth /\ Told(p, k).result = "none"
         /\ Told(p, k).wrote = run[p].wrote \cup {k}
         /\ Told(p, k).copy = run[p].copy /\ Told(p, k).key = run[p].key
<1>1. /\ run[p] \in Run /\ Stepped(p) \in Run /\ run[p].result = "none"
  BY RunTypes DEF IInv, TypeOK, CanStep
<1> QED
  BY <1>1 DEF Told, Stepped, Run

LEMMA UpdateKeeps ==
  ASSUME IInv, NEW p \in Procs, Update(p)
  PROVE  IInv' /\ UNCHANGED rows
<1>0. TypeOK /\ WholeInv /\ CopyInv /\ StateInv
  BY DEF IInv
<1> DEFINE k == run[p].key
           s == Seen(p, k)
           u == Updated(p, k)
           w == Wrote(p, k)
           hit == s.live /\ s.version = run[p].copy.version
<1>1. Write(p, k, hit, u, w) /\ run[p].copy # NONE
  BY DEF Update
<1>2. CanStep(p) /\ run[p].copy \in Row
  BY <1>0, <1>1 DEF Write, TypeOK, Run
<1>3. CASE run[p].tx = "open"
  <2>1. k \in Keys
    BY <1>0, <1>1, <1>3 DEF CopyInv
  <2>2. s \in Row /\ Whole(s)
    BY <1>0, <2>1 DEF Seen, TypeOK, WholeInv
  <2>3. hit => s.bare \/ run[p].copy.ops = s.ops
    BY <1>0, <1>1, <1>3 DEF CopyInv
  <2>4. /\ w \in Run /\ w.tx = run[p].tx /\ w.depth = run[p].depth
        /\ w.result = "none" /\ w.wrote = run[p].wrote \cup {k} /\ w.copy = NONE
    <3>1. Told(p, k) \in Run
      BY <1>2, <2>1, ToldRun
    <3>2. w = [Told(p, k) EXCEPT !.copy = NONE, !.key = NONE]
      BY DEF Wrote
    <3> HIDE DEF w, k
    <3> QED
      BY <1>2, <2>1, <3>1, <3>2, ToldRun DEF Run
  <2>5. u = [s EXCEPT !.version = s.version + 1, !.ops = run[p].copy.ops \cup {p},
                      !.by = s.by \cup {p}]
    BY <2>2 DEF Updated, Row
  <2> HIDE DEF s, u, w
  <2>6. /\ u \in Row /\ u.version = s.version + 1 /\ u.live = s.live
        /\ u.ops = run[p].copy.ops \cup {p} /\ u.by = s.by \cup {p}
        /\ u.bare = s.bare /\ s.version \in Nat
    <3>1. run[p].copy.ops \cup {p} \in SUBSET Procs
      BY <1>2 DEF Row
    <3>2. /\ s.by \cup {p} \in SUBSET Procs /\ s.version \in Nat
          /\ s.version + 1 \in Nat
      BY <2>2 DEF Row
    <3> QED
      BY <2>2, <2>5, <3>1, <3>2 DEF Row
  <2>7. hit => Extends(s, u, p) /\ Whole(u)
    BY <2>2, <2>3, <2>6 DEF Extends, Whole
  <2>8. hit \in BOOLEAN
    BY <2>2 DEF Row
  <2> HIDE DEF hit, k
  <2> QED
    BY <1>1, <1>3, <2>1, <2>4, <2>6, <2>7, <2>8, WriteKeeps DEF s
<1>4. CASE run[p].tx # "open"
  <2>1. Write(p, k, FALSE, u, w)
    BY <1>0, <1>1, <1>4 DEF Write, StateInv, CanStep
  <2> HIDE DEF hit, k, u, w
  <2> QED
    BY <1>4, <2>1, WriteKeeps
<1> QED
  BY <1>3, <1>4

\* An update without a version, of what it has read or of one column.
LEMMA BareKeeps ==
  ASSUME IInv, NEW p \in Procs, NEW k, NEW hit \in BOOLEAN,
         NEW kept \in SUBSET Procs, run[p].tx = "open" => k \in Keys,
         Write(p, k, hit, Overwritten(p, k, kept), Told(p, k))
  PROVE  IInv' /\ UNCHANGED rows
<1>0. TypeOK /\ StateInv /\ CanStep(p)
  BY DEF IInv, Write
<1> DEFINE s == Seen(p, k)
           u == Overwritten(p, k, kept)
           t == Told(p, k)
<1>1. Write(p, k, hit, u, t)
  OBVIOUS
<1>2. CASE run[p].tx = "open"
  <2>1. s \in Row
    BY <1>0, <1>2 DEF Seen, TypeOK
  <2>2. /\ t \in Run /\ t.tx = run[p].tx /\ t.depth = run[p].depth
        /\ t.result = "none" /\ t.wrote = run[p].wrote \cup {k}
        /\ t.copy = run[p].copy /\ t.key = run[p].key
    BY <1>0, <1>2, ToldRun
  <2>3. u = [s EXCEPT !.ops = kept \cup {p}, !.by = s.by \cup {p}, !.bare = TRUE]
    BY <2>1 DEF Overwritten, Row
  <2> HIDE DEF s, u, t
  <2>4. /\ u \in Row /\ u.version = s.version /\ u.live = s.live
        /\ u.by = s.by \cup {p} /\ u.bare /\ s.version \in Nat
    BY <2>1, <2>3 DEF Row
  <2>5. Extends(s, u, p) /\ Whole(u)
    BY <2>1, <2>4 DEF Extends, Whole
  <2> QED
    BY <1>1, <1>2, <2>2, <2>4, <2>5, WriteKeeps DEF s
<1>3. CASE run[p].tx # "open"
  <2> HIDE DEF s, u, t
  <2> QED
    BY <1>1, <1>3, WriteKeeps
<1> QED
  BY <1>2, <1>3

LEMMA UpdateBareKeeps ==
  ASSUME IInv, NEW p \in Procs, UpdateBare(p)
  PROVE  IInv' /\ UNCHANGED rows
<1>0. TypeOK /\ CopyInv /\ StateInv
  BY DEF IInv
<1> DEFINE k == run[p].key
           kept == run[p].copy.ops
<1>1. PICK changes \in BOOLEAN :
        Write(p, k, Seen(p, k).live /\ changes, Overwritten(p, k, kept), Told(p, k))
  BY DEF UpdateBare
<1>2. run[p].copy # NONE
  BY DEF UpdateBare
<1>3. kept \in SUBSET Procs
  BY <1>0, <1>2 DEF TypeOK, Run, Row
<1>4. CASE run[p].tx = "open"
  <2>1. k \in Keys
    BY <1>0, <1>2, <1>4 DEF CopyInv
  <2>2. Seen(p, k) \in Row
    BY <1>0, <2>1 DEF Seen, TypeOK
  <2>3. (Seen(p, k).live /\ changes) \in BOOLEAN
    BY <2>2 DEF Row
  <2> HIDE DEF k, kept
  <2> QED
    BY <1>1, <1>3, <2>1, <2>3, BareKeeps
<1>5. CASE run[p].tx # "open"
  <2>1. Write(p, k, FALSE, Overwritten(p, k, kept), Told(p, k))
    BY <1>0, <1>1, <1>5 DEF Write, StateInv, CanStep
  <2> HIDE DEF k, kept
  <2> QED
    BY <1>3, <1>5, <2>1, BareKeeps
<1> QED
  BY <1>4, <1>5

LEMMA UpdateColumnKeeps ==
  ASSUME IInv, NEW p \in Procs, NEW k \in Keys, UpdateColumn(p, k)
  PROVE  IInv' /\ UNCHANGED rows
<1>1. Seen(p, k) \in Row
  BY DEF IInv, TypeOK, Seen
<1>2. PICK kept \in SUBSET Seen(p, k).ops, changes \in BOOLEAN :
        Write(p, k, Seen(p, k).live /\ changes, Overwritten(p, k, kept), Told(p, k))
  BY DEF UpdateColumn
<1>3. kept \in SUBSET Procs /\ (Seen(p, k).live /\ changes) \in BOOLEAN
  BY <1>1, <1>2 DEF Row
<1> QED
  BY <1>2, <1>3, BareKeeps

LEMMA DeleteKeeps ==
  ASSUME IInv, NEW p \in Procs, NEW k \in Keys, Delete(p, k)
  PROVE  IInv' /\ UNCHANGED rows
<1>0. TypeOK /\ WholeInv /\ WroteInv /\ StateInv /\ AllOrNothing
  BY DEF IInv
<1> DEFINE s == [Seen(p, k) EXCEPT !.live = FALSE]
<1>1. Write(p, k, Seen(p, k).live, s, Stepped(p)) /\ CanStep(p)
  BY DEF Delete, Write
<1>2. Seen(p, k) \in Row /\ Whole(Seen(p, k)) /\ Stepped(p) \in Run
  BY <1>0, <1>1, RunTypes DEF Seen, TypeOK, CanStep, WholeInv
<1>3. /\ s \in Row /\ s.ops = Seen(p, k).ops /\ s.version = Seen(p, k).version
      /\ s.by = Seen(p, k).by /\ s.bare = Seen(p, k).bare
      /\ ~s.live /\ Seen(p, k).live \in BOOLEAN
  BY <1>2 DEF Row
<1> HIDE DEF s
<1>4. Extends(Seen(p, k), s, p) /\ Whole(s)
  BY <1>2, <1>3 DEF Extends, Whole, Row
<1>5. /\ Stepped(p).tx = run[p].tx /\ Stepped(p).result = "none"
      /\ Stepped(p).wrote = run[p].wrote /\ Stepped(p).depth = run[p].depth
      /\ Stepped(p).copy = run[p].copy /\ Stepped(p).key = run[p].key
  BY <1>0, <1>1 DEF Stepped, CanStep, TypeOK, Run
<1>6. run[p].tx = "open" /\ p \in s.by => k \in run[p].wrote
  <2>1. p \notin rows[k].by
    BY <1>0, <1>1 DEF AllOrNothing, Committed, CanStep
  <2> QED
    BY <1>0, <1>3, <2>1 DEF WroteInv, Seen
<1> QED
  BY <1>1, <1>2, <1>3, <1>4, <1>5, <1>6, WriteKeeps

LEMMA IInvStep ==
  ASSUME IInv, Careless = FALSE, [Next]_vars
  PROVE  IInv'
<1>0. TypeOK /\ StateInv
  BY DEF IInv
<1>1. ASSUME NEW p \in Procs, NEW k \in Keys, Read(p, k)
      PROVE  IInv'
  <2>1. Stepped(p) \in Run /\ Seen(p, k) \in Row /\ run[p] \in Run
    BY <1>0, <1>1, RunTypes DEF Read, CanStep, Seen, TypeOK
  <2> DEFINE f == [Stepped(p) EXCEPT !.error = TRUE]
             g == [Stepped(p) EXCEPT !.key = k, !.copy = Seen(p, k)]
  <2>2. /\ f \in Run /\ f.tx = run[p].tx /\ f.result = run[p].result /\ f.error
        /\ f.wrote = run[p].wrote /\ f.copy = run[p].copy /\ f.key = run[p].key
        /\ f.depth = run[p].depth /\ g.depth = run[p].depth
        /\ g \in Run /\ g.tx = run[p].tx /\ g.result = run[p].result
        /\ g.error = run[p].error
        /\ g.wrote = run[p].wrote /\ g.copy = Seen(p, k) /\ g.key = k
    BY <2>1 DEF Run, Stepped
  <2>3. run' \in {[run EXCEPT ![p] = f], [run EXCEPT ![p] = g]}
        /\ UNCHANGED <<rows, locks, pend>>
    BY <1>1 DEF Read, Goto
  <2> HIDE DEF f, g
  <2> QED
    BY <1>0, <2>2, <2>3, LocalStep DEF StateInv
<1>2. ASSUME NEW p \in Procs, Error(p)
      PROVE  IInv'
  <2>1. CanStep(p) /\ run[p].result = "none"
        /\ run' = [run EXCEPT ![p] = [Stepped(p) EXCEPT !.error = TRUE]]
        /\ UNCHANGED <<rows, locks, pend>> /\ (run[p].tx = "none" <=> run[p].depth = 0)
    BY <1>0, <1>2 DEF Error, CanStep, Goto, StateInv
  <2> DEFINE f == [Stepped(p) EXCEPT !.error = TRUE]
  <2>2. /\ f \in Run /\ f.tx = run[p].tx /\ f.result = "none" /\ f.error
        /\ f.wrote = run[p].wrote /\ f.copy = run[p].copy /\ f.key = run[p].key
        /\ f.depth = run[p].depth
    BY <1>0, <2>1, ErrorState
  <2>3. run' = [run EXCEPT ![p] = f]
    BY <2>1
  <2>4. /\ UNCHANGED <<rows, locks, pend>> /\ f.result = run[p].result
        /\ f.tx = "none" <=> f.depth = 0
    BY <2>1, <2>2
  <2> HIDE DEF f
  <2> QED
    BY <2>2, <2>3, <2>4, LocalStep
<1>3. ASSUME NEW p \in Procs, NEW k \in Keys, LockVictim(p, k)
      PROVE  IInv'
  <2> DEFINE f == [Stepped(p) EXCEPT !.tx = "gone", !.error = TRUE]
  <2>1. /\ run' = [run EXCEPT ![p] = f] /\ Discard(p) /\ CanStep(p)
        /\ run[p].tx = "open" /\ run[p].result = "none"
    BY <1>3 DEF LockVictim, Goto, CanStep
  <2>2. Stepped(p) \in Run /\ run[p].depth # 0
    BY <1>0, <2>1, RunTypes DEF CanStep, StateInv
  <2>3. /\ f \in Run /\ f.tx = "gone" /\ f.error /\ f.result = "none"
        /\ f.depth # 0
    BY <2>1, <2>2 DEF Run, Stepped
  <2> HIDE DEF f
  <2> QED
    BY <2>1, <2>3, DiscardStep
<1>4. ASSUME NEW p \in Procs, Cancel(p)
      PROVE  IInv'
  <2> DEFINE f == [run[p] EXCEPT !.tx = "closed"]
  <2>1. /\ run' = [run EXCEPT ![p] = f] /\ Discard(p)
        /\ run[p].tx = "open" /\ run[p].result = "none"
    BY <1>0, <1>4 DEF Cancel, Goto, StateInv, TypeOK, Run
  <2>0. run[p] \in Run /\ run[p].depth # 0
    BY <1>0, <2>1 DEF TypeOK, StateInv
  <2>2. f \in Run /\ f.tx = "closed" /\ f.result = "none" /\ f.depth # 0
    BY <2>0, <2>1 DEF Run
  <2> HIDE DEF f
  <2> QED
    BY <2>1, <2>2, DiscardStep
<1>5. ASSUME NEW p \in Procs, Begin(p) \/ Join(p) \/ Ignore(p) \/ InnerReturns(p)
      PROVE  IInv'
  <2> DEFINE a == [Stepped(p) EXCEPT !.depth = 1, !.tx = "open"]
             b == Over(p, "error")
             c == [Stepped(p) EXCEPT !.depth = @ + 1]
             d == [run[p] EXCEPT !.error = FALSE]
             e == [run[p] EXCEPT !.depth = @ - 1]
             f == [run[p] EXCEPT !.depth = @ - 1, !.error = TRUE, !.inner = TRUE]
  <2>0. /\ run[p] \in Run
        /\ run[p].tx = "none" <=> run[p].depth = 0
        /\ run[p].result # "none" => run[p].tx = "none"
        /\ run[p].tx = "gone" => run[p].error
        /\ UNCHANGED <<rows, locks, pend>>
    BY <1>0, <1>5 DEF TypeOK, StateInv, Begin, Join, Ignore, InnerReturns
  <2>1. CASE Begin(p)
    <3>1. /\ Stepped(p) \in Run /\ b \in Run /\ run[p].result = "none"
          /\ run[p].tx = "none" /\ 1 \in 0..MaxDepth
      BY <1>0, <2>0, <2>1, RunTypes, OverRun, BoundsAssumption DEF Begin, CanStep
    <3>2. /\ a \in Run /\ a.tx = "open" /\ a.depth # 0 /\ a.result = "none"
          /\ a.wrote = run[p].wrote /\ a.copy = run[p].copy /\ a.key = run[p].key
      <4>1. a \in Run
        BY <3>1 DEF Run
      <4> QED
        BY <2>0, <3>1, <4>1 DEF Run, Stepped
    <3>3. /\ b.tx = "none" /\ b.depth = 0 /\ b.result = "error"
          /\ b.wrote = run[p].wrote /\ b.copy = NONE
      BY <1>0, OverRun
    <3>4. run' \in {[run EXCEPT ![p] = a], [run EXCEPT ![p] = b]}
      BY <2>1 DEF Begin, Goto
    <3> HIDE DEF a, b
    <3> QED
      BY <2>0, <3>1, <3>2, <3>3, <3>4, LocalStep
  <2>2. CASE Join(p)
    <3>1. /\ Stepped(p) \in Run /\ run[p].depth \in 1..(MaxDepth - 1)
          /\ run' = [run EXCEPT ![p] = c]
      BY <1>0, <2>2, RunTypes DEF Join, CanStep, Goto
    <3>2. /\ c \in Run /\ c.tx = run[p].tx /\ c.depth # 0
          /\ c.result = run[p].result /\ c.error = run[p].error
          /\ c.wrote = run[p].wrote /\ c.copy = run[p].copy /\ c.key = run[p].key
      <4>1. run[p].depth + 1 \in 1..MaxDepth
        BY <3>1, BoundsAssumption
      <4>2. /\ Stepped(p).tx = run[p].tx /\ Stepped(p).depth = run[p].depth
            /\ Stepped(p).result = run[p].result /\ Stepped(p).error = run[p].error
            /\ Stepped(p).wrote = run[p].wrote /\ Stepped(p).copy = run[p].copy
            /\ Stepped(p).key = run[p].key
        BY <2>0 DEF Stepped, Run
      <4> HIDE DEF Stepped
      <4>3. c = [Stepped(p) EXCEPT !.depth = run[p].depth + 1]
        BY <4>2
      <4> QED
        BY <3>1, <4>1, <4>2, <4>3 DEF Run
    <3>3. c.tx = "none" <=> c.depth = 0
      BY <2>0, <3>1, <3>2
    <3> HIDE DEF c
    <3> QED
      BY <2>0, <3>1, <3>2, <3>3, LocalStep
  <2>3. CASE Ignore(p)
    <3>1. run[p].tx # "gone" /\ run' = [run EXCEPT ![p] = d]
      BY <2>3 DEF Ignore, Goto
    <3>2. /\ d \in Run /\ d.tx = run[p].tx /\ d.depth = run[p].depth
          /\ d.result = run[p].result
          /\ d.wrote = run[p].wrote /\ d.copy = run[p].copy /\ d.key = run[p].key
      BY <2>0 DEF Run
    <3> HIDE DEF d
    <3> QED
      BY <2>0, <3>1, <3>2, LocalStep
  <2>4. CASE InnerReturns(p)
    <3>1. /\ run[p].depth \in 2..MaxDepth
          /\ run' \in {[run EXCEPT ![p] = e], [run EXCEPT ![p] = f]}
          /\ run' = [run EXCEPT ![p] = f] \/ ~run[p].error
      BY <2>0, <2>4, BoundsAssumption DEF InnerReturns, Goto, Run
    <3>2. /\ e \in Run /\ e.tx = run[p].tx /\ e.depth # 0
          /\ e.result = run[p].result /\ e.error = run[p].error
          /\ e.wrote = run[p].wrote /\ e.copy = run[p].copy /\ e.key = run[p].key
      <4>1. run[p].depth - 1 \in 1..MaxDepth
        BY <3>1, BoundsAssumption
      <4> QED
        BY <2>0, <4>1 DEF Run
    <3>3. /\ f \in Run /\ f.tx = run[p].tx /\ f.depth # 0
          /\ f.result = run[p].result /\ f.error
          /\ f.wrote = run[p].wrote /\ f.copy = run[p].copy /\ f.key = run[p].key
      <4>1. run[p].depth - 1 \in 1..MaxDepth
        BY <3>1, BoundsAssumption
      <4>2. f = [e EXCEPT !.error = TRUE, !.inner = TRUE]
        BY <2>0, <4>1 DEF Run
      <4> HIDE DEF e, f
      <4> QED
        BY <3>1, <3>2, <4>2 DEF Run
    <3> HIDE DEF e, f
    <3> QED
      BY <2>0, <3>1, <3>2, <3>3, LocalStep
  <2> QED
    BY <1>5, <2>1, <2>2, <2>3, <2>4
<1>6. ASSUME NEW p \in Procs, Commit(p)
      PROVE  IInv'
  <2>1. /\ run[p] \in Run /\ run[p].tx # "none" /\ run[p].result = "none"
        /\ run[p].tx # "gone"
    BY <1>0, <1>6 DEF Commit, TypeOK, StateInv
  <2>2. PICK x \in {"nil", "unknown", "error"} :
          /\ run' = [run EXCEPT ![p] = Over(p, x)]
          /\ \/ x \in {"nil", "unknown"} /\ run[p].tx = "open" /\ Apply(p)
             \/ x \in {"unknown", "error"} /\ Discard(p)
    BY <1>6, <2>1 DEF Commit, Goto
  <2> DEFINE r == Over(p, x)
  <2>3. /\ r \in Run /\ r.tx = "none" /\ r.depth = 0 /\ r.result = x
        /\ r.copy = NONE /\ r.wrote = run[p].wrote
    BY <1>0, OverRun
  <2>4. run' = [run EXCEPT ![p] = r]
    BY <2>2
  <2> HIDE DEF r
  <2> QED
    BY <2>1, <2>2, <2>3, <2>4, ApplyStep, DiscardStep
<1>7. ASSUME NEW p \in Procs, Rollback(p) \/ Panic(p)
      PROVE  IInv'
  <2>1. /\ run[p] \in Run /\ run[p].tx # "none" /\ run[p].result = "none"
    BY <1>0, <1>7, BoundsAssumption DEF Rollback, Panic, TypeOK, StateInv, Run
  <2>2. PICK x \in {"error", "panic"} :
          run' = [run EXCEPT ![p] = Over(p, x)] /\ Discard(p)
    BY <1>7 DEF Rollback, Panic, Goto
  <2> DEFINE r == Over(p, x)
  <2>3. /\ r \in Run /\ r.tx = "none" /\ r.depth = 0 /\ r.result = x
        /\ r.copy = NONE
    BY <1>0, OverRun
  <2>4. run' = [run EXCEPT ![p] = r]
    BY <2>2
  <2> HIDE DEF r
  <2> QED
    BY <2>1, <2>2, <2>3, <2>4, DiscardStep
<1>8. CASE UNCHANGED vars
  <2>1. UNCHANGED <<rows, locks, pend, run>>
    BY <1>8 DEF vars
  <2>2. (TypeOK /\ StateInv)' /\ (LockInv /\ WroteInv)'
    BY <2>1 DEF IInv, TypeOK, StateInv, LockInv, WroteInv
  <2>3. PendInv' /\ WholeInv'
    BY <2>1 DEF IInv, PendInv, Extends, WholeInv, Whole
  <2>4. CopyInv'
    BY <2>1 DEF IInv, CopyInv, Seen
  <2>5. AllOrNothing'
    BY <2>1 DEF IInv, AllOrNothing, Committed
  <2> QED
    BY <2>2, <2>3, <2>4, <2>5 DEF IInv
<1> QED
  BY <1>1, <1>2, <1>3, <1>4, <1>5, <1>6, <1>7, <1>8, UpdateKeeps,
     UpdateBareKeeps, UpdateColumnKeeps, DeleteKeeps
     DEF Next, Statement, Within, UpdateNothing, StatementFails

-----------------------------------------------------------------------------
(* Results *)

THEOREM Invariance == ASSUME Careless = FALSE PROVE Spec => []IInv
<1>1. IInv /\ [Next]_vars => IInv'
  BY IInvStep
<1> QED
  BY IInvInit, <1>1, PTL DEF Spec

\* Type correctness of every run of Within.
THEOREM TransactionsTypeCorrect ==
  ASSUME Careless = FALSE PROVE Spec => []TypeOK
<1>1. IInv => TypeOK
  BY DEF IInv
<1> QED
  BY Invariance, <1>1, PTL

\* Handle.Within is atomic at any depth of nesting and whatever fails: after nil
\* every update the function made is committed, after an error or a panic none,
\* after a failed commit all or none.
THEOREM WithinIsAtomic ==
  ASSUME Careless = FALSE PROVE Spec => []AllOrNothing
<1>1. IInv => AllOrNothing
  BY DEF IInv
<1> QED
  BY Invariance, <1>1, PTL

\* However Within ends, panics included, it leaves no lock and no write behind.
THEOREM NothingStaysOpen ==
  ASSUME Careless = FALSE PROVE Spec => []NothingLeftOpen
<1>1. IInv => NothingLeftOpen
  <2> SUFFICES ASSUME IInv, NEW p \in Procs, run[p].result # "none"
               PROVE  (\A k \in Keys : locks[k] # p) /\ pend[p] = NoWrites
    BY DEF NothingLeftOpen
  <2>1. run[p].tx # "open" /\ \A k \in Keys : locks[k] # p /\ pend[p][k] = NONE
    BY DEF IInv, StateInv, LockInv
  <2>2. pend[p] \in [Keys -> Row \cup {NONE}]
    BY DEF IInv, TypeOK
  <2> QED
    BY <2>1, <2>2 DEF NoWrites
<1> QED
  BY Invariance, <1>1, PTL

\* Updates that check the version they read never overwrite one another, for
\* any number of transactions, reads before or across them included: a row that
\* lacks an update made of it was updated without a version.
THEOREM NoUpdateLost == ASSUME Careless = FALSE PROVE Spec => []NoLostUpdate
<1>1. IInv => NoLostUpdate
  BY DEF IInv, WholeInv, Whole, NoLostUpdate
<1> QED
  BY Invariance, <1>1, PTL

\* The committed rows change by the commit of one transaction only.
LEMMA RowsStep ==
  ASSUME IInv, Careless = FALSE, [Next]_vars, rows' # rows
  PROVE  \E p \in Procs : Apply(p)
<1>1. ASSUME NEW p \in Procs, NEW k \in Keys, Read(p, k) \/ LockVictim(p, k)
      PROVE  UNCHANGED rows
  BY <1>1 DEF Read, LockVictim, Discard
<1>2. ASSUME NEW p \in Procs,
             \/ Error(p) \/ Begin(p) \/ Join(p) \/ Ignore(p)
             \/ InnerReturns(p) \/ Rollback(p) \/ Panic(p) \/ Cancel(p)
      PROVE  UNCHANGED rows
  BY <1>2 DEF Error, Begin, Join, Ignore, InnerReturns, Rollback, Panic,
              Cancel, Discard
<1>3. ASSUME NEW p \in Procs, Commit(p)
      PROVE  Apply(p) \/ UNCHANGED rows
  BY <1>3 DEF Commit, Discard
<1> QED
  BY <1>1, <1>2, <1>3, UpdateKeeps, UpdateBareKeeps, UpdateColumnKeeps, DeleteKeeps
     DEF Next, Statement, Within, UpdateNothing, StatementFails, vars

LEMMA RowsExtend ==
  ASSUME IInv, Careless = FALSE, [Next]_vars, NEW k \in Keys
  PROVE  rows'[k].live => rows[k].live
<1>1. CASE UNCHANGED rows
  BY <1>1
<1>2. CASE rows' # rows
  <2>1. PICK p \in Procs : Apply(p)
    BY <1>2, RowsStep
  <2> QED
    BY <2>1, CommitExtends DEF Extends
<1> QED
  BY <1>1, <1>2

\* A logical deletion is final, although it leaves the version as it was.
THEOREM DeletedRowsStay == ASSUME Careless = FALSE PROVE Spec => DeletedStaysDeleted
<1>1. IInv /\ [Next]_vars => [\A k \in Keys : rows'[k].live => rows[k].live]_vars
  BY RowsExtend
<1> QED
  BY Invariance, <1>1, PTL DEF Spec, DeletedStaysDeleted
=============================================================================
