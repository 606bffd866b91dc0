--------------------------- MODULE SaTokenOverlap ---------------------------
(***************************************************************************)
(* SaToken with a history of overlap: which requests were already running  *)
(* when a newer Account-Session was stored.  Every handler reads the whole *)
(* session, changes its copy and writes it back unlocked, so these are the *)
(* requests that may still put an older permission snapshot in its place.  *)
(***************************************************************************)
EXTENDS SaToken

VARIABLE behind   \* handlers whose request began before the last newer snapshot

ovars == <<vars, behind>>

\* The version of the business data in a stored value; 0 without a session.
Version(s) == IF s = NONE THEN 0 ELSE s.data

\* The step stores a snapshot newer than the one that was there.
StoresNewer ==
  \E u \in Users : session'[u] # NONE /\ Version(session'[u]) > Version(session[u])

Running == {p \in Procs : req[p].pc # "idle"}

Watch == behind' = (behind \cup IF StoresNewer THEN Running ELSE {}) \cap Running'

OverlapInit == Init /\ behind = {}

OverlapSpec == OverlapInit /\ [][Next /\ Watch]_ovars

\* Business data is only ever rolled back by a request that was running when
\* the newer snapshot was stored: a login, kick, renewal, logout or save that
\* comes in later never replaces an Account-Session by one with older
\* permissions, whatever overlaps, fails or expires (saveSession overwrites the
\* key with the copy, logic.go:293 and 376).
RollbackOnlyByOverlap ==
  [][\A u \in Users :
       session[u] # NONE /\ session'[u] # NONE
         /\ session'[u].data < session[u].data
       => \E p \in behind : req'[p] # req[p]]_ovars
=============================================================================
