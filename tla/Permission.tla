----------------------------- MODULE Permission -----------------------------
(***************************************************************************)
(* Who may do what (src/permission/permission.go with CheckPermission and  *)
(* CheckRole of src/satoken/logic.go).  A session is its two lists of      *)
(* codes, or NIL; an actor is a session and a checker, or NIL; a checker   *)
(* is "absent" (nil), "idle" (no satoken.Logic) or "ready".  A check that  *)
(* returns nil is TRUE, one that returns apperr.Forbidden FALSE.           *)
(***************************************************************************)
EXTENDS Naturals, Sequences

CONSTANTS NIL, RootRoleID, NoCode   \* a nil pointer, the code "root", and ""

Has(list, code) == \E i \in DOMAIN list : list[i] = code

\* Logic.CheckPermission, Logic.CheckRole
Granted(session, code) ==
  session # NIL /\ code # NoCode /\ Has(session.permissions, code)
CheckRole(session, role) ==
  session # NIL /\ role # NoCode /\ Has(session.roles, role)

IsRootSession(session) == session # NIL /\ Has(session.roles, RootRoleID)

\* Checker.CheckPermission
CheckPermission(checker, session, code) ==
  \/ IsRootSession(session)
  \/ /\ checker = "ready" /\ session # NIL /\ code # NoCode
     /\ Granted(session, code)

IsRoot(actor) == actor # NIL /\ IsRootSession(actor.session)

RequirePermission(actor, code) ==
  /\ actor # NIL
  /\ \/ IsRoot(actor)
     \/ actor.checker # "absent" /\ CheckPermission(actor.checker, actor.session, code)

\* The loop returns at the first refusal; no codes, no refusal.
RequireAllPermissions(actor, codes) ==
  \A i \in DOMAIN codes : RequirePermission(actor, codes[i])

\* MUTANT: an empty group asks for nothing
RequireAnyPermissionOrNone(actor, codes) ==
  /\ actor # NIL
  /\ \/ IsRoot(actor) \/ codes = <<>>
     \/ \E i \in DOMAIN codes : CheckPermission(actor.checker, actor.session, codes[i])

\* The loop returns at the first code that is granted; root passes the empty
\* list, nobody else does.
RequireAnyPermission(actor, codes) ==
  /\ actor # NIL
  /\ \/ IsRoot(actor)
     \/ /\ codes # <<>> /\ actor.checker # "absent"
        /\ \E i \in DOMAIN codes : CheckPermission(actor.checker, actor.session, codes[i])

\* All groups, any code of a group.
RequirePermissionGroups(actor, groups) ==
  \A i \in DOMAIN groups : RequireAnyPermission(actor, groups[i])
=============================================================================
