------------------------------- MODULE Access -------------------------------
(***************************************************************************)
(* The access policy of a remote: rules saying who may do what to which    *)
(* resource.  Resources and actions are written "a:b:c" and are split at   *)
(* the colons; here they are sequences of names.                           *)
(***************************************************************************)
EXTENDS Integers, Sequences, FiniteSetsExt

matchAll     == "*"
matchSubject == "_subject"

\* ParseResource and ParseAction: a star may only come last.
WellFormed(parts) ==
  /\ parts # <<>>
  /\ \A i \in DOMAIN parts : parts[i] = matchAll => i = Len(parts)

\* Rule.Validate, applied to every rule of a policy file.
ValidRule(rule) ==
  /\ rule.subject # ""
  /\ rule.effect \in {"allow", "deny"}
  /\ rule.resources # {} /\ \A r \in rule.resources : WellFormed(r)
  /\ rule.actions # {}   /\ \A a \in rule.actions : WellFormed(a)

\* The names before the star, which have to match one by one.
Literal(parts) ==
  IF parts[Len(parts)] = matchAll THEN SubSeq(parts, 1, Len(parts) - 1) ELSE parts

\* Resource.Contains.
ResourceContains(r, b, username) ==
  /\ Len(r) <= Len(b)
  /\ \A i \in DOMAIN Literal(r) :
        r[i] = b[i] \/ (r[i] = matchSubject /\ b[i] = username)
  /\ Literal(r) = r => Len(r) = Len(b)

\* Action.Contains: as for resources, without a place for the subject's name.
ActionContains(a, b) ==
  /\ Len(a) <= Len(b)
  /\ \A i \in DOMAIN Literal(a) : a[i] = b[i]
  /\ Literal(a) = a => Len(a) = Len(b)

\* Policy.Enforce: some rule allows it.  Rules that deny are passed over.
Enforce(policy, id, username, resource, action) ==
  \E rule \in policy :
     /\ rule.effect = "allow"
     /\ rule.subject \in {id, matchAll}
     /\ \E r \in rule.resources : ResourceContains(r, resource, username)
     /\ \E a \in rule.actions : ActionContains(a, action)

\* ResourceStrFromRef.
ResourceFromRef(username, name) == <<"dataset", username, name>>
=============================================================================
