----------------------------- MODULE MCIdentity -----------------------------
(* Two families of behaviours: a repository of an earlier revision is started *)
(* and migrated, and one of the current revision changes its identity.        *)
EXTENDS Identity, SequencesExt

CONSTANTS R1, R2, Q, U, D, Key, First

MCRetired0 == {R1, R2}
MCRetired2 == {Q}
MCDefaults == <<D>>

\* Lists without repetition of at most three addresses of every kind.
Lists == {l \in UNION {[1..n -> {R1, R2, Q, U, D}] : n \in 0..3} :
            \A i, j \in DOMAIN l : i # j => l[i] # l[j]}

Old ==
    \E rev \in 0..2, l \in Lists : (rev > 0 => ToSet(l) \cap Retired0 = {}) /\ IdentityInit(rev, l, 0, Key, First, MaxCalls)

Current ==
    /\ IdentityInit(CurrentConfigRevision, MCDefaults, 1, Key, First, 0)
    /\ foreign = FALSE /\ ipfs.old = FALSE

MCSpec == (Old \/ Current) /\ [][IdentityNext]_identityVars /\ Fair

=============================================================================
