-------------------------- MODULE MCDatasetWrite --------------------------
(***************************************************************************)
(* Calls of CreateDataset in three families: every shape of a package,     *)
(* every difference to a previous version, every short body.               *)
(***************************************************************************)
EXTENDS DatasetWrite

CONSTANTS MaxRows  \* BOUND: rows of a body

Version(m, t, r, v, b, f) ==
  [meta |-> m, transform |-> t, readme |-> r, viz |-> v, body |-> b, form |-> f]

Bit == {0, 1}

NoVersion == Version(0, 0, 0, 0, <<>>, 0)

Call == [ds |-> NoVersion, prev |-> NoVersion, hasPrev |-> FALSE, valid |-> TRUE,
         readable |-> TRUE, strict |-> FALSE, force |-> FALSE, titled |-> FALSE,
         big |-> FALSE, prevBig |-> FALSE, render |-> FALSE]

Shapes ==
  {[Call EXCEPT !.ds = Version(m, t, r, v, <<"ok">>, 1), !.render = w, !.valid = x] :
     m \in Bit, t \in Bit, r \in Bit, v \in Bit, w \in BOOLEAN, x \in BOOLEAN}

Updates ==
  {[Call EXCEPT !.ds = Version(m, 0, r, 0, <<"ok">>, f), !.hasPrev = TRUE,
                !.prev = Version(n, 0, 1, 0, b, 1),
                !.force = x, !.titled = t, !.big = y.next, !.prevBig = y.prev] :
     m \in 0 .. 2, r \in Bit, f \in {1, 2}, n \in Bit,
     b \in {<<"ok">>, <<"ok", "ok">>, <<"invalid", "ok">>},
     x \in BOOLEAN, t \in BOOLEAN,
     y \in [next : BOOLEAN, prev : BOOLEAN]}

\* The same bytes are not over the limit in one version and below it in another.
Sized(j) == j.ds.body = j.prev.body /\ j.ds.form = j.prev.form /\ j.big => j.prevBig

Bodies ==
  {[Call EXCEPT !.ds = Version(0, 0, 0, 0, b, 1), !.strict = x, !.readable = r] :
     b \in UNION {[1 .. n -> {"ok", "invalid", "broken"}] : n \in 0 .. MaxRows},
     x \in BOOLEAN, r \in BOOLEAN}

MCJobs == Shapes \union {j \in Updates : Sized(j)} \union Bodies
=============================================================================
