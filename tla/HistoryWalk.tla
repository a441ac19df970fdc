---------------------------- MODULE HistoryWalk ----------------------------
(***************************************************************************)
(* Listing the history of a dataset the logbook knows nothing of: a        *)
(* goroutine walks back through the stored versions and hands them to the  *)
(* caller, which gives up after a tenth of a second; and the log that is   *)
(* made afterwards, in the background, from the same walk.                 *)
(*                                                                         *)
(* Version k comes after version k - 1; the newest is Newest.              *)
(***************************************************************************)
EXTENDS Naturals, Integers, Sequences, SequencesExt

CONSTANTS Walkers,      \* requests at once
          Newest,       \* BOUND: versions
          AllVersions   \* "no limit": 1000000 in the code

ASSUME WalkAssumption == Newest \in Nat \ {0} /\ AllVersions \in Nat /\ AllVersions > Newest

VARIABLES here,    \* the versions that can be loaded
          parts,   \* parts[v]: the components version v has
          walks,   \* walks[w]: a listing, its walker and its caller
          made     \* the logs made from the history: sequences of versions, first written first

walkVars == <<here, parts, walks, made>>

Components == {"tf", "md"}
NoWalk == [caller |-> "idle"]

Start(kind, offset, limit) ==
  [kind |-> kind, asked |-> <<offset, limit>>, caller |-> "select", walker |-> "load",
   path |-> Newest, offset |-> offset, limit |-> limit, log |-> <<>>]

-----------------------------------------------------------------------------
\* DatasetLog: without a log (that listing is Logbook's), the versions are walked.
DatasetLog(w, offset, limit) ==
  /\ walks[w] = NoWalk /\ made = <<>>
  /\ walks' = [walks EXCEPT ![w] = Start("list", offset, limit)]
  /\ UNCHANGED <<here, parts, made>>

\* LogMethods.Log: a limit below 1 is 25 (here AllVersions), an offset below 0 is 0.
Log(w, offset, limit) ==
  DatasetLog(w, IF offset < 0 THEN 0 ELSE offset, IF limit <= 0 THEN AllVersions ELSE limit)

\* The walker of StoredHistoricalDatasets: to the version before, or to its end.
Back(k) == IF k.path = 1 THEN [k EXCEPT !.walker = "done"]
           ELSE [k EXCEPT !.walker = "load", !.path = @ - 1, !.offset = @ - 1]

\* MUTANT: the offset is counted down before it is looked at.
LoadsEarly(w) ==
  LET k == walks[w] IN
  /\ k.caller # "idle" /\ k.walker = "load"
  /\ walks' = [walks EXCEPT ![w] = IF k.path \notin here THEN [k EXCEPT !.walker = "gone"]
                                   ELSE IF k.offset <= 1 THEN [k EXCEPT !.walker = "send"] ELSE Back(k)]
  /\ UNCHANGED <<here, parts, made>>

\* A version that cannot be loaded ends the walker without a word to the caller.
Loads(w) ==
  LET k == walks[w] IN
  /\ k.caller # "idle" /\ k.walker = "load"
  /\ walks' = [walks EXCEPT ![w] = IF k.path \notin here THEN [k EXCEPT !.walker = "gone"]
                                   ELSE IF k.offset <= 0 THEN [k EXCEPT !.walker = "send"] ELSE Back(k)]
  /\ UNCHANGED <<here, parts, made>>

\* The channels have no buffer: both sides take the step.
Sends(w) ==
  LET k == walks[w]  sent == [k EXCEPT !.log = Append(@, k.path), !.limit = @ - 1] IN
  /\ k.caller = "select" /\ k.walker = "send"
  /\ walks' = [walks EXCEPT ![w] = IF sent.limit = 0 THEN [sent EXCEPT !.walker = "done"] ELSE Back(sent)]
  /\ UNCHANGED <<here, parts, made>>

Finishes(w) ==
  /\ walks[w].caller = "select" /\ walks[w].walker = "done"
  /\ walks' = [walks EXCEPT ![w].caller = "ok", ![w].walker = "gone"]
  /\ UNCHANGED <<here, parts, made>>

\* ErrDatasetLogTimeout; a walker that has something to say waits from now on.
TimesOut(w) ==
  /\ walks[w].caller = "select"
  /\ walks' = [walks EXCEPT ![w].caller = "timeout"]
  /\ UNCHANGED <<here, parts, made>>

\* The answer is given; a listing of the author's own dataset starts the
\* background walk of constructDatasetLogFromHistory.
Answers(w, own) ==
  LET k == walks[w] IN
  /\ k.caller \in {"ok", "timeout"} /\ k.kind = "list"
  /\ walks' = [walks EXCEPT ![w] = IF k.caller = "ok" /\ own THEN Start("construct", 0, AllVersions) ELSE NoWalk]
  /\ UNCHANGED <<here, parts, made>>

\* ConstructDatasetLog: nothing when the walk failed or a log is there by now.
ChecksLog(w) ==
  LET k == walks[w] IN
  /\ k.caller \in {"ok", "timeout"} /\ k.kind = "construct"
  /\ walks' = [walks EXCEPT ![w] = IF k.caller = "ok" /\ made = <<>> THEN [k EXCEPT !.caller = "write"] ELSE NoWalk]
  /\ UNCHANGED <<here, parts, made>>

\* The versions are written in the order of the walk: the newest first.
WritesLog(w) ==
  /\ walks[w].caller = "write"
  /\ made' = Append(made, walks[w].log)
  /\ walks' = [walks EXCEPT ![w] = NoWalk]
  /\ UNCHANGED <<here, parts>>

-----------------------------------------------------------------------------
(***************************************************************************)
(* Revisions: the nth version, counted from the newest, that has a         *)
(* component.                                                              *)
(***************************************************************************)
\* Every version is a dataset; the components are those it has.
Holds(f, v) == f = "ds" \/ f \in parts[v]

\* sel: at generation 0 the component goes into the result; the dataset itself
\* ("ds") is assigned to the parameter, and the result stays as it was.
sel(rev, v, res) ==
  LET gen == IF Holds(rev.field, v) THEN rev.gen - 1 ELSE rev.gen IN
  [rev |-> [rev EXCEPT !.gen = gen],
   res |-> IF Holds(rev.field, v) /\ gen = 0 /\ rev.field # "ds"
           THEN [res EXCEPT ![rev.field] = v] ELSE res]

NoParts == [f \in Components |-> 0]

\* The i-th revision at version v, after those before it.
selOne(acc, v, i) ==
  LET s == sel(acc.revs[i], v, acc.res) IN
  [revs |-> [acc.revs EXCEPT ![i] = s.rev], res |-> s.res]

\* LoadRevs at version v.  It stops where all revisions are at 0 together, and
\* goes on to the oldest version otherwise; a version that cannot be loaded is
\* an error.
LoadRev(revs, v, st) ==
  IF st.revs = <<>> \/ \A i \in DOMAIN revs : st.revs[i].gen = 0 THEN st
  ELSE IF v \in here THEN FoldLeftDomain(LAMBDA acc, i : selOne(acc, v, i), st, revs)
  ELSE [revs |-> <<>>, res |-> NoParts]

\* LoadRevs: read[n] is what is known after the n newest versions.
LoadRevs(revs) ==
  LET read[n \in 0 .. Newest] ==
        IF n = 0 THEN [revs |-> revs, res |-> NoParts]
        ELSE LoadRev(revs, Newest + 1 - n, read[n - 1])
  IN  read[Newest]

-----------------------------------------------------------------------------
\* A dataset without a log, all of whose versions have every component; or any
\* history of one that has its log.
WalkInit ==
  /\ here \in SUBSET (1 .. Newest) /\ Newest \in here
  /\ parts \in [1 .. Newest -> SUBSET Components]
  /\ walks = [w \in Walkers |-> NoWalk]
  /\ \/ made = <<>> /\ parts = [v \in 1 .. Newest |-> Components]
     \/ made = <<[i \in 1 .. Newest |-> i]>>

WalkNext ==
  \E w \in Walkers :
    \/ \E offset \in -1 .. Newest, limit \in 0 .. Newest : Log(w, offset, limit)
    \/ Loads(w) \/ Sends(w) \/ Finishes(w) \/ TimesOut(w)
    \/ \E own \in BOOLEAN : Answers(w, own)
    \/ ChecksLog(w) \/ WritesLog(w)

WalkSpec == WalkInit /\ [][WalkNext]_walkVars

-----------------------------------------------------------------------------
\* The versions from the newest on, without the first "offset", at most "limit".
Slice(offset, limit) ==
  LET all == [i \in 1 .. Newest |-> Newest + 1 - i]
      to  == IF offset + limit < Newest THEN offset + limit ELSE Newest
  IN  IF offset >= Newest THEN <<>> ELSE SubSeq(all, offset + 1, to)

\* The sequence has every version, once.
HoldsAll(s) == Len(s) = Newest /\ \A v \in 1 .. Newest : \E i \in 1 .. Newest : s[i] = v

\* A listing that reports no error is exactly the page that was asked for, newest
\* first, and one that timed out is the beginning of it: no version twice, none
\* left out, whatever is missing from the store and however the walker and the
\* caller interleave; and a log that is made from history holds every version
\* once (base.StoredHistoricalDatasets, constructDatasetLogFromHistory).  Of its
\* order nothing is said: ConstructDatasetLog asks for the oldest first
\* (logbook.go:1111) and is given the walk, newest first (WritesLog).
WalkExact ==
  /\ \A w \in Walkers : walks[w] # NoWalk =>
       LET k == walks[w]  page == Slice(k.asked[1], k.asked[2]) IN
       /\ IsPrefix(k.log, page)
       /\ k.caller \in {"ok", "write"} => k.log = page
  /\ \A i \in DOMAIN made : HoldsAll(made[i])

\* The n-th version from the newest that has the component, 0 when there is none.
NthWith(field, n) ==
  LET with == {v \in 1 .. Newest : Holds(field, v)}
      hit  == {v \in with : Cardinality({u \in with : u >= v}) = n}
  IN  IF hit = {} THEN 0 ELSE CHOOSE v \in hit : TRUE

\* What LoadRevs returns for a component is the generation that was asked for,
\* also when two revisions are asked for at once and one is found long before
\* the other, be the other of the whole dataset, for which nothing is returned
\* (base.LoadRevs, sel).
RevsExact ==
  \A fs \in {<<"tf", "md">>, <<"ds", "md">>, <<"tf", "ds">>}, a, b \in 1 .. 2 :
    LET revs == <<[field |-> fs[1], gen |-> a], [field |-> fs[2], gen |-> b]>>
        got  == LoadRevs(revs) IN
    got.revs # <<>> =>
      \A i \in {1, 2} : fs[i] # "ds" => got.res[fs[i]] = NthWith(fs[i], revs[i].gen)

\* A history is read back as it was written: page by page (WalkExact) and generation by
\* generation (RevsExact).
HistoryReadBack == WalkExact /\ RevsExact
=============================================================================
