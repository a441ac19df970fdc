----------------------------- MODULE MCRequests -----------------------------
(***************************************************************************)
(* The components that answer a request, each checked on its own: "focus"  *)
(* is the one that moves in a behaviour, the others stay where they are.   *)
(***************************************************************************)
EXTENDS Catalog, HistoryWalk, StatsCache, Profiles, Names, Changes, Api

VARIABLE focus

OneUser  == <<[user |-> 1, id |-> 1]>>
TwoUsers == Append(OneUser, [user |-> 2, id |-> 2])

NoCatalog  == CatalogInit(OneUser, 0, 1)
NoListing  == here = {} /\ parts = <<>> /\ walks = [w \in Walkers |-> NoWalk] /\ made = <<>>
\* Two threads of one process and one of another.
MCThreads == {<<1, 1>>, <<1, 2>>, <<2, 1>>}

NoSample   == sample = [kind |-> "none"]
NoPair     == pair = [kind |-> "none"]
NoApi      == request = NoRequestYet

MCInit ==
  \/ /\ focus = "catalog" /\ NoListing /\ StatsInit /\ ProfilesInit /\ NoSample /\ NoPair /\ NoApi
     /\ \E us \in {OneUser, TwoUsers} : CatalogInit(us, 4, 1) \/ CatalogInit(us, 3, 2)
  \/ focus = "walk"    /\ NoCatalog /\ WalkInit  /\ StatsInit /\ ProfilesInit /\ NoSample  /\ NoPair      /\ NoApi
  \/ focus = "stats"   /\ NoCatalog /\ NoListing /\ StatsInit /\ ProfilesInit /\ NoSample  /\ NoPair      /\ NoApi
  \/ focus = "profiles" /\ NoCatalog /\ NoListing /\ StatsInit /\ ProfilesInit /\ NoSample /\ NoPair /\ NoApi
  \/ focus = "names"   /\ NoCatalog /\ NoListing /\ StatsInit /\ ProfilesInit /\ NamesInit /\ NoPair      /\ NoApi
  \/ focus = "changes" /\ NoCatalog /\ NoListing /\ StatsInit /\ ProfilesInit /\ NoSample  /\ ChangesInit /\ NoApi
  \/ focus = "api"     /\ NoCatalog /\ NoListing /\ StatsInit /\ ProfilesInit /\ NoSample  /\ NoPair      /\ ApiInit

MCNext ==
  \/ focus = "catalog" /\ CatalogNext /\ UNCHANGED <<focus, walkVars, statsVars, profVars, sample, pair, request>>
  \/ focus = "walk"    /\ WalkNext    /\ UNCHANGED <<focus, catVars, statsVars, profVars, sample, pair, request>>
  \/ focus = "stats"   /\ StatsNext   /\ UNCHANGED <<focus, catVars, walkVars, profVars, sample, pair, request>>
  \/ focus = "profiles" /\ ProfilesNext /\ UNCHANGED <<focus, catVars, walkVars, statsVars, sample, pair, request>>
  \/ focus = "names"   /\ NamesNext   /\ UNCHANGED <<focus, catVars, walkVars, statsVars, profVars, pair, request>>

MCSpec == MCInit /\ [][MCNext]_<<focus, catVars, walkVars, statsVars, profVars, sample, pair, request>>
=============================================================================
