------------------------------ MODULE MCRemote ------------------------------
EXTENDS Remote, TLC

Rule(subject, resource, actions, effect) ==
  [subject |-> subject, resources |-> {resource}, actions |-> actions, effect |-> effect]

\* Everybody pulls, and everybody changes datasets of their own.
OwnDatasets ==
  {Rule(matchAll, <<"dataset", matchAll>>, {<<"remote", "pull">>}, "allow"),
   Rule(matchAll, <<"dataset", matchSubject, matchAll>>,
        {<<"remote", "push">>, <<"remote", "remove">>}, "allow")}

\* What the author pushes is kept, and the reader may not have it.
KeepForAuthor ==
  {Rule("author", <<"dataset", "author", "name">>, {<<"remote", "push">>}, "allow"),
   Rule("reader", <<"dataset", matchAll>>, {<<"remote", matchAll>>}, "deny")}

AllPolicies == {OwnDatasets, KeepForAuthor}

SameClients == Permutations(Clients)
=============================================================================
