---------------------------- MODULE MCTransform ----------------------------
EXTENDS Transform

\* A single script, steps of every kind, and failures before and after others.
AllPlans ==
  {<<>>, <<"setup", "download", "transform">>, <<"transform", "transform">>, <<"download", "odd", "transform">>,
   <<"unscripted", "transform">>, <<"unknown", "setup">>, <<"save", "setup">>}

AllUsers == {{}, {"meta"}, {"structure"}}

=============================================================================
