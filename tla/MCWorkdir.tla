----------------------------- MODULE MCWorkdir -----------------------------
(* Contents with one of two scripts (or titles), and with or without a second *)
(* field; dataset files that hold a meta, a readme, or a transform that is    *)
(* configured.                                                                *)
EXTENDS Workdir, TLC

MCFieldsOf == [v \in Values |-> {<<"script", IF v % 2 = 1 THEN "a" ELSE "b">>}
                               \union IF v > 2 THEN {<<"config", "x">>} ELSE {}]

MCSwitches == {{}, {"Force"}, {"Replace"}, {"Apply"}}

MCDatasetFiles == {[NoDataset EXCEPT !["meta"] = 1],
                   [NoDataset EXCEPT !["readme"] = 2, !["transform"] = 3]}

AnyClient == Permutations(Clients)

=============================================================================
