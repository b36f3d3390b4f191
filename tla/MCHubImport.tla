---------------------------- MODULE MCHubImport -----------------------------
(* Two targets of different kinds and two of one kind for TLC. *)
EXTENDS HubImport, TLC

MCRepos == {"kernel", "twin", "model"}
MCKindOf == ("kernel" :> "kernel") @@ ("twin" :> "model") @@ ("model" :> "model")
MCArguments == {<< >>, <<"kernel", "twin">>, <<"twin", "model">>}
=============================================================================
