---------------------------- MODULE MCCodexHooks ----------------------------
(* Small instances of CodexHooks. *)
EXTENDS CodexHooks, TLC

MCUserConfig == {<<>>, <<"settings">>, <<"[features]", "settings">>,
                 <<"[features]", "codex_hooks", "= false">>}

HooksSymmetry == Permutations(Session)
=============================================================================
