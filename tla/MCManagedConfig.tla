-------------------------- MODULE MCManagedConfig --------------------------
(* Two local models, one of them not eligible, one secret, and a file that  *)
(* people save with four texts, or delete.                                  *)
EXTENDS ManagedConfig

CONSTANTS k, m, n

MCSecrets == {k}
MCModels == {m, n}
MCEligible == {m}

Text(provider, secret, gen, local) ==
    [provider |-> provider, secret |-> secret, generation |-> gen, local |-> local]

MCEditorTexts ==
    {Absent, Text("local", NoSecret, 1, m), Text("local", NoSecret, 0, n),
     Text("deepseek", k, 1, m), Text("deepseek", k, 2, Disabled)}
=============================================================================
