---------------------------- MODULE MC_LambdaESM -----------------------------
(* Small instances of LambdaESM for TLC. *)
EXTENDS LambdaESM

Set(enabled, batch, filter, reports) ==
    [enabled |-> enabled, batch |-> batch, filter |-> filter, reports |-> reports]

\* A mapping that may be disabled, and then enabled with other settings.
MCSettings == {Set(FALSE, 2, Kinds, FALSE), Set(TRUE, 1, {"in"}, TRUE)}

\* A mapping that stays enabled.
OneSetting == {Set(TRUE, 2, {"in"}, TRUE)}

=============================================================================
