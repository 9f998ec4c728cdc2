--------------------------- MODULE MCSingleSignOn ---------------------------
(***************************************************************************)
(* Small instances of SingleSignOn for TLC.                                *)
(***************************************************************************)
EXTENDS SingleSignOn

\* Among the settings are two with the same fingerprint.
MCClientIDs == {<<"c">>, <<"c", "|", "d">>}
MCSecrets == {<<"s">>, <<"d", "|", "s">>}
MCCharacter == {"c", "d", "s", "|"}

=============================================================================
