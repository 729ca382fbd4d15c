----------------------------- MODULE MCRelease -----------------------------
(* Two packages, one a plugin of the other, for Release.                   *)
EXTENDS Release

CONSTANTS core, plugin

MCOrder == <<core, plugin>>
MCDeps == [p \in {core, plugin} |-> IF p = plugin THEN {core} ELSE {}]
=============================================================================
