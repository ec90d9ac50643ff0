----------------------------- MODULE MCUxSession -----------------------------
(* Instances of UxSession for TLC: characters are strings of length one. *)
EXTENDS UxSession, TLC

Lower == {"\\", ".", ":", "a", "b", "c", "m", "V", "D"}
MCUpcase == [c \in Lower |-> c] @@ ("A" :> "a")

A == <<"\\", "a">>
AB == <<"\\", "a", "b">>

MCRoots == {A, AB \o <<"\\">>}
MCExcludes == {<<".", "b">>}
MCSep == "\\"
MCDot == "."
MCVol == <<"V">>
MCDos == <<"D">>
MCManifest == <<"\\", "m">>
MCColon == ":"
Below == <<"\\", "b">>
MCBackupRoot == <<"c", ":">> \o Below
MCImages == {<<"\\", "A", "\\", "b">>, AB \o A, <<"\\", "a", "b", "b">>}
MCOwnFiles == {Below \o A, Below \o A \o MCManifest}
=============================================================================
