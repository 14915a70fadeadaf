------------------------------- MODULE MCDrive -------------------------------
(* /a and /ab, a folder /a/ and a file /a/b in it; the contents and the    *)
(* groups can change places.                                               *)
EXTENDS Drive

MCFileNames   == {<<Slash, "a">>, <<Slash, "a", "b">>, <<Slash, "a", Slash, "b">>}
MCFolderNames == {<<Slash, "a", Slash>>}

Symmetry == Permutations(Contents) \cup Permutations(Groups)
=============================================================================
