-------------------------------- MODULE MCFiles -------------------------------
(* An instance of Files. *)
EXTENDS Files

MCApps == <<"app">>
MCSlices == {<<1>>, <<2, 5>>}
MCFlags == {{}, {"WRONLY"}, {"CREATE", "RDWR"}, {"TRUNC", "WRONLY"}}
MCSymmetry == Permutations(Handles)
=============================================================================
