----------------------------- MODULE MCSaveStore -----------------------------
(* Small instances of SaveStore: a base image and a package with an overlay. *)
EXTENDS SaveStore, TLC

MCImageChain == "ubuntu" :> <<0>> @@ "agent" :> <<0, 1>>
Symmetry == Permutations(Sandboxes) \cup Permutations(Names)
=============================================================================
