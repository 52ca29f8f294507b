------------------------- MODULE ContainerModelsMC -------------------------
(* ContainerModels for TLC: models, placers and types are interchangeable. *)
EXTENDS ContainerModels, TLC

Symmetry == Permutations(Models) \cup Permutations(Placers) \cup Permutations(Types)

File(dir, stem, kind) == [dir |-> dir, stem |-> stem, kind |-> kind]

(* One type directory with loose weights and their preview, and a package
   with a nested one; the directory may itself look like a package. *)
SomeFiles == {
    File(<<"LoRA">>, "a", "weights"),
    File(<<"LoRA">>, "a", "preview"),
    File(<<"LoRA">>, "-", "index"),
    File(<<"LoRA", "p">>, "-", "index"),
    File(<<"LoRA", "p", "q">>, "-", "adapter"),
    File(<<"LoRA", "p", "q">>, "b", "weights"),
    File(<<"LoRA", "p", "q">>, "-", "config")}
Missable == {f \in SomeFiles : f.kind \in {"index", "adapter", "weights"}}
AtMostOneMissing == {SomeFiles \ s : s \in {{}} \cup {{f} : f \in Missable}}
=============================================================================
