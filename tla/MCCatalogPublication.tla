------------------------ MODULE MCCatalogPublication ------------------------
(***************************************************************************)
(* Two goroutines: of one manager, which falls back to ordinary contents   *)
(* when it cannot publish, or of two workers that share the repository.    *)
(* Two revisions and two manifests let one key be published, lost and      *)
(* published again.                                                        *)
(***************************************************************************)
EXTENDS CatalogPublication, TLC

Shared(f) == Cardinality({f[p] : p \in Procs}) = 1

MCDeployments == {d \in [Procs -> Managers] \X BOOLEAN : d[2] = Shared(d[1])}

\* Goroutines are alike and managers are alike.
Symmetry == {f @@ g : f \in Permutations(Procs), g \in Permutations(Managers)}
=============================================================================
