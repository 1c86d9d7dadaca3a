------------------------------ MODULE MCClient -------------------------------
(* A client on a canvas of a few points, with two recipes on the bridge.      *)
EXTENDS ClientSession, TLC

ASSUME RecipesAreModelValues == IsFiniteSet(Recipes) /\ IsFiniteSet(Points)

\* Neither the points nor the recipes are ever compared but for equality.
Symmetry == Permutations(Points) \cup Permutations(Recipes)
===============================================================================
