----------------------------- MODULE MCSettings -----------------------------
EXTENDS Settings, TLC

Symmetry == Permutations(Pages) \union Permutations(Conns) \union Permutations(Outputs)
              \union Permutations(Names) \union Permutations(Values)
=============================================================================
