---------------------------- MODULE MCCeremony ------------------------------
(***************************************************************************)
(* Small instances of Ceremony for TLC.                                    *)
(***************************************************************************)
EXTENDS Ceremony, TLC

CONSTANTS p1, here, there

\* A request that sets two policies of three: its line is positive and rounds to no paisa, its
\* limits lie on either side of a half.
MCAsk ==
  p1 :> [merchant |-> here, ceiling |-> 1004, threshold |-> Undefined, line |-> 4,
         limits |-> here :> 6 @@ there :> 605, skus |-> Undefined]
MCForm == [merchants |-> {here}, ceiling |-> 1000, threshold |-> 500]

Symmetry == Permutations(Mandate) \cup Permutations(Token) \cup Permutations(Key)
              \cup Permutations(Tab)
=============================================================================
