------------------------- MODULE CovenantRefinement -------------------------
(***************************************************************************)
(* The covenant implements the rules of the hand: the ledger of what the   *)
(* two wallets paid and were paid is a behaviour of HandRules, and every   *)
(* move that costs nothing is a stutter.                                   *)
(***************************************************************************)
EXTENDS CovenantProperties

Rules == INSTANCE HandRules WITH paidIn <- contributed,
                                 paidOut <- received,
                                 result <- settlement

\* Whatever order of builders the players and their clients choose, the money
\* moves as the README's rules say: deposits in order, bets that at least match
\* and stay under the cap, and one settlement with the right distribution.
ImplementsRules == Rules!RulesSpec
=============================================================================
