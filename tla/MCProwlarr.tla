----------------------------- MODULE MCProwlarr -----------------------------
(***************************************************************************)
(* A small instance of the Prowlarr poller: four searches, pages of two.   *)
(***************************************************************************)
EXTENDS ProwlarrPoller, TLC

Searches == Permutations(Search)

=============================================================================
