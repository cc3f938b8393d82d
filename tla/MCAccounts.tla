------------------------------ MODULE MCAccounts ------------------------------
(* One org with one child account.                                         *)
EXTENDS Accounts, TLC
CONSTANTS theOrg, theChild
MCParent == (theChild :> theOrg)
=============================================================================
