------------------------------ MODULE MCOrgStore ------------------------------
(* Instances of OrgStore for TLC.                                          *)
EXTENDS OrgStore
===============================================================================
