-------------------------- MODULE MCCompanyContext --------------------------
(* Model values for TLC. *)
EXTENDS CompanyContext

CONSTANTS k1, k2

=============================================================================
