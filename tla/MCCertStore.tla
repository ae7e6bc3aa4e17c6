------------------------------ MODULE MCCertStore ------------------------------
(* TLC instance of CertStore. *)
EXTENDS CertStore

NoneProtected == {}
=============================================================================
