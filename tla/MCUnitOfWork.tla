---------------------------- MODULE MCUnitOfWork ----------------------------
(* UnitOfWork for TLC: the callers are model values of the configuration.  *)
EXTENDS UnitOfWork
=============================================================================
