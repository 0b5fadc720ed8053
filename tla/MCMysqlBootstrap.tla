--------------------------- MODULE MCMysqlBootstrap ---------------------------
(* Instances with two or three pods; which calls fail and which pods are   *)
(* slow to stop is up to the configuration.                                *)
EXTENDS MysqlBootstrap
=============================================================================
