------------------------------- MODULE MCPool --------------------------------
(* Small instances of Pool: everything is a number given by the configs.   *)
EXTENDS Pool
=============================================================================
