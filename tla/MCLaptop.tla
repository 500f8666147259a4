------------------------------ MODULE MCLaptop ------------------------------
(***************************************************************************)
(* The laptop for TLC: room for two processes, and a second              *)
(* configuration for the same draft or for another one.                    *)
(***************************************************************************)
EXTENDS Laptop

MCPids == 1..2
MCDraftOf == [gen \in 0..2 |-> gen]
=============================================================================
