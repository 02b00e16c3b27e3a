---------------------------- MODULE MCKmsVulkan ----------------------------
(***************************************************************************)
(* Small instances of KmsVulkan for TLC.  Three fence handles are enough   *)
(* for the one waited for, the next one and the one that replaces it.      *)
(***************************************************************************)
EXTENDS KmsVulkan

=============================================================================
