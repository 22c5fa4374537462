---------------------- MODULE MCPlatformRegistration ----------------------
(* One subordinate platform in each of its configurations: platforms share *)
(* the superior's process and lock, and no other state.                    *)
EXTENDS PlatformRegistration
=============================================================================
