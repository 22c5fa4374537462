----------------------------- MODULE MCPresence -----------------------------
(* One node the upstream node lets register, and one it does not.          *)
EXTENDS Presence
=============================================================================
