---------------------------- MODULE MCSecureLink ----------------------------
(* The instance TLC checks. *)
EXTENDS SecureLink, TLC

CONSTANTS pcStatic, phoneStatic, otherStatic

MCStaticOf == (Pc :> pcStatic) @@ (Phone :> phoneStatic)
MCMtuPayload == (Pc :> 2) @@ (Phone :> 1)
==============================================================================
