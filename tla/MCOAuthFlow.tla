----------------------------- MODULE MCOAuthFlow -----------------------------
(***************************************************************************)
(* Three callbacks, which is the least that can wedge a command that has   *)
(* its code; one code of the sign-in and one of somebody else's; two runs. *)
(***************************************************************************)
EXTENDS OAuthRefinement

CONSTANTS c1, c2, c3, ownCode, otherCode

MCCallbacks == {c1, c2, c3}
MCCodes == {ownCode, otherCode}
MCOwnCodes == {ownCode}
=============================================================================
