--------------------------- MODULE OAuthRefinement ---------------------------
(***************************************************************************)
(* OAuthFlow implements SignInPromise.  A token is granted when the        *)
(* exchange has succeeded; a run with an error in hand is over, although   *)
(* its handlers may still keep it from ending.                             *)
(***************************************************************************)
EXTENDS OAuthFlow

Phase ==
  CASE main \in {"start", "select", "exchange"} -> "waiting"
    [] main \in {"returning", "draining", "write"} /\ held # "error" -> "granted"
    [] main = "encode" -> "emptied"
    [] main = "saved" -> "saved"
    [] OTHER -> "over"

Granted == IF Phase \in {"granted", "emptied", "saved"} THEN held ELSE "none"

SignIn == INSTANCE SignInPromise WITH
  Tokens <- OwnCodes,
  phase <- Phase,
  token <- Granted,
  disk <- file,
  server <- api,
  tries <- runs

(* However the callbacks race with each other, with the timer and with the *)
(* shutdown, and wherever the command is stopped: the promise is kept.     *)
KeepsSignInPromise == SignIn!Spec

=============================================================================
