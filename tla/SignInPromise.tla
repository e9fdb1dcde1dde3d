---------------------------- MODULE SignInPromise ----------------------------
(***************************************************************************)
(* What the sign-in command promises its user and the API server, without  *)
(* callbacks, goroutines, channels or a timer: a run that is granted no    *)
(* token leaves the token file alone; one that is granted a token empties  *)
(* the file once and then writes that token into it, or stops half-way;    *)
(* and a server runs with the token it found in the file when it started.  *)
(***************************************************************************)
EXTENDS Integers

CONSTANTS
  Tokens,    \* those Google grants for the user's sign-ins
  OldToken,  \* one from before
  MaxRuns

VARIABLES
  phase,   \* of the run: waiting, granted, emptied, saved or over
  token,   \* what this run was granted
  disk,    \* the token file
  server,  \* the API server: down, refused, or the token it runs with
  tries    \* the runs so far

promised == <<phase, token, disk, server, tries>>

Broken == {"missing", "empty", "partial"}

Init ==
  /\ phase = "waiting" /\ token = "none" /\ tries = 1
  /\ disk \in {"missing", OldToken} /\ server = "down"

-----------------------------------------------------------------------------
(* The command. *)

Grant ==
  /\ phase = "waiting"
  /\ phase' = "granted" /\ token' \in Tokens
  /\ UNCHANGED <<disk, server, tries>>

GiveUp ==
  /\ phase \in {"waiting", "granted"}
  /\ phase' = "over" /\ token' = "none"
  /\ UNCHANGED <<disk, server, tries>>

Empty ==
  /\ phase = "granted"
  /\ phase' = "emptied" /\ disk' = "empty"
  /\ UNCHANGED <<token, server, tries>>

Save ==
  /\ phase = "emptied"
  /\ phase' = "saved" /\ disk' = token
  /\ UNCHANGED <<token, server, tries>>

BreakOff ==
  /\ phase = "emptied"
  /\ phase' = "over" /\ token' = "none" /\ disk' \in {"empty", "partial"}
  /\ UNCHANGED <<server, tries>>

TryAgain ==
  /\ phase \in {"saved", "over"} /\ tries < MaxRuns
  /\ phase' = "waiting" /\ token' = "none" /\ tries' = tries + 1
  /\ UNCHANGED <<disk, server>>

-----------------------------------------------------------------------------
(* The API server. *)

Serve ==
  /\ server \in {"down", "refused"} /\ disk \notin Broken
  /\ server' = disk
  /\ UNCHANGED <<phase, token, disk, tries>>

Decline ==
  /\ server = "down"
  /\ server' = "refused"
  /\ UNCHANGED <<phase, token, disk, tries>>

GoDown ==
  /\ server # "down"
  /\ server' = "down"
  /\ UNCHANGED <<phase, token, disk, tries>>

Next ==
  \/ Grant \/ GiveUp \/ Empty \/ Save \/ BreakOff \/ TryAgain
  \/ Serve \/ Decline \/ GoDown

Spec == Init /\ [][Next]_promised

=============================================================================
