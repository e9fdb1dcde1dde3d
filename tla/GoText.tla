------------------------------- MODULE GoText -------------------------------
(***************************************************************************)
(* The two kinds of data every component of the backend passes around as a *)
(* Go string: plain text (a title, a place, an event id) and a local date  *)
(* and time written in the layout "2006-01-02 15:04:05".  A text is an     *)
(* opaque value; what the program can tell apart is what strings.TrimSpace *)
(* and time.ParseInLocation answer for it, and those two are parameters.   *)
(***************************************************************************)
EXTENDS Integers

CONSTANTS
  Text,      \* the strings that occur, "" among them
  Trim,      \* strings.TrimSpace, a function from Text to Text
  Instants,  \* the moments that occur, in seconds
  Parse,     \* time.ParseInLocation with the layout: Text -> Instants or BadTime
  Local,     \* Time.Format with the layout in the configured zone: Instants -> Text
  BadTime    \* what parsing answers for a text that is not a date and time

ASSUME TrimAssumption ==
  /\ "" \in Text
  /\ Trim \in [Text -> Text]
  /\ \A s \in Text : Trim[Trim[s]] = Trim[s]
  /\ Trim[""] = ""

(***************************************************************************)
(* time.ParseInLocation accepts no surrounding space: a text that parses   *)
(* is its own trimmed form.                                                *)
(***************************************************************************)
ASSUME ParseAssumption ==
  /\ Instants \subseteq Int
  /\ BadTime \notin Int
  /\ Parse \in [Text -> Instants \cup {BadTime}]
  /\ \A s \in Text : Parse[s] # BadTime => Trim[s] = s
  /\ Parse[""] = BadTime

(***************************************************************************)
(* A moment written in the configured zone and read back in that zone is   *)
(* the same moment: true of a zone without clock changes, as the default   *)
(* Asia/Taipei, and of any zone outside the hour a clock change repeats.   *)
(***************************************************************************)
ASSUME LocalAssumption ==
  /\ Local \in [Instants -> Text]
  /\ \A i \in Instants : Parse[Local[i]] = i

(* strings.TrimSpace(s) == "" *)
Blank(s) == Trim[s] = ""

(* The calendar service trims before it parses; the Google client does not. *)
ParseInLocation(s) == Parse[Trim[s]]

IsTime(s) == Parse[s] # BadTime

=============================================================================
