--------------------------- MODULE MentionCleaning ---------------------------
(***************************************************************************)
(* One message on its way through the handler: it mentions the bot, and    *)
(* what its author says besides is sent on.                                *)
(***************************************************************************)
EXTENDS MentionText

CONSTANTS
  Texts,        \* the texts of messages
  MentionLists  \* the lists of mentions that come with them

ASSUME CleaningAssumption ==
  Texts \subseteq Seq(Runes) /\ MentionLists \subseteq Seq(Mentionee)

VARIABLES text, mentionees, cleaned

cleaningVars == <<text, mentionees, cleaned>>

NotYet == <<"not yet">>

CleaningInit ==
  /\ text \in Texts
  /\ mentionees \in MentionLists
  /\ cleaned = NotYet

(* A message without a mention of the bot is left alone. *)
Clean ==
  /\ cleaned = NotYet
  /\ BotMentions(mentionees) # {}
  /\ cleaned' = CleanedText(text, mentionees)
  /\ UNCHANGED <<text, mentionees>>

CleaningSpec == CleaningInit /\ [][Clean]_cleaningVars

-----------------------------------------------------------------------------
(* The positions of t outside the mention m. *)
Outside(t, m) ==
  {p \in 1..Len(t) : m.index < 0 \/ p <= m.index \/ p > m.index + m.length}

(* A mention in t that does not end where an int would say, at or behind *)
(* its index.                                                            *)
Backwards(t, m) ==
  /\ m.index \in 0..Len(t) - 1
  /\ m.length < 0 \/ m.index + m.length > MaxInt

FirstOfBot(m) ==
  /\ mentionees[m].userId = BotUserID
  /\ \A k \in 1..m - 1 : mentionees[k].userId # BotUserID

(* The position of each rune of c in t, in order. *)
Origins(c, t) ==
  {at \in [1..Len(c) -> 1..Len(t)] :
     /\ \A k \in 1..Len(c) : c[k] = t[at[k]]
     /\ \A j, k \in 1..Len(c) : j < k => at[j] < at[k]}

(* Of t's positions in whole, c holds all but the space before and after. *)
IsTrimmed(c, t, whole) ==
  \E at \in Origins(c, t) :
    LET held == {at[k] : k \in 1..Len(c)}
    IN /\ held \subseteq whole
       /\ \A p \in whole \ held :
            /\ t[p] \in Space
            /\ (\A h \in held : p < h) \/ (\A h \in held : p > h)
       /\ \A k \in {1, Len(c)} \cap 1..Len(c) : c[k] \notin Space

(***************************************************************************)
(* What is sent on is the message without the bot's first mention and      *)
(* without surrounding space: no rune of the author's is lost, moved or    *)
(* added, whether the mention lies in the text, reaches past its end or    *)
(* starts before or behind it.  Only one that ends before it starts is     *)
(* excepted: removeMentionText checks the index and not the length.        *)
(***************************************************************************)
KeepsTheRest ==
  cleaned # NotYet =>
    \E m \in DOMAIN mentionees :
      /\ FirstOfBot(m)
      /\ ~Backwards(text, mentionees[m]) =>
           IsTrimmed(cleaned, text, Outside(text, mentionees[m]))

(***************************************************************************)
(* The handler panics on no mention outside the text, and inside only if   *)
(* the mention ends before the text begins or beyond the greatest int: the *)
(* checks of removeMentionText keep its two slices in range for any other. *)
(***************************************************************************)
PanicsOnlyBackwards ==
  cleaned = Panic =>
    \E m \in DOMAIN mentionees :
      /\ FirstOfBot(m)
      /\ Backwards(text, mentionees[m])
      /\ mentionees[m].index + mentionees[m].length \notin 0..MaxInt

=============================================================================
