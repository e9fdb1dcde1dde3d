----------------------------- MODULE MentionText -----------------------------
(***************************************************************************)
(* How the LINE handler finds the text that is meant for the bot: the      *)
(* first mention of the bot in a message, the message without it, and that *)
(* without its surrounding space.  A text is a sequence of runes.          *)
(***************************************************************************)
EXTENDS Integers, Sequences, FiniteSetsExt

CONSTANTS
  Runes,      \* the runes that occur
  Space,      \* those strings.TrimSpace removes
  UserIds,    \* the users that can be mentioned
  BotUserID,  \* the configured LINE user id of the bot
  MaxInt      \* the greatest int

ASSUME MentionAssumption ==
  /\ Space \subseteq Runes /\ BotUserID \in UserIds
  /\ "panic" \notin Runes /\ MaxInt \in Nat

Ints == (-MaxInt - 1)..MaxInt

(* index and length count runes; the decoder takes any int for them. *)
Mentionee == [userId : UserIds, index : Ints, length : Ints]

(* Their sum wraps; it is taken of indices in the text only. *)
EndIndex(mention) ==
  LET sum == mention.index + mention.length
  IN IF sum > MaxInt THEN sum - 2 * (MaxInt + 1) ELSE sum

(* A slice from before the text, in place of what the handler returns. *)
Panic == <<"panic">>

(* strings.TrimSpace *)
TrimSpace(text) ==
  LET kept == {i \in 1..Len(text) : text[i] \notin Space}
  IN IF kept = {} THEN <<>> ELSE SubSeq(text, Min(kept), Max(kept))

(* A message without a mention object mentions nobody. *)
BotMentions(mentionees) == {i \in DOMAIN mentionees : mentionees[i].userId = BotUserID}

FindBotMention(mentionees) == mentionees[Min(BotMentions(mentionees))]

(* Mutant: the rune after the mention goes with it. *)
RemoveOneMore(text, mention) ==
  IF mention.index < 0 \/ mention.index >= Len(text) THEN text
  ELSE LET end == Min({EndIndex(mention), Len(text)})
       IN IF end < 0 THEN Panic
          ELSE TrimSpace(SubSeq(text, 1, mention.index) \o SubSeq(text, end + 2, Len(text)))

(* Mutant: an index is only checked against the end of the text. *)
RemoveUnchecked(text, mention) ==
  IF mention.index >= Len(text) THEN text
  ELSE LET end == Min({EndIndex(mention), Len(text)})
       IN IF mention.index < 0 \/ end < 0 THEN Panic
          ELSE TrimSpace(SubSeq(text, 1, mention.index) \o SubSeq(text, end + 1, Len(text)))

(* A mention that starts outside the text leaves it as it is, untrimmed.  *)
(* An end before the index gives the runes between the two a second time. *)
RemoveMentionText(text, mention) ==
  IF mention.index < 0 \/ mention.index >= Len(text) THEN text
  ELSE LET end == Min({EndIndex(mention), Len(text)})
       IN IF end < 0 THEN Panic
          ELSE TrimSpace(SubSeq(text, 1, mention.index) \o SubSeq(text, end + 1, Len(text)))

(* The text ServeHTTP sends on, from a message that mentions the bot. *)
CleanedText(text, mentionees) ==
  LET remaining == RemoveMentionText(text, FindBotMention(mentionees))
  IN IF remaining = Panic THEN Panic ELSE TrimSpace(remaining)

=============================================================================
