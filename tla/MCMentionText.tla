---------------------------- MODULE MCMentionText ----------------------------
(***************************************************************************)
(* The clean-up of every short text with any one mention, at every index   *)
(* and of every length an int of this size holds, and with every two in    *)
(* and around it.                                                          *)
(***************************************************************************)
EXTENDS MentionCleaning, SequencesExt

CONSTANT MaxLen    \* the longest text

MCRunes == {"@", "x", " "}
MCSpace == {" "}
MCUserIds == {"bot", "friend"}

MCTexts == BoundedSeq(MCRunes, MaxLen)

SomeMentions == [userId : MCUserIds, index : 0..MaxLen, length : 0..MaxLen]
MCMentionLists == BoundedSeq(SomeMentions, 2) \cup BoundedSeq(Mentionee, 1)

=============================================================================
