--------------------------- MODULE MCSelfCoding ---------------------------
(* Small instances of SelfCoding for TLC. *)
EXTENDS SelfCoding

CONSTANTS c1, c2, cli, desktop

TwoIds    == {c1, c2}
OneId     == {c1}
OneAgent  == {cli}
TwoAgents == {cli, desktop}

=============================================================================
