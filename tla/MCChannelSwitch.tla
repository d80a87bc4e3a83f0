-------------------------- MODULE MCChannelSwitch --------------------------
(* Instances of ChannelSwitch for TLC. *)
EXTENDS ChannelSwitch

\* The schedule of main; a segment is longer than the ring, which
\* holds four blocks as in the source, and ends in a shorter block.
MCSchedule == <<2, 8, 2>>
=============================================================================
