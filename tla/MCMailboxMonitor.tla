-------------------------- MODULE MCMailboxMonitor --------------------------
(* A small mailbox for TLC: two tiles of each of three frames.             *)
EXTENDS MailboxMonitor

CONSTANTS none

TheFrames == 0 .. 2
TheMessages == [frameID: {0, 1}, tile: {1, 2}] \cup [frameID: {2}, tile: {1}]
=============================================================================
