------------------------------- MODULE RoomLog -------------------------------
(***************************************************************************)
(* What a roundtable room promises its readers, with nothing of how the    *)
(* broker keeps it: a log that only grows, whose entries are numbered      *)
(* 1, 2, 3, ... and never renumbered, and for every role name a read       *)
(* position inside that log that never moves back.                         *)
(*                                                                         *)
(* RoomStore implements this: the ring buffer, the removal of a room that  *)
(* was left unused, and membership are invisible here.                     *)
(***************************************************************************)
EXTENDS Integers

CONSTANTS
  Rooms,    \* room names
  Names     \* role names; a read position belongs to a name, not a session

VARIABLES
  last,     \* last[r]: the highest sequence number issued in room r
  read      \* read[r][n]: the read position of role n in room r

logVars == <<last, read>>

LogInit ==
  /\ last = [r \in Rooms |-> 0]
  /\ read = [r \in Rooms |-> [n \in Names |-> 0]]

\* Role n appends the next entry to r; an author has read its own entry.
LogAppend(r, n) ==
  /\ last' = [last EXCEPT ![r] = @ + 1]
  /\ read' = [read EXCEPT ![r][n] = last[r] + 1]

\* Role n moves its position forward, at most to the end of the log.
LogMark(r, n) ==
  /\ \E q \in read[r][n] .. last[r] : read' = [read EXCEPT ![r][n] = q]
  /\ UNCHANGED last

LogNext == \E r \in Rooms, n \in Names : LogAppend(r, n) \/ LogMark(r, n)

LogSpec == LogInit /\ [][LogNext]_logVars
=============================================================================
