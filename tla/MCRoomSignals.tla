--------------------------- MODULE MCRoomSignals ----------------------------
(***************************************************************************)
(* RoomSignals for TLC: receipts of two messages, typing with connections  *)
(* lost, and a little of both.                                             *)
(***************************************************************************)
EXTENDS TLC

CONSTANTS
  Member,  \* RoomSignals' Person
  Limits

VARIABLES
  limit, log, status, owned, relays, unnoticed, up, rows, bubble, latest, bottom, typingUsers,
  armed, frames, wire, strokes, drops, looked, had, orphans

Signals == INSTANCE RoomSignals WITH Person <- Member, asks <- frames, typed <- strokes

Limit(messages, keystrokes, crowd, losses) ==
  [log |-> messages, typed |-> keystrokes, wire |-> crowd, drops |-> losses]
Scenes == {Limit(2, 0, 1, 0), Limit(1, 0, 1, 1), Limit(0, 2, 2, 1), Limit(1, 1, 1, 0)}

SignalsSpec == Signals!SpecSignals

Members == Permutations(Member)

\* See RoomSignals.
TicksTrue == Signals!TicksTrue
TypingEnds == Signals!TypingEnds
=============================================================================
