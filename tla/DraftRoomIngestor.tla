------------------------- MODULE DraftRoomIngestor -------------------------
(***************************************************************************)
(* LiveRunner with either of its two sources: the poll of ESPN's draft     *)
(* detail (LiveIngestor), or the draft room's frames, read through the     *)
(* Chrome debugger by src/scripts/run_draft_room_ingestor.py.              *)
(*                                                                         *)
(* In the room mode LiveIngestor's variable espn is main's local picks,    *)
(* which raw_board turns into the draft detail that commit_snapshot reads. *)
(* They are lost with the process; commit_snapshot's checkpoint is not.    *)
(* There is no reconnect and no heartbeat: any exception ends the process, *)
(* and it is started again by hand.                                        *)
(*                                                                         *)
(* The room is external: its picks are made in draft order, a new socket's *)
(* first frame is INIT with all of them, and each later pick is a SELECTED *)
(* frame without a pick number.                                            *)
(***************************************************************************)
EXTENDS LiveIngestor

CONSTANT MaxFrames   \* bound on frames not yet read

ASSUME FramesAssumption == MaxFrames \in Nat

VARIABLES
  mode,      \* "poll", or the room with or without the option --reload
  room,      \* the draft room's picks
  socket,    \* the page's: "none", or whether the debugger reports its frames
  attached,  \* there is a CdpFrames
  frames,    \* frames recorded or still to be received, and not yet read
  changed    \* changed_at is not None

roomVars == <<mode, room, socket, attached, frames, changed>>
allVars == <<vars, roomVars>>

Prefix(s) == [o \in DOMAIN s |-> s[o]]

Frame ==
  [type : {"INIT"}, picks : {SubSeq(room, 1, n) : n \in 0..Len(room)}]
  \cup [type : {"SELECTED"}, team : {SlotTeam[o] : o \in Slots}, player : TheDraft.catalog]

RoomTypeOK ==
  /\ TypeOK
  /\ mode \in {"poll", "room", "reload"}
  /\ BoardOf(Prefix(room))
  /\ socket \in {"none", "untracked", "tracked"}
  /\ attached \in BOOLEAN /\ changed \in BOOLEAN
  /\ socket = "tracked" /\ pc \notin {"down", "done"} => attached
  /\ \A i \in DOMAIN frames : frames[i] \in Frame

RoomInit ==
  /\ Init
  /\ mode \in {"poll", "room", "reload"}
  /\ room = <<>> /\ socket = "none"
  /\ attached = FALSE /\ frames = <<>> /\ changed = FALSE

-----------------------------------------------------------------------------
(* The draft room and the debugger.                                        *)

(* _record keeps the frames of sockets whose creation it has seen.         *)
Record(frame) == frames' = IF socket' = "tracked" THEN Append(frames, frame) ELSE frames

RoomPicks ==
  /\ Len(room) < Total /\ Len(frames) < MaxFrames
  /\ \E p \in Candidates[Len(room) + 1] :
       /\ room' = Append(room, p)
       /\ UNCHANGED socket
       /\ Record([type |-> "SELECTED", team |-> SlotTeam[Len(room')], player |-> p])
  /\ UNCHANGED <<vars, mode, attached, changed>>

SocketDrops ==
  /\ socket # "none"
  /\ socket' = "none"
  /\ UNCHANGED <<vars, mode, room, attached, frames, changed>>

SocketConnects ==
  /\ socket = "none" /\ Len(frames) < MaxFrames
  /\ socket' = IF attached THEN "tracked" ELSE "untracked"
  /\ Record([type |-> "INIT", picks |-> room])
  /\ UNCHANGED <<vars, mode, room, attached, changed>>

-----------------------------------------------------------------------------
(* main.                                                                   *)

(* Mutant: the debugger reports the frames of the sockets it finds.        *)
SocketAfterAttachOpen == IF mode # "reload" /\ socket # "none" THEN "tracked" ELSE "none"

(* A socket opened before stays unreported, unless the page is reloaded.   *)
SocketAfterAttach == IF mode # "reload" /\ socket # "none" THEN "untracked" ELSE "none"

(* CdpFrames, then picks = {}.                                             *)
Attach ==
  /\ pc = "poll" /\ ~attached
  /\ attached' = TRUE
  /\ socket' = SocketAfterAttach
  /\ espn' = Nothing /\ stage' = "live"
  /\ changed' = FALSE
  /\ UNCHANGED <<takebacks, runner, late, session, mode, room, frames>>

AttachFails ==
  /\ pc = "poll" /\ ~attached
  /\ Fails
  /\ UNCHANGED <<source, saved, late, session, roomVars>>

(* With the process ends the debugger session.                             *)
DebuggerAfter ==
  /\ attached' = (attached /\ pc' \notin {"down", "done"})
  /\ socket' = IF socket = "tracked" /\ ~attached' THEN "untracked" ELSE socket
  /\ frames' = IF attached' THEN frames ELSE <<>>
  /\ changed' = (attached' /\ changed)
  /\ UNCHANGED <<mode, room>>

Reads(type) == pc = "poll" /\ attached /\ frames # <<>> /\ Head(frames).type = type

ReadInit ==
  /\ Reads("INIT")
  /\ espn' = Prefix(Head(frames).picks)
  /\ frames' = Tail(frames)
  /\ changed' = TRUE
  /\ UNCHANGED <<stage, takebacks, runner, late, session, mode, room, socket, attached>>

(* A pick is numbered by the board before it, and must fit the draft order.*)
ReadSelected ==
  /\ Reads("SELECTED")
  /\ LET overall == Cardinality(DOMAIN espn) + 1
     IN  /\ overall <= Total /\ Head(frames).team = SlotTeam[overall]
         /\ espn' = [o \in DOMAIN espn \cup {overall} |->
                       IF o = overall THEN Head(frames).player ELSE espn[o]]
  /\ frames' = Tail(frames)
  /\ changed' = TRUE
  /\ UNCHANGED <<stage, takebacks, runner, late, session, mode, room, socket, attached>>

(* A frame does not decode or does not fit: the process ends.              *)
ReadFails ==
  /\ pc = "poll" /\ frames # <<>>
  /\ Fails
  /\ UNCHANGED <<source, saved, late, session>>
  /\ DebuggerAfter

(* commit_snapshot of raw_board, once something has changed.               *)
CommitRoom ==
  /\ attached /\ changed
  /\ changed' = FALSE
  /\ Poll
  /\ UNCHANGED <<mode, room, socket, attached, frames>>

CommitRoomCorrected ==
  /\ attached /\ changed
  /\ PollCorrected
  /\ DebuggerAfter

RunnerSteps ==
  /\ \/ Start \/ Crash \/ Initialized \/ InitializeUnanswered
     \/ Acked \/ NotClosed \/ Unanswered \/ Refused \/ LateArrives
     \/ Checkpoint \/ CheckpointFails \/ SessionReset
  /\ DebuggerAfter

RoomNext ==
  \/ mode = "poll" /\ Next /\ UNCHANGED roomVars
  \/ /\ mode # "poll"
     /\ \/ RoomPicks \/ SocketDrops \/ SocketConnects
        \/ Attach \/ AttachFails \/ ReadInit \/ ReadSelected \/ ReadFails
        \/ CommitRoom \/ CommitRoomCorrected \/ RunnerSteps

RoomSpec == RoomInit /\ [][RoomNext]_allVars

-----------------------------------------------------------------------------
(* Properties.                                                             *)

(* ESPN's own board, whichever way the runner learns of it.                *)
Truth == IF mode = "poll" THEN espn ELSE Prefix(room)

(* Frames without pick numbers, sockets that come and go, deaths that lose *)
(* the local board and checkpoints that outlive it never shift a pick: what*)
(* the session stores of the draft room is what was picked there, at its   *)
(* number (run_draft_room_ingestor.py:345-368).                            *)
RoomBoardIsTrue ==
  mode # "poll" => \A row \in board : row.overall <= Len(room) /\ row.player = room[row.overall]

(* The session is never told of more picks than ESPN shows, so that it     *)
(* never sees a gap before the picks are made.                             *)
CursorIsTrue ==
  stage # "drafted" /\ takebacks = 0 => cursor <= LastOf(DOMAIN Truth)
=============================================================================
