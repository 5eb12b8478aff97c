---------------------------- MODULE PlayerProperties ----------------------------
(***************************************************************************)
(* What the program promises its user.                                     *)
(***************************************************************************)
EXTENDS Player, MediaImporterProperties

\* However main returns, no thread is left running and no frame in any hand.
NothingLeftRunning ==
  place = "returned" => demuxer = "none" /\ decoder = "none" /\ Held = {} /\ owner = "destroyed"

\* Wherever main is about to call the importer, that has been opened if it must be
\* and is in no other call: none of main's calls comes where the importer cannot take it.
CallsInTurn ==
  /\ place = "open" => owner = "new"
  /\ place \in {"init", "create", "start", "test", "poll", "read", "destroy"} => owner = "idle"
  /\ place = "return" => owner \in {"idle", "failed"}

\* While main is in its loop both threads are there and not on their way out, so
\* there is something to wait for.
Plays(thread, exit) == thread \notin {"none", "finished"} /\ ~exit
LoopPlays ==
  place \in {"test", "poll", "read", "reading"} =>
    Plays(demuxer, shouldExitDemuxer) /\ Plays(decoder, shouldExitDecoder)

(***************************************************************************)
(* The inductive invariant: where main's calls stand, and which thread has *)
(* been started by then.                                                   *)
(***************************************************************************)
InStop == {"joinDecoder", "joinDemuxer", "drain"}

Places == {"open", "init", "create", "start", "starting", "test", "poll", "read", "reading",
           "destroy", "return", "returning", "returned"}

MainInv ==
  /\ place \in Places /\ CallsInTurn /\ LoopPlays
  /\ place = "starting" =>
       /\ after = "startDecoder"
       /\ owner \in InStop \union {"startDecoder", "startDemuxer", "idle"}
       /\ owner \in {"startDemuxer", "idle"} => Plays(decoder, shouldExitDecoder)
       /\ owner = "idle" => Plays(demuxer, shouldExitDemuxer)
  /\ place = "reading" => owner \in {"lock", "copy", "idle"}
  /\ place = "returning" => after = "destroyed" /\ owner \in InStop \union {"destroyed"}
  /\ place = "returned" => owner = "destroyed"

\* A request to quit ends the process, if it is not kept from the end of SDL's
\* events by ever new ones.
QuitEndsPlayer == (\E k \in DOMAIN pending : pending[k] = "quit") ~> place = "returned"

\* Until it is asked to quit, the player gives SDL each picture that is published, or
\* one published after it, to draw.
PublishedIsDrawn ==
  \A p \in Frames : lastVideoFrame = p ~> (drawn >= p \/ isquit)
==============================================================================
