-------------------------------- MODULE Player --------------------------------
(***************************************************************************)
(* main (player/main.cpp) from the importer's construction to the end of   *)
(* the process, over the threads of MediaImporter.  main is the importer's *)
(* owner: its steps choose the calls, those of MediaImporter carry them    *)
(* out.  SDL is external: any call main tests may fail, the queue of       *)
(* events is what the user does.  What the loop's calls answer main does   *)
(* not look at, so a picture given to SDL counts as drawn.                 *)
(***************************************************************************)
EXTENDS MediaImporter

CONSTANT MaxEvents  \* bound: events SDL delivers

VARIABLES
  place,    \* where main is, in its own code or in a call of the importer
  isquit,
  pending,  \* events SDL_PollEvent has yet to return
  happened, \* events so far
  drawn,    \* the picture last given to SDL to draw
  window    \* whether SDL's window is there

mainVars == <<place, isquit, pending, happened, drawn, window>>
playerVars == <<vars, mainVars>>

PlayerInit ==
  /\ Init
  /\ place = "open" /\ isquit = FALSE
  /\ pending = <<>> /\ happened = 0
  /\ drawn = 0 /\ window = FALSE

\* main stays where it is, in the code or in the call of the importer.
Waits == UNCHANGED mainVars
Stays == UNCHANGED vars
Go(next) == place' = next /\ UNCHANGED <<isquit, pending, happened, drawn, window>>

(***************************************************************************)
(* Before the loop.  A return destroys the importer, at its end.           *)
(***************************************************************************)
\* Variant: what open returns is not looked at.
OpenUnchecked == place = "open" /\ Open /\ Go("init")

OpenFile == place = "open" /\ Open /\ Go(IF owner' = "idle" THEN "init" ELSE "return")

SdlFails == place \in {"init", "create"} /\ Stays /\ Go("return")

SdlInit == place = "init" /\ Stays /\ Go("create")

\* The window, its renderer and the texture.  Of the window nothing is asked.
CreateWindow ==
  /\ place = "create" /\ ~window
  /\ Stays
  /\ window' = TRUE
  /\ UNCHANGED <<place, isquit, pending, happened, drawn>>

CreateTexture == place = "create" /\ window /\ Stays /\ Go("start")

Start == place = "start" /\ StopWorking("startDecoder") /\ Go("starting")

Started == place = "starting" /\ owner = "idle" /\ Stays /\ Go("test")

(***************************************************************************)
(* The loop.                                                               *)
(***************************************************************************)
LoopTest == place = "test" /\ Stays /\ Go(IF isquit THEN "destroy" ELSE "poll")

\* Variant: the last event decides.
QuitIsLast(event) == event = "quit"
Quits(event) == isquit \/ event = "quit"

PollEvent ==
  /\ place = "poll" /\ pending # <<>>
  /\ Stays
  /\ isquit' = Quits(Head(pending))
  /\ pending' = Tail(pending)
  /\ UNCHANGED <<place, happened, drawn, window>>

NoEvent == place = "poll" /\ pending = <<>> /\ Stays /\ Go("read")

\* read_frame returns nullptr and main sleeps, or it is entered.
ReadNothing == place = "read" /\ ~needRefresh /\ Stays /\ Go("test")
ReadPicture == place = "read" /\ ReadFrame /\ Go("reading")

\* Variant: a frame is not drawn after the first.
DrawFirst ==
  /\ place = "reading" /\ owner = "idle"
  /\ Stays
  /\ drawn' = IF drawn = 0 THEN shown ELSE drawn
  /\ place' = "test"
  /\ UNCHANGED <<isquit, pending, happened, window>>

\* The copy is drawn and deleted.
Draw ==
  /\ place = "reading" /\ owner = "idle"
  /\ Stays
  /\ drawn' = shown
  /\ place' = "test"
  /\ UNCHANGED <<isquit, pending, happened, window>>

(***************************************************************************)
(* The end.                                                                *)
(***************************************************************************)
DestroyWindow ==
  /\ place = "destroy"
  /\ Stays
  /\ window' = FALSE
  /\ place' = "return"
  /\ UNCHANGED <<isquit, pending, happened, drawn>>

\* Variant: the process is left without its destructors.
Exit == place = "return" /\ Stays /\ Go("returned")

Return == place = "return" /\ StopWorking("destroyed") /\ Go("returning")

Returned == place = "returning" /\ owner = "destroyed" /\ Stays /\ Go("returned")

Ended == place = "returned" /\ UNCHANGED playerVars

(***************************************************************************)
(* The user, while there is a window; and the importer's own steps.        *)
(***************************************************************************)
UserEvent(event) ==
  /\ window /\ happened < MaxEvents
  /\ Stays
  /\ pending' = Append(pending, event)
  /\ happened' = happened + 1
  /\ UNCHANGED <<place, isquit, drawn, window>>

MainNext == OpenFile \/ SdlFails \/ SdlInit \/ CreateWindow \/ CreateTexture \/ Start \/ Started
              \/ LoopTest \/ PollEvent \/ NoEvent \/ ReadNothing \/ ReadPicture \/ Draw
              \/ DestroyWindow \/ Return \/ Returned

Importer(step) == step /\ Waits

PlayerNext ==
  \/ MainNext \/ Ended
  \/ \E event \in {"quit", "other"} : UserEvent(event)
  \/ Importer(OwnerInCall) \/ Importer(DemuxerNext) \/ Importer(DecoderNext)

PlayerSpec == PlayerInit /\ [][PlayerNext]_playerVars

\* Every thread that can run keeps running and the source answers each read.
PlayerFairSpec ==
  /\ PlayerSpec
  /\ WF_playerVars(MainNext) /\ WF_playerVars(Importer(OwnerInCall))
  /\ WF_playerVars(Importer(DemuxerNext)) /\ WF_playerVars(Importer(DecoderNext))
==============================================================================
