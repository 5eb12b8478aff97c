---------------------------- MODULE PlayerProofs ----------------------------
(***************************************************************************)
(* Proofs that main calls the importer only where it can be called, has    *)
(* both threads running for as long as it waits for their pictures, and    *)
(* leaves nothing running.                                                 *)
(***************************************************************************)
EXTENDS PlayerProperties, MediaImporterProofs

\* Each step of the program is one of the importer or none of it.
LEMMA ImporterSteps == [PlayerNext]_playerVars => [Next]_vars
<1> SUFFICES ASSUME [PlayerNext]_playerVars PROVE [Next]_vars OBVIOUS
<1>1. CASE MainNext
  <2>1. CASE OpenFile BY <2>1 DEF OpenFile, Next, OwnerCalls
  <2>2. CASE ReadPicture BY <2>2 DEF ReadPicture, Next, OwnerCalls
  <2>3. CASE Start BY <2>3 DEF Start, Next, OwnerCalls
  <2>4. CASE Return BY <2>4 DEF Return, Next, OwnerCalls
  <2>5. CASE SdlFails \/ SdlInit \/ CreateWindow \/ CreateTexture \/ Started \/ LoopTest
              \/ PollEvent \/ NoEvent \/ ReadNothing \/ Draw \/ DestroyWindow \/ Returned
    BY <2>5 DEF SdlFails, SdlInit, CreateWindow, CreateTexture, Started, LoopTest, PollEvent,
                NoEvent, ReadNothing, Draw, DestroyWindow, Returned, Stays
  <2> QED BY <1>1, <2>1, <2>2, <2>3, <2>4, <2>5 DEF MainNext
<1>2. CASE Ended \/ \E event \in {"quit", "other"} : UserEvent(event)
  BY <1>2 DEF Ended, UserEvent, Stays, playerVars
<1>3. CASE Importer(OwnerInCall) \/ Importer(DemuxerNext) \/ Importer(DecoderNext)
  BY <1>3 DEF Importer, Next
<1>4. CASE UNCHANGED playerVars BY <1>4 DEF playerVars
<1> QED BY <1>1, <1>2, <1>3, <1>4 DEF PlayerNext

\* All that is proved of the importer holds in the program.
LEMMA ImporterInProgram == PlayerSpec => Spec
<1>1. PlayerInit => Init BY DEF PlayerInit
<1> QED BY <1>1, ImporterSteps, PTL DEF PlayerSpec, Spec

(***************************************************************************)
(* The inductive invariant.                                                *)
(***************************************************************************)
\* A thread's own steps leave the owner where it is, and end the thread only once
\* it has been asked to.
LEMMA ThreadSteps ==
  ASSUME DemuxerNext \/ DecoderNext
  PROVE  /\ after' = after
         /\ owner' = owner
         /\ Plays(demuxer, shouldExitDemuxer) => Plays(demuxer, shouldExitDemuxer)'
         /\ Plays(decoder, shouldExitDecoder) => Plays(decoder, shouldExitDecoder)'
<1> USE DEF Plays, demuxerVars, decoderVars, flagVars, ownerVars
<1>1. CASE DemuxerNext
  BY <1>1 DEF DemuxerNext, DemuxerTest, DemuxerCheck, DemuxerRead, DemuxerEnqueue, Drain, DrainDone,
              ExitRequested
<1>2. CASE DecoderNext
  BY <1>2 DEF DecoderNext, DecoderTest, DecoderFindsNothing, DecoderDequeue, DecoderDecode,
              PublishLock, PublishPicture, ExitRequested
<1> QED BY <1>1, <1>2

\* The owner goes on with its call: stop_working's steps in turn, then what it is
\* called for, or read_frame's.
LEMMA OwnerSteps ==
  ASSUME OwnerInCall
  PROVE  /\ after' = after
         /\ \/ owner \in {"lock", "copy"} /\ owner' \in {"copy", "idle"} /\ UNCHANGED <<demuxer, decoder, flagVars>>
            \/ owner \in InStop /\ owner' \in InStop \union {after}
               /\ (owner' \notin InStop => UNCHANGED <<demuxer, decoder, flagVars>>)
            \/ owner = "startDecoder" /\ owner' = "startDemuxer" /\ Plays(decoder, shouldExitDecoder)'
            \/ /\ owner = "startDemuxer" /\ owner' = "idle" /\ Plays(demuxer, shouldExitDemuxer)'
               /\ UNCHANGED <<decoder, shouldExitDecoder>>
<1> USE DEF InStop, demuxerVars, decoderVars, flagVars
<1>1. CASE LockPicture \/ CopyPicture BY <1>1 DEF LockPicture, CopyPicture
<1>2. CASE JoinDecoder \/ JoinDemuxer BY <1>2 DEF JoinDecoder, JoinDemuxer
<1>3. CASE Drain("owner") \/ DrainDone("owner")
  BY <1>3 DEF Drain, DrainDone, Draining, ownerVars
<1>4. CASE StartDecoder BY <1>4 DEF StartDecoder, Plays
<1>5. CASE StartDemuxer BY <1>5 DEF StartDemuxer, Plays
<1> QED BY <1>1, <1>2, <1>3, <1>4, <1>5 DEF OwnerInCall

\* main has opened nothing yet.
LEMMA MainInit == PlayerInit => MainInv
BY DEF PlayerInit, Init, MainInv, CallsInTurn, LoopPlays, Places

\* Every step keeps the invariant.
LEMMA MainStep == MainInv /\ [PlayerNext]_playerVars => MainInv'
<1> SUFFICES ASSUME MainInv, [PlayerNext]_playerVars PROVE MainInv' OBVIOUS
<1> USE DEF MainInv, CallsInTurn, LoopPlays, Places
<1>1. CASE OpenFile
  BY <1>1 DEF OpenFile, Open, Go
<1>2. CASE ReadPicture
  BY <1>2 DEF ReadPicture, ReadFrame, Go, demuxerVars, decoderVars, flagVars, Plays
<1>3. CASE Start BY <1>3 DEF Start, StopWorking, Go, InStop
<1>4. CASE Return BY <1>4 DEF Return, StopWorking, Go, InStop
<1>5. CASE SdlFails \/ SdlInit \/ CreateWindow \/ CreateTexture \/ Started \/ LoopTest \/ PollEvent
            \/ NoEvent \/ ReadNothing \/ Draw \/ DestroyWindow \/ Returned \/ Ended
            \/ (\E event \in {"quit", "other"} : UserEvent(event)) \/ UNCHANGED playerVars
  <2>1. UNCHANGED <<owner, after, demuxer, decoder, shouldExitDemuxer, shouldExitDecoder>>
    BY <1>5 DEF SdlFails, SdlInit, CreateWindow, CreateTexture, Started, LoopTest, PollEvent, NoEvent,
                ReadNothing, Draw, DestroyWindow, Returned, Ended, UserEvent, Stays, playerVars, vars,
                demuxerVars, decoderVars, flagVars, ownerVars
  <2>2. \/ place' = place
        \/ place \in {"init", "create"} /\ place' \in {"create", "start", "return"}
        \/ place = "starting" /\ owner = "idle" /\ place' = "test"
        \/ place \in {"test", "poll", "read"} /\ place' \in {"test", "poll", "read", "destroy"}
        \/ place = "reading" /\ owner = "idle" /\ place' = "test"
        \/ place = "destroy" /\ place' = "return"
        \/ owner = "destroyed" /\ place' = "returned"
    BY <1>5 DEF SdlFails, SdlInit, CreateWindow, CreateTexture, Started, LoopTest, PollEvent, NoEvent,
                ReadNothing, Draw, DestroyWindow, Returned, Ended, UserEvent, Go, playerVars, mainVars
  <2> QED BY <2>1, <2>2 DEF Plays
<1>6. CASE Importer(DemuxerNext) \/ Importer(DecoderNext)
  <2>1. place' = place /\ owner' = owner /\ after' = after
    BY <1>6, ThreadSteps DEF Importer, Waits, mainVars
  <2>2. /\ Plays(demuxer, shouldExitDemuxer) => Plays(demuxer, shouldExitDemuxer)'
        /\ Plays(decoder, shouldExitDecoder) => Plays(decoder, shouldExitDecoder)'
    BY <1>6, ThreadSteps DEF Importer
  <2> QED BY <2>1, <2>2
<1>7. CASE Importer(OwnerInCall)
  <2>1. place' = place /\ OwnerInCall BY <1>7 DEF Importer, Waits, mainVars
  <2>2. place \in {"starting", "reading", "returning"} BY <2>1, OwnerSteps DEF InStop
  <2>3. CASE place = "reading" BY <2>1, <2>3, OwnerSteps DEF InStop, Plays, flagVars
  <2>4. CASE place = "returning" BY <2>1, <2>4, OwnerSteps DEF InStop
  <2>5. CASE place = "starting" BY <2>1, <2>5, OwnerSteps DEF InStop, Plays, flagVars
  <2> QED BY <2>2, <2>3, <2>4, <2>5
<1> QED BY <1>1, <1>2, <1>3, <1>4, <1>5, <1>6, <1>7 DEF PlayerNext, MainNext

\* Where main's calls stand, and which threads run by then.
THEOREM MainInvariant == PlayerSpec => []MainInv
<1> QED BY MainInit, MainStep, PTL DEF PlayerSpec

(***************************************************************************)
(* The theorems.                                                           *)
(***************************************************************************)
\* None of main's calls comes where the importer cannot take it.
THEOREM MainCallsInTurn == PlayerSpec => []CallsInTurn
<1>1. MainInv => CallsInTurn BY DEF MainInv
<1> QED BY <1>1, MainInvariant, PTL

\* For as long as main waits for pictures, both threads are at work.
THEOREM MainLoopPlays == PlayerSpec => []LoopPlays
<1>1. MainInv => LoopPlays BY DEF MainInv
<1> QED BY <1>1, MainInvariant, PTL

\* However main returns, no thread runs and no frame is in any hand.
THEOREM NothingIsLeftRunning == PlayerSpec => []NothingLeftRunning
<1>1. MainInv /\ QuiescentAfterStop => NothingLeftRunning
  BY DEF MainInv, QuiescentAfterStop, NothingLeftRunning
<1> QED BY <1>1, MainInvariant, ImporterInProgram, StopQuiesces, PTL
==============================================================================
