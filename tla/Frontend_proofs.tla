---------------------------- MODULE Frontend_proofs ----------------------------
(***************************************************************************)
(* Proofs about the two browsers: the operator console (Console) and the   *)
(* player's (PlayerClient).                                                *)
(***************************************************************************)
EXTENDS Console, PlayerClient, TLAPS

------------------------------------------------------------------------------
(* The console's microphone.                                               *)

\* While Record was not pressed twice for one prompt there is one prompt or
\* one stream, never both, and a stream only while the panel says it records.
OneTake ==
    ~overlap => /\ prompts = 0 \/ (prompts = 1 /\ ~recording)
                /\ live \subseteq {stream}
                /\ ~recording => live = {}

MicInv ==
    /\ recording \in BOOLEAN
    /\ overlap \in BOOLEAN
    /\ prompts \in Nat
    /\ OneTake

LEMMA MicInvInit ==
    ASSUME Init PROVE MicInv
  BY DEF Init, TuneInit, MicInv, OneTake

LEMMA MicInvPress ==
    ASSUME MicInv, PressRecord PROVE MicInv'
<1>1. overlap' \in BOOLEAN /\ recording' \in BOOLEAN
  BY DEF MicInv, PressRecord
<1>2. prompts \in Nat /\ prompts' = prompts + 1 /\ ~recording
  BY DEF MicInv, PressRecord
<1>4. overlap' = (overlap \/ prompts > 0)
  BY DEF PressRecord
<1>5. ~overlap' => ~overlap /\ ~(prompts > 0)
  BY <1>4, Zenon
<1>3. OneTake'
  BY <1>1, <1>2, <1>5 DEF MicInv, OneTake, PressRecord
<1> QED BY <1>1, <1>2, <1>3 DEF MicInv

LEMMA MicInvGranted ==
    ASSUME MicInv, Granted PROVE MicInv'
  BY DEF MicInv, OneTake, Granted

LEMMA MicInvDenied ==
    ASSUME MicInv, Denied PROVE MicInv'
<1>1. live' = live \ {stream} /\ recording' = FALSE
  BY DEF Denied, Release
<1>2. prompts' \in Nat /\ prompts' = prompts - 1 /\ overlap' = overlap
  BY DEF MicInv, Denied
<1>3. OneTake'
  BY <1>1, <1>2 DEF MicInv, OneTake
<1> QED BY <1>1, <1>2, <1>3 DEF MicInv

LEMMA MicInvStopped ==
    ASSUME MicInv, NEW s \in Streams, Stopped(s) PROVE MicInv'
  BY DEF MicInv, OneTake, Stopped, Release

LEMMA MicInvLeave ==
    ASSUME MicInv, TuneLeave PROVE MicInv'
  BY DEF MicInv, OneTake, TuneLeave

LEMMA MicInvStill ==
    ASSUME MicInv, UNCHANGED <<prompts, live, stream, recording, overlap>> PROVE MicInv'
  BY DEF MicInv, OneTake

\* Jobs and audio have nothing to do with the microphone.
LEMMA JobsAndAudioLeaveMic ==
    ASSUME JobStep \/ AudioStep
    PROVE UNCHANGED micVars
<1>1. CASE JobStep
  BY <1>1 DEF JobStep, JobEnds, JobRemoved, PublishJob, AskOverview, DeliverOverview, LoseOverview,
              AskJob, DeliverJob, LoseJob, Submit, Enqueue, DeliverPost
<1>2. CASE AudioStep
  BY <1>2 DEF AudioStep, PublishSamples, AskOverview, DeliverOverview, PickSample, DeliverAudio
<1> QED BY <1>1, <1>2

LEMMA MicInvTalk ==
    ASSUME MicInv, MicStep PROVE MicInv'
<1>1. CASE AskOverview \/ DeliverOverview \/ Submit \/ Enqueue \/ DeliverPost
  BY <1>1, MicInvStill DEF AskOverview, DeliverOverview, Submit, Enqueue, DeliverPost, micVars
<1>2. CASE StopRecording \/ StrayAnswered
  BY <1>2, MicInvStill DEF StopRecording, StrayAnswered
<1> QED BY <1>1, <1>2, MicInvPress, MicInvGranted, MicInvDenied, MicInvStopped DEF MicStep

LEMMA MicInvNext ==
    ASSUME MicInv, [Next]_vars PROVE MicInv'
<1>1. CASE UNCHANGED tuneVars
  BY <1>1, MicInvStill DEF tuneVars, micVars
<1>2. CASE TuneEnter
  BY <1>2, MicInvStill DEF TuneEnter, micVars
<1>3. CASE TuneLeave
  BY <1>3, MicInvLeave
<1>4. CASE TuneAction
  BY <1>4, MicInvTalk, MicInvStill, JobsAndAudioLeaveMic DEF TuneAction, micVars
<1> QED BY <1>1, <1>2, <1>3, <1>4
        DEF Next, vars, Unlock, Lock, SelectTab, Enter, Leave, DeckAction

\* Every capturing stream is the one the panel will release, if Record was
\* not pressed twice for one permission prompt (TunePanel.jsx:526).
THEOREM MicReleased == Spec => []NoMicLeftOpen
<1>1. MicInv => NoMicLeftOpen
  BY DEF MicInv, OneTake, NoMicLeftOpen
<1> QED BY <1>1, MicInvInit, MicInvNext, PTL DEF Spec

------------------------------------------------------------------------------
(* The player's recordings.                                                *)

Intents == {"send", "discard", "auto"}
Mics == [prompts : Nat, rec : {"none", "recording", "stopping"}, intent : Intents,
         first : Intents \cup {"none"}, leaked : Nat,
         status : {"idle", "recording", "uploading"}]
StoppingTakes == [at : {"stopping"}, first : Intents \cup {"none"}, intent : Intents]
Strays == {Nothing, [at |-> "prompt"], [at |-> "recording"]} \cup StoppingTakes

\* A request that carries a recording carries one that was not discarded.
Calls == [at : {"sent", "ok", "re_record", "409", "401", "error"},
          kind : {"upload", "confirm", "guess"}, option : Options \cup {NoOption},
          first : {"none", "send", "auto"}, tok : Nat, alive : BOOLEAN]

ClientTypes ==
    /\ players \in Nat /\ token \in Nat
    /\ mic \in Mics /\ stray \in Strays
    /\ request \in [Requests -> {Nothing} \cup Calls]

\* Whoever stopped a recording first, with discard or not, is not overruled.
FirstStopDecides ==
    /\ mic.first = "discard" => mic.intent = "discard"
    /\ stray \in StoppingTakes /\ stray.first = "discard" => stray.intent = "discard"

TakeInv == ClientTypes /\ FirstStopDecides

LEMMA LeftBehindTyped ==
    ASSUME TakeInv
    PROVE /\ LeftBehind \in Strays
          /\ LeftBehind \in StoppingTakes /\ LeftBehind.first = "discard" => LeftBehind.intent = "discard"
<1>1. CASE mic.rec # "none"
  <2>1. LeftBehind = [at |-> "stopping", first |-> mic.first, intent |-> mic.intent]
    BY <1>1, Zenon DEF LeftBehind
  <2> QED BY <2>1 DEF TakeInv, ClientTypes, FirstStopDecides, Strays, StoppingTakes, Mics
<1>2. CASE mic.rec = "none" /\ mic.prompts > 0
  <2>1. LeftBehind = [at |-> "prompt"]
    BY <1>2, Zenon DEF LeftBehind
  <2> QED BY <2>1 DEF Strays, StoppingTakes
<1>3. CASE mic.rec = "none" /\ ~(mic.prompts > 0)
  <2>1. LeftBehind = stray
    BY <1>3, Zenon DEF LeftBehind
  <2> QED BY <2>1 DEF TakeInv, ClientTypes, FirstStopDecides
<1> QED BY <1>1, <1>2, <1>3

\* The recorders after a step: as they were, or with their screen gone.
MicKept == UNCHANGED <<mic, stray>>
MicGone == mic' = NoMic /\ stray' = LeftBehind

LEMMA TakesAfterScreen ==
    ASSUME TakeInv, MicKept \/ MicGone
    PROVE mic' \in Mics /\ stray' \in Strays /\ FirstStopDecides'
<1>1. CASE MicKept
  BY <1>1 DEF MicKept, TakeInv, ClientTypes, FirstStopDecides
<1>2. CASE MicGone
  <2>1. NoMic \in Mics /\ NoMic.first = "none"
    BY DEF NoMic, Mics, Intents
  <2> QED BY <1>2, <2>1, LeftBehindTyped DEF MicGone, FirstStopDecides
<1> QED BY <1>1, <1>2

LEMMA SwapScreens ==
    ASSUME NEW u, NEW v, Swap(u, v)
    PROVE MicKept \/ MicGone
  BY DEF Swap, MicKept, MicGone

\* A request keeps what it carries when its callback is dropped.
LEMMA CallbacksTyped ==
    ASSUME TakeInv, NEW keep \in BOOLEAN, Callbacks(keep)
    PROVE request' \in [Requests -> {Nothing} \cup Calls]
<1>1. ASSUME NEW p \in Requests, request[p] # Nothing
      PROVE [request[p] EXCEPT !.alive = @ /\ keep] \in Calls
  BY <1>1 DEF TakeInv, ClientTypes, Calls
<1> QED BY <1>1 DEF Callbacks

\* Whatever the requests and the microphone are left as.
LEMMA TakeInvAfter ==
    ASSUME TakeInv, MicKept \/ MicGone,
           players' \in Nat, token' \in Nat,
           request' \in [Requests -> {Nothing} \cup Calls]
    PROVE TakeInv'
  BY TakesAfterScreen DEF TakeInv, ClientTypes

LEMMA TakeInvShow ==
    ASSUME TakeInv, NEW v, ShowView(v), UNCHANGED <<players, token>>
    PROVE TakeInv'
<1>1. MicKept \/ MicGone
  BY SwapScreens DEF ShowView
<1>2. request' \in [Requests -> {Nothing} \cup Calls]
  BY CallbacksTyped DEF ShowView
<1> QED BY <1>1, <1>2, TakeInvAfter DEF TakeInv, ClientTypes

LEMMA TakeInvSignedOut ==
    ASSUME TakeInv, Unauthorized, UNCHANGED players,
           request' \in [Requests -> {Nothing} \cup Calls]
    PROVE TakeInv'
<1>1. MicKept \/ MicGone
  BY SwapScreens DEF Unauthorized
<1>2. token' \in Nat /\ players' \in Nat
  BY DEF Unauthorized, TakeInv, ClientTypes
<1> QED BY <1>1, <1>2, TakeInvAfter

LEMMA TakeInvPoll ==
    ASSUME TakeInv, PollStep
    PROVE TakeInv'
<1>1. CASE Tick \/ TickError
  BY <1>1, TakeInvAfter DEF Tick, TickError, screenVars, MicKept, TakeInv, ClientTypes
<1>2. CASE TickState
  <2>1. CASE tick.view.version = seen
    BY <1>2, <2>1, TakeInvAfter DEF TickState, screenVars, MicKept, TakeInv, ClientTypes
  <2>2. CASE tick.view.version # seen
    BY <1>2, <2>2, TakeInvShow DEF TickState
  <2> QED BY <2>1, <2>2
<1>3. CASE Tick401 \/ Ghost401
  <2>1. Unauthorized /\ Callbacks(FALSE) /\ UNCHANGED players
    BY <1>3 DEF Tick401, Ghost401
  <2> QED BY <2>1, TakeInvSignedOut, CallbacksTyped
<1> QED BY <1>1, <1>2, <1>3 DEF PollStep

LEMMA TakeInvLoop ==
    ASSUME TakeInv, LoopStep
    PROVE TakeInv'
<1>1. CASE LoopSend \/ ServePair \/ LoopAgain \/ LoopEnds
  BY <1>1, TakeInvAfter
     DEF LoopSend, ServePair, LoopAgain, LoopEnds, screenVars, MicKept, TakeInv, ClientTypes
<1>2. CASE Loop401
  <2>1. Unauthorized /\ Callbacks(FALSE) /\ UNCHANGED players
    BY <1>2 DEF Loop401
  <2> QED BY <2>1, TakeInvSignedOut, CallbacksTyped
<1> QED BY <1>1, <1>2 DEF LoopStep

LEMMA TakeInvJoin ==
    ASSUME TakeInv, AskJoin \/ Joined \/ JoinFails \/ SeatMoves
    PROVE TakeInv'
  BY TakeInvAfter
     DEF AskJoin, Joined, JoinFails, SeatMoves, netVars, screenVars, MicKept, TakeInv, ClientTypes

LEMMA StopTyped ==
    ASSUME TakeInv, NEW i \in Intents
    PROVE /\ Stop(mic, i) \in Mics
          /\ Stop(mic, i).first = "discard" => Stop(mic, i).intent = "discard"
<1>1. CASE mic.rec # "recording"
  BY <1>1 DEF Stop, TakeInv, ClientTypes, FirstStopDecides
<1>2. CASE mic.rec = "recording"
  <2>1. Stop(mic, i) = [mic EXCEPT !.rec = "stopping", !.intent = i, !.first = i]
    BY <1>2 DEF Stop
  <2>2. mic \in Mics
    BY DEF TakeInv, ClientTypes
  <2> QED BY <2>1, <2>2 DEF Mics
<1> QED BY <1>1, <1>2

\* A recorder after a step of useRecorder.
LEMMA TakesAfterTalk ==
    ASSUME TakeInv, UNCHANGED <<netVars, stray, request>>,
           mic' \in Mics, mic'.first = "discard" => mic'.intent = "discard"
    PROVE TakeInv'
  BY DEF TakeInv, ClientTypes, FirstStopDecides, netVars

LEMMA NextPostFree ==
    ASSUME CanPost
    PROVE NextPost \in Requests /\ request[NextPost] = Nothing
  BY DEF CanPost, NextPost

LEMMA SendTyped ==
    ASSUME TakeInv, CanPost, NEW kind \in {"upload", "confirm", "guess"},
           NEW option \in Options \cup {NoOption},
           NEW first \in {"none", "send", "auto"},
           Send(kind, option, first)
    PROVE request' \in [Requests -> {Nothing} \cup Calls]
<1>1. [at |-> "sent", kind |-> kind, option |-> option, first |-> first,
       tok |-> token, alive |-> TRUE] \in Calls
  BY DEF Calls, TakeInv, ClientTypes
<1> QED BY <1>1, NextPostFree DEF Send, TakeInv, ClientTypes

LEMMA SendStrayTyped ==
    ASSUME TakeInv, CanPost, NEW first \in {"none", "send", "auto"}, SendStray(first)
    PROVE request' \in [Requests -> {Nothing} \cup Calls]
<1>1. [at |-> "sent", kind |-> "upload", option |-> NoOption, first |-> first,
       tok |-> token, alive |-> FALSE] \in Calls
  BY DEF Calls, TakeInv, ClientTypes
<1> QED BY <1>1, NextPostFree DEF SendStray, TakeInv, ClientTypes

LEMMA TakeInvOnStop ==
    ASSUME TakeInv, OnStop
    PROVE TakeInv'
<1>1. PICK st \in {"idle", "uploading"} :
        mic' = [mic EXCEPT !.rec = "none", !.status = st, !.first = "none"]
  BY DEF OnStop
<1>2. mic' \in Mics /\ mic'.first = "none"
  <2>1. mic \in Mics
    BY DEF TakeInv, ClientTypes
  <2> QED BY <1>1, <2>1 DEF Mics
<1>3. request' \in [Requests -> {Nothing} \cup Calls]
  <2>1. CASE UNCHANGED request
    BY <2>1 DEF TakeInv, ClientTypes
  <2>2. CASE mic.intent # "discard" /\ CanPost /\ Send("upload", NoOption, mic.first)
    <3>1. mic.first \in {"none", "send", "auto"}
      BY <2>2 DEF TakeInv, ClientTypes, FirstStopDecides, Mics, Intents
    <3> QED BY <2>2, <3>1, SendTyped
  <2> QED BY <2>1, <2>2 DEF OnStop
<1>4. UNCHANGED <<netVars, stray>>
  BY DEF OnStop, MicStill
<1> QED BY <1>2, <1>3, <1>4 DEF TakeInv, ClientTypes, FirstStopDecides, netVars

LEMMA TakeInvStray ==
    ASSUME TakeInv, Stray
    PROVE TakeInv'
<1>1. UNCHANGED <<netVars, mic>>
  BY DEF Stray, MicStill
<1>2. stray' \in Strays /\ (stray' \in StoppingTakes /\ stray'.first = "discard" => FALSE)
  BY DEF Stray, Strays, StoppingTakes, Nothing, Intents
<1>3. request' \in [Requests -> {Nothing} \cup Calls]
  <2>1. CASE UNCHANGED request
    BY <2>1 DEF TakeInv, ClientTypes
  <2>2. CASE stray.at = "stopping" /\ stray.intent # "discard" /\ CanPost /\ SendStray(stray.first)
    <3>1. stray \in StoppingTakes
      BY <2>2 DEF TakeInv, ClientTypes, Strays, Nothing
    <3>2. stray.first \in {"none", "send", "auto"}
      BY <2>2, <3>1 DEF TakeInv, FirstStopDecides, StoppingTakes, Intents
    <3> QED BY <2>2, <3>2, SendStrayTyped
  <2> QED BY <2>1, <2>2 DEF Stray
<1> QED BY <1>1, <1>2, <1>3 DEF TakeInv, ClientTypes, FirstStopDecides, netVars

LEMMA TakeInvTalk ==
    ASSUME TakeInv, Talk
    PROVE TakeInv'
<1>m. mic \in Mics /\ (mic.first = "discard" => mic.intent = "discard")
  BY DEF TakeInv, ClientTypes, FirstStopDecides
<1>1. CASE Press
  <2>1. mic' = [mic EXCEPT !.prompts = mic.prompts + 1]
    BY <1>1 DEF Press
  <2>2. mic' \in Mics /\ (mic'.first = "discard" => mic'.intent = "discard")
    BY <1>m, <2>1 DEF Mics
  <2> QED BY <1>1, <2>2, TakesAfterTalk DEF Press, MicStill
<1>2. CASE Opens
  <2>1. PICK n \in {mic.leaked, mic.leaked + 1} :
          mic' = [mic EXCEPT !.prompts = mic.prompts - 1, !.rec = "recording", !.intent = "send",
                             !.first = "none", !.status = "recording", !.leaked = n]
    BY <1>2 DEF Opens
  <2>2. mic.prompts > 0
    BY <1>2 DEF Opens
  <2>3. mic' \in Mics /\ mic'.first = "none"
    <3>1. n \in Nat /\ mic.prompts - 1 \in Nat
      BY <1>m, <2>2 DEF Mics
    <3>2. [mic EXCEPT !.prompts = mic.prompts - 1, !.rec = "recording", !.intent = "send",
                      !.first = "none", !.status = "recording", !.leaked = n] \in Mics
      <4> DEFINE m == [mic EXCEPT !.prompts = mic.prompts - 1, !.rec = "recording", !.intent = "send"]
      <4>1. m \in Mics
        BY <1>m, <3>1 DEF Mics, Intents
      <4>2. ASSUME NEW r \in Mics
            PROVE [r EXCEPT !.first = "none", !.status = "recording", !.leaked = n] \in Mics
        BY <3>1 DEF Mics
      <4> HIDE DEF m
      <4>3. [m EXCEPT !.first = "none", !.status = "recording", !.leaked = n] \in Mics
        BY <4>1, <4>2
      <4> QED BY <4>3 DEF m
    <3>3. mic'.first = "none"
      BY <1>m, <2>1 DEF Mics
    <3> QED BY <2>1, <3>2, <3>3
  <2> QED BY <1>2, <2>3, TakesAfterTalk DEF Opens, MicStill
<1>3. CASE Refused
  <2>1. mic' = [mic EXCEPT !.prompts = mic.prompts - 1] /\ mic.prompts > 0
    BY <1>3 DEF Refused
  <2>2. mic' \in Mics /\ (mic'.first = "discard" => mic'.intent = "discard")
    BY <1>m, <2>1 DEF Mics
  <2> QED BY <1>3, <2>2, TakesAfterTalk DEF Refused, MicStill
<1>4. CASE LetGo \/ HardStop
  <2>1. \E i \in Intents : mic' = Stop(mic, i)
    BY <1>4 DEF LetGo, HardStop, Intents
  <2> QED BY <1>4, <2>1, StopTyped, TakesAfterTalk DEF LetGo, HardStop, MicStill
<1>5. CASE Hide
  <2>1. mic' = [Stop(mic, "discard") EXCEPT !.status = "idle"]
    BY <1>5 DEF Hide
  <2>2. Stop(mic, "discard") \in Mics
        /\ (Stop(mic, "discard").first = "discard" => Stop(mic, "discard").intent = "discard")
    BY StopTyped DEF Intents
  <2>3. mic' \in Mics /\ (mic'.first = "discard" => mic'.intent = "discard")
    BY <2>1, <2>2 DEF Mics
  <2> QED BY <1>5, <2>3, TakesAfterTalk DEF Hide, MicStill
<1> QED BY <1>1, <1>2, <1>3, <1>4, <1>5, TakeInvOnStop, TakeInvStray DEF Talk

Replies == {"ok", "re_record", "409", "401"}

LEMMA RepliesOf ==
    ASSUME NEW t, NEW allowed \in BOOLEAN, NEW answers, \A x \in answers : x.answer \in Replies,
           NEW a \in Authenticated(t, Unless(allowed, answers))
    PROVE a.answer \in Replies
  BY DEF Authenticated, Unless, Replies

LEMMA AnswersTyped ==
    ASSUME NEW q \in Calls, NEW a \in Answers(q)
    PROVE a.answer \in Replies
<1>m. \A role, status : May(role, status) \in BOOLEAN
  BY Zenon DEF May
<1>1. CASE q.kind = "upload"
  <2>1. Answers(q) = UploadAnswers(q.tok)
    BY <1>1, Zenon DEF Answers
  <2> DEFINE heard == [seat EXCEPT !.status = "awaiting_label_confirm", !.held = FALSE]
             answers == {[seat |-> heard, answer |-> "ok"], [seat |-> seat, answer |-> "re_record"]}
  <2>2. a \in Authenticated(q.tok, Unless(May(TRUE, "awaiting_audio"), answers))
    BY <2>1, Zenon DEF UploadAnswers, UploadAudio
  <2>3. \A x \in answers : x.answer \in Replies
    <3> HIDE DEF heard
    <3> QED BY DEF Replies
  <2> HIDE DEF answers
  <2> QED BY <1>m, <2>2, <2>3, RepliesOf
<1>2. CASE q.kind = "confirm"
  <2>1. Answers(q) = ConfirmAnswers(q.tok)
    <3>1. q.kind # "upload" /\ q.kind # "guess"
      BY <1>2
    <3> QED BY <1>2, <3>1, Zenon DEF Answers
  <2> DEFINE s == [seat EXCEPT !.status = "awaiting_guess"]
             answers == {[seat |-> s, answer |-> "ok"]}
  <2>2. a \in Authenticated(q.tok, Unless(May(TRUE, "awaiting_label_confirm"), answers))
    BY <2>1, Zenon DEF ConfirmAnswers, ConfirmLabel
  <2>3. \A x \in answers : x.answer \in Replies
    <3> HIDE DEF s
    <3> QED BY DEF Replies
  <2> HIDE DEF answers
  <2> QED BY <1>m, <2>2, <2>3, RepliesOf
<1>3. CASE q.kind = "guess"
  <2>1. Answers(q) = GuessAnswers(q.tok, q.option = Card)
    <3>1. q.kind # "upload" /\ q.kind # "confirm"
      BY <1>3
    <3> QED BY <1>3, <3>1, Zenon DEF Answers
  <2> DEFINE s == IF q.option = Card \/ seat.attempts + 1 >= MaxAttempts THEN Scored
                  ELSE [seat EXCEPT !.attempts = @ + 1]
             answers == {[seat |-> s, answer |-> "ok"]}
  <2>2. a \in Authenticated(q.tok, Unless(May(FALSE, "awaiting_guess"), answers))
    BY <2>1, Zenon DEF GuessAnswers, Guess
  <2>3. \A x \in answers : x.answer \in Replies
    <3> HIDE DEF s
    <3> QED BY DEF Replies
  <2> HIDE DEF answers
  <2> QED BY <1>m, <2>2, <2>3, RepliesOf
<1> QED BY <1>1, <1>2, <1>3 DEF Calls

LEMMA AnsweredTyped ==
    ASSUME TakeInv, NEW p \in Requests, request[p].at = "sent",
           NEW at \in {"ok", "re_record", "409", "401", "error"},
           request' = [request EXCEPT ![p].at = at]
    PROVE request' \in [Requests -> {Nothing} \cup Calls]
<1>1. request[p] \in Calls
  BY DEF TakeInv, ClientTypes, Nothing
<1>2. [request[p] EXCEPT !.at = at] \in Calls
  BY <1>1 DEF Calls
<1> QED BY <1>2 DEF TakeInv, ClientTypes

\* The server leaves the recorders alone, the request answered or failed.
LEMMA Served ==
    ASSUME TakeInv, NEW p \in Requests, ServeRequest(p)
    PROVE \E at \in {"ok", "re_record", "409", "401", "error"} :
            request' = [request EXCEPT ![p].at = at]
<1>1. request[p] \in Calls
  BY DEF TakeInv, ClientTypes, Nothing, ServeRequest
<1>2. CASE request' = [request EXCEPT ![p].at = "error"]
  BY <1>2
<1>3. CASE \E a \in Answers(request[p]) : request' = [request EXCEPT ![p].at = a.answer]
  BY <1>1, <1>3, AnswersTyped DEF Replies
<1> QED BY <1>2, <1>3 DEF ServeRequest

LEMMA TakeInvRequest ==
    ASSUME TakeInv, NEW p \in Requests, PostStep(p)
    PROVE TakeInv'
<1>1. CASE ServeRequest(p)
  <2>1. request' \in [Requests -> {Nothing} \cup Calls]
    BY <1>1, Served, AnsweredTyped DEF ServeRequest
  <2> QED BY <1>1, <2>1, TakeInvAfter DEF ServeRequest, netVars, MicKept, TakeInv, ClientTypes
<1>2. CASE PostDone(p)
  <2>1. request' \in [Requests -> {Nothing} \cup Calls]
    BY <1>2 DEF PostDone, TakeInv, ClientTypes
  <2>2. mic \in Mics /\ (mic.first = "discard" => mic.intent = "discard")
    BY DEF TakeInv, ClientTypes, FirstStopDecides
  <2>3. mic' = mic \/ mic' = [mic EXCEPT !.status = "idle"]
    BY <1>2 DEF PostDone
  <2>4. mic' \in Mics /\ (mic'.first = "discard" => mic'.intent = "discard")
    BY <2>2, <2>3 DEF Mics
  <2> QED BY <1>2, <2>1, <2>4 DEF PostDone, TakeInv, ClientTypes, FirstStopDecides, netVars
<1>3. CASE Post401(p)
  <2>1. ASSUME NEW q \in Requests, request[q] # Nothing
        PROVE [request[q] EXCEPT !.alive = FALSE] \in Calls
    BY <2>1 DEF TakeInv, ClientTypes, Calls
  <2>2. request' \in [Requests -> {Nothing} \cup Calls]
    BY <1>3, <2>1 DEF Post401
  <2> QED BY <1>3, <2>2, TakeInvSignedOut DEF Post401
<1> QED BY <1>1, <1>2, <1>3 DEF PostStep

LEMMA TakeInvConfirmOrPick ==
    ASSUME TakeInv, Confirm \/ \E o \in Options : Pick(o)
    PROVE TakeInv'
<1>1. request' \in [Requests -> {Nothing} \cup Calls]
  BY SendTyped DEF Confirm, Pick
<1> QED BY <1>1, TakeInvAfter DEF Confirm, Pick, netVars, MicKept, TakeInv, ClientTypes

LEMMA TakeInvInit ==
    ASSUME ClientInit PROVE TakeInv
<1>1. mic \in Mics /\ mic.first = "none" /\ stray = Nothing
  BY DEF ClientInit, NoMic, Mics, Intents
<1>2. stray \in Strays /\ stray \notin StoppingTakes
  BY <1>1 DEF Strays, StoppingTakes, Nothing
<1>3. token \in {0, 1} /\ players = token
  BY DEF ClientInit
<1>4. request \in [Requests -> {Nothing} \cup Calls]
  BY DEF ClientInit
<1> QED BY <1>1, <1>2, <1>3, <1>4 DEF TakeInv, ClientTypes, FirstStopDecides

LEMMA TakeInvNext ==
    ASSUME TakeInv, [ClientNext]_clientVars
    PROVE TakeInv'
<1>1. CASE UNCHANGED clientVars
  BY <1>1 DEF clientVars, netVars, screenVars, TakeInv, ClientTypes, FirstStopDecides
<1>2. CASE ClientNext
  BY <1>2, TakeInvJoin, TakeInvPoll, TakeInvLoop, TakeInvTalk, TakeInvConfirmOrPick,
     TakeInvRequest DEF ClientNext
<1> QED BY <1>1, <1>2

\* A take that was discarded before anything else stopped it is not uploaded
\* (useRecorder.js:81).
THEOREM DiscardedTakesStay == ClientSpec => []DiscardedNotSent
<1>1. TakeInv => DiscardedNotSent
  BY DEF TakeInv, ClientTypes, Calls, DiscardedNotSent
<1> QED BY <1>1, TakeInvInit, TakeInvNext, PTL DEF ClientSpec

------------------------------------------------------------------------------
(* The guesser's screen.                                                   *)

Seats == [player : {0, 1}, at : {"onboarding", "turn", "done"}, turn : Nat,
          status : {"none", "awaiting_audio", "awaiting_label_confirm", "awaiting_guess"},
          speaks : BOOLEAN, attempts : Nat, held : BOOLEAN]

Guesses(s) == s.at = "turn" /\ ~s.speaks /\ s.status = "awaiting_guess"
Over(s) == s.at # "turn" \/ s.speaks

\* The seat of a session that opens on the guesser's first turn: that turn, the
\* next one, where it is the speaker's move, or the end.
GuesserSeat(s) ==
    /\ s \in Seats
    /\ s.player = 0 => s.at = "onboarding"
    /\ s.player = 1 => s.at # "onboarding"
    /\ s.at = "turn" /\ ~s.speaks =>
         /\ s.turn = 1 /\ ~s.held /\ s.status # "none"
         /\ s.attempts < MaxAttempts
         /\ s.status # "awaiting_guess" => s.attempts = 0
    /\ s.at = "turn" /\ s.speaks =>
         s.turn = 2 /\ s.turn <= MaxTurns /\ s.status = "awaiting_audio"

LeftNow == MaxAttempts - seat.attempts
OnGuess == joined /\ page.phase = "guessing"
Arrived == tick.at = "state"
Offers == Arrived /\ tick.view.phase = "guessing"

\* A guess whose answer the screen on display still waits for.
Awaited(p) == request[p] # Nothing /\ request[p].alive /\ request[p].at # "ok"

\* Only guesses are asked, and nothing else goes on.
OnlyGuesses ==
    /\ ~joining /\ loop.at = "off" /\ mic = NoMic /\ stray = Nothing
    /\ \A p \in Requests : request[p] # Nothing =>
         /\ request[p].kind = "guess"
         /\ request[p].alive => OnGuess

SeatAndViews ==
    /\ GuesserSeat(seat)
    /\ tick.at \in {"off", "timer", "state", "error", "401"}
    /\ Arrived => tick.view.phase \notin Waiting
    /\ Offers => tick.view.turn.left \in Nat
    /\ OnGuess => prev \in Nat
    /\ OnGuess \/ Offers => Guesses(seat) \/ Over(seat)
    /\ OnGuess /\ Arrived /\ ~Offers => Over(seat)

Unlocked ==
    /\ locked \in Options \cup {NoOption}
    /\ ~joined => tick = Nothing
    /\ ~OnGuess => dead = {} /\ locked = NoOption

LockedByItsGuess ==
    ~blind =>
    /\ \A p \in Requests : Awaited(p) => locked = request[p].option /\ locked # NoOption
    /\ \A p, q \in Requests : Awaited(p) /\ Awaited(q) => p = q

\* Fewer attempts left than on screen: one, for the wrong pick that is locked.
OneWrong(left) ==
    /\ left <= prev
    /\ left < prev =>
         /\ left = prev - 1
         /\ locked \notin {NoOption, Card}
         /\ \A p \in Requests : ~Awaited(p)

AttemptsSeen ==
    ~blind /\ OnGuess =>
         /\ Offers => OneWrong(tick.view.turn.left)
         /\ Guesses(seat) => OneWrong(LeftNow)
         /\ Guesses(seat) /\ Offers => LeftNow <= tick.view.turn.left

NothingGuessedYet ==
    ~blind /\ joined /\ ~OnGuess =>
         /\ Offers => tick.view.turn.left = MaxAttempts
         /\ Guesses(seat) => seat.attempts = 0

GuesserInv == /\ OnlyGuesses /\ SeatAndViews /\ Unlocked /\ LockedByItsGuess
              /\ AttemptsSeen /\ NothingGuessedYet /\ RightAnswerOpen

GuessInv ==
    IF session = "guess" THEN GuesserInv ELSE dead = {} /\ locked = NoOption

ScreenInv == TakeInv /\ GuessInv

\* What a poll shows the guesser.
LEMMA GuesserPhase ==
    ASSUME GuesserSeat(seat), seat.player = 1, NEW b, b = Bundle(seat)
    PROVE /\ Phase(b) \notin Waiting
          /\ Phase(b) = "guessing" <=> Guesses(seat)
<1>t. MaxTurns \in Nat \ {0}
  BY StateViewConstants
<1>0. seat.at \in {"turn", "done"} /\ seat.speaks \in BOOLEAN /\ seat.held \in BOOLEAN
  BY DEF GuesserSeat, Seats
<1>1. CASE seat.at = "done"
  <2>1. RoundsPlayed(seat) = MaxTurns
    <3>1. seat.at # "turn"
      BY <1>1
    <3> QED BY <1>1, <3>1, Zenon DEF RoundsPlayed
  <2>2. b.rounds >= MaxTurns
    BY <1>t, <2>1 DEF Bundle
  <2>3. Phase(b) = "session_done"
    <3>1. ~(b.rounds < MaxTurns)
      BY <1>t, <2>1 DEF Bundle
    <3> QED BY <2>2, <3>1, Zenon DEF Phase
  <2> QED BY <1>1, <2>3 DEF Waiting, Guesses
<1>2. CASE seat.at = "turn"
  <2>1. RoundsPlayed(seat) = seat.turn - 1
    <3>1. seat.at # "done"
      BY <1>2
    <3> QED BY <1>2, <3>1, Zenon DEF RoundsPlayed
  <2>2. seat.turn \in Nat /\ seat.turn <= MaxTurns
    BY <1>t, <1>0, <1>2 DEF GuesserSeat, Seats
  <2>3. b.rounds < MaxTurns /\ ~(b.rounds >= MaxTurns) /\ b.paired /\ b.held = seat.held
    <3>1. b.rounds = seat.turn - 1 /\ b.held = seat.held
      BY <2>1 DEF Bundle
    <3>2. b.paired = (seat.at = "turn")
      BY DEF Bundle
    <3>3. b.rounds < MaxTurns /\ ~(b.rounds >= MaxTurns)
      BY <1>t, <2>2, <3>1
    <3> QED BY <1>2, <3>1, <3>2, <3>3, Zenon
  <2>4. Phase(b) = PhaseForTurn(b)
    BY <2>3, Zenon DEF Phase
  <2>5. LatestTurn(seat) = [id |-> seat.turn, status |-> seat.status,
                            speaks |-> seat.speaks, attempts |-> seat.attempts]
    BY <1>2 DEF LatestTurn
  <2>6. b.turn.status = seat.status /\ b.turn.speaks = seat.speaks
    BY <2>5 DEF Bundle
  <2>7. PhaseForTurn(b) = CASE seat.status = "awaiting_audio" /\ seat.held -> "round_result"
                            [] seat.status = "awaiting_audio" /\ ~seat.held /\ seat.speaks -> "speaking_view_image"
                            [] seat.status = "awaiting_label_confirm" /\ seat.speaks -> "speaking_confirm_label"
                            [] seat.status = "awaiting_guess" /\ ~seat.speaks -> "guessing"
                            [] OTHER -> "waiting_partner"
    BY <2>3, <2>6, Zenon DEF PhaseForTurn
  <2>8. CASE ~seat.speaks /\ seat.status = "awaiting_guess"
    <3>1. seat.status # "awaiting_audio" /\ seat.status # "awaiting_label_confirm"
      BY <2>8
    <3>2. PhaseForTurn(b) = "guessing"
      BY <2>7, <2>8, <3>1, Zenon
    <3> QED BY <1>2, <2>4, <2>8, <3>2 DEF Waiting, Guesses
  <2>9. CASE ~(~seat.speaks /\ seat.status = "awaiting_guess")
    <3>1. CASE seat.status = "awaiting_audio" /\ seat.held
      <4>1. seat.status # "awaiting_label_confirm"
        BY <3>1
      <4>2. PhaseForTurn(b) = "round_result"
        BY <2>7, <2>9, <3>1, <4>1, Zenon
      <4> QED BY <2>4, <2>9, <4>2 DEF Waiting, Guesses
    <3>2. CASE seat.status = "awaiting_audio" /\ ~seat.held /\ seat.speaks
      <4>1. seat.status # "awaiting_label_confirm"
        BY <3>2
      <4>2. PhaseForTurn(b) = "speaking_view_image"
        BY <2>7, <2>9, <3>2, <4>1, Zenon
      <4> QED BY <2>4, <2>9, <4>2 DEF Waiting, Guesses
    <3>3. CASE ~seat.speaks /\ ~(seat.status = "awaiting_audio" /\ seat.held)
      <4>1. PhaseForTurn(b) = "waiting_partner"
        BY <2>7, <2>9, <3>3, Zenon
      <4> QED BY <2>4, <2>9, <4>1 DEF Waiting, Guesses
    <3> QED BY <1>0, <1>2, <3>1, <3>2, <3>3 DEF GuesserSeat
  <2> QED BY <2>8, <2>9
<1> QED BY <1>0, <1>1, <1>2

LEMMA GuesserView ==
    ASSUME GuesserSeat(seat), seat.player = 1
    PROVE /\ View(seat).phase \notin Waiting
          /\ View(seat).phase = "guessing" <=> Guesses(seat)
          /\ Guesses(seat) => View(seat).turn.left = LeftNow
<1> DEFINE b == Bundle(seat)
<1>1. View(seat).phase = Phase(b)
  BY DEF View, Compose
<1>2. ASSUME Guesses(seat) PROVE View(seat).turn.left = LeftNow
  <2>1. Phase(b) = "guessing"
    BY <1>2, GuesserPhase
  <2>2. View(seat).turn = TurnState(b, "guessing")
    BY <2>1 DEF View, Compose
  <2>3. b.turn = [id |-> seat.turn, status |-> seat.status,
                  speaks |-> seat.speaks, attempts |-> seat.attempts]
    BY <1>2 DEF Bundle, LatestTurn, Guesses
  <2>4. b.turn # NoTurn /\ ~b.turn.speaks /\ b.turn.status = "awaiting_guess"
        /\ b.turn.attempts = seat.attempts
    BY <1>2, <2>3 DEF NoTurn, Guesses
  <2> HIDE DEF b
  <2>5. TurnState(b, "guessing").left = MaxAttempts - b.turn.attempts
    BY <2>4 DEF TurnState
  <2> QED BY <2>2, <2>4, <2>5 DEF LeftNow
<1> HIDE DEF b
<1> QED BY <1>1, <1>2, GuesserPhase DEF b

\* A sign-out empties the screen for good.
LEMMA GuesserSignedOut ==
    ASSUME TakeInv, GuesserInv, session = "guess", Unauthorized, tick' = Nothing,
           UNCHANGED <<seat, session, joining, blind>>, loop'.at = "off",
           \A p \in Requests : request'[p] # Nothing =>
             request[p] # Nothing /\ request'[p].kind = request[p].kind /\ ~request'[p].alive
    PROVE GuesserInv'
<1>1. mic' = NoMic /\ stray' = Nothing
  <2>1. LeftBehind = stray
    <3>1. mic.rec = "none" /\ ~(mic.prompts > 0)
      BY DEF GuesserInv, OnlyGuesses, NoMic
    <3> QED BY <3>1, Zenon DEF LeftBehind
  <2> QED BY <2>1 DEF Unauthorized, Swap, GuesserInv, OnlyGuesses
<1>2. joined' = FALSE /\ dead' = {} /\ locked' = NoOption
  BY DEF Unauthorized
<1>3. ~OnGuess' /\ ~Arrived' /\ ~Offers' /\ tick'.at = "off" /\ \A p \in Requests : ~Awaited(p)'
  BY <1>2 DEF OnGuess, Arrived, Offers, Awaited, Nothing
<1>4. OnlyGuesses'
  BY <1>1 DEF GuesserInv, OnlyGuesses
<1>5. SeatAndViews'
  BY <1>3 DEF GuesserInv, SeatAndViews
<1>6. Unlocked' /\ LockedByItsGuess' /\ AttemptsSeen' /\ NothingGuessedYet' /\ RightAnswerOpen'
  BY <1>2, <1>3 DEF Unlocked, LockedByItsGuess, AttemptsSeen, NothingGuessedYet, RightAnswerOpen
<1> QED BY <1>4, <1>5, <1>6 DEF GuesserInv

\* A step that leaves seat, screen and requests as they are, but for the poll.
LEMMA GuesserTick ==
    ASSUME TakeInv, GuesserInv, session = "guess", Tick
    PROVE GuesserInv'
<1>1. UNCHANGED <<seat, joined, joining, page, loop, mic, stray, locked, dead, prev, blind, request>>
  BY DEF Tick, screenVars
<1>2. joined
  BY DEF Tick
<1>3. tick' = StateAnswer(token) \/ tick' = [at |-> "error"]
  BY DEF Tick
<1>4. CASE tick'.at # "state"
  <2>1. tick'.at \in {"401", "error"}
    BY <1>3, <1>4 DEF StateAnswer
  <2>2. ~Arrived' /\ ~Offers'
    BY <1>4 DEF Arrived, Offers
  <2>3. OnlyGuesses' /\ Unlocked' /\ LockedByItsGuess' /\ RightAnswerOpen'
    BY <1>1, <1>2
       DEF GuesserInv, OnlyGuesses, Unlocked, LockedByItsGuess, RightAnswerOpen, OnGuess, Awaited
  <2>4. SeatAndViews'
    BY <1>1, <2>1, <2>2 DEF GuesserInv, SeatAndViews, OnGuess
  <2>5. AttemptsSeen' /\ NothingGuessedYet'
    BY <1>1, <2>2
       DEF GuesserInv, AttemptsSeen, NothingGuessedYet, OnGuess, OneWrong, Awaited, LeftNow
  <2> QED BY <2>3, <2>4, <2>5 DEF GuesserInv
<1>5. CASE tick'.at = "state"
  <2>1. Known(token) /\ tick' = [at |-> "state", view |-> View(seat)]
    BY <1>3, <1>5 DEF StateAnswer
  <2>2. GuesserSeat(seat) /\ seat.player = 1
    BY <2>1 DEF Known, GuesserInv, SeatAndViews, GuesserSeat, Seats
  <2>3. Arrived' /\ tick'.view = View(seat) /\ (Offers' <=> Guesses(seat))
    BY <2>1, <2>2, GuesserView DEF Arrived, Offers
  <2>4. tick'.view.phase \notin Waiting /\ (Guesses(seat) => tick'.view.turn.left = LeftNow)
    BY <2>2, <2>3, GuesserView
  <2>5. Guesses(seat) => LeftNow \in Nat
    BY <2>2, StateViewConstants DEF Guesses, GuesserSeat, Seats, LeftNow
  <2>6. OnlyGuesses' /\ Unlocked' /\ LockedByItsGuess' /\ RightAnswerOpen'
    BY <1>1, <1>2
       DEF GuesserInv, OnlyGuesses, Unlocked, LockedByItsGuess, RightAnswerOpen, OnGuess, Awaited
  <2>7. SeatAndViews'
    BY <1>1, <2>1, <2>2, <2>3, <2>4, <2>5 DEF GuesserInv, SeatAndViews, OnGuess, Guesses, Over
  <2>8. AttemptsSeen'
    BY <1>1, <2>3, <2>4, <2>5
       DEF GuesserInv, AttemptsSeen, OnGuess, OneWrong, Awaited, LeftNow, Guesses
  <2>9. NothingGuessedYet'
    <3>1. Guesses(seat) /\ seat.attempts = 0 => LeftNow = MaxAttempts
      BY StateViewConstants DEF LeftNow
    <3> QED BY <1>1, <2>3, <2>4, <3>1 DEF GuesserInv, NothingGuessedYet, OnGuess, Guesses
  <2> QED BY <2>6, <2>7, <2>8, <2>9 DEF GuesserInv
<1> QED BY <1>4, <1>5

\* The poll waits again, the reply under way dropped.
LEMMA GuesserNoReply ==
    ASSUME GuesserInv, session = "guess", joined, tick' = Timer,
           UNCHANGED <<seat, joined, joining, page, loop, mic, stray, locked, dead, prev, blind, request>>
    PROVE GuesserInv'
<1>1. ~Arrived' /\ ~Offers' /\ tick'.at = "timer"
  BY DEF Arrived, Offers, Timer
<1>2. OnlyGuesses' /\ Unlocked' /\ LockedByItsGuess' /\ RightAnswerOpen'
  BY DEF GuesserInv, OnlyGuesses, Unlocked, LockedByItsGuess, RightAnswerOpen, OnGuess, Awaited
<1>3. SeatAndViews'
  BY <1>1 DEF GuesserInv, SeatAndViews, OnGuess
<1>4. AttemptsSeen' /\ NothingGuessedYet'
  BY <1>1 DEF GuesserInv, AttemptsSeen, NothingGuessedYet, OnGuess, OneWrong, Awaited, LeftNow
<1> QED BY <1>2, <1>3, <1>4 DEF GuesserInv

\* A new view on screen: the verdict of the locked pick, the first view of the
\* guess, or another screen.
LEMMA GuesserShow ==
    ASSUME TakeInv, GuesserInv, session = "guess", TickState, tick.view.version # seen
    PROVE GuesserInv'
<1> DEFINE v == tick.view
<1>1. /\ joined /\ Arrived /\ tick' = Timer /\ ShowView(v)
      /\ UNCHANGED <<seat, joined, joining, blind>>
  BY DEF TickState, Arrived, GuesserInv, Unlocked, Nothing
<1>2. page' = v /\ v.phase \notin Waiting
  BY <1>1 DEF ShowView, GuesserInv, SeatAndViews
<1>3. mic' = NoMic /\ stray' = Nothing
  <2>1. LeftBehind = stray
    <3>1. mic.rec = "none" /\ ~(mic.prompts > 0)
      BY DEF GuesserInv, OnlyGuesses, NoMic
    <3> QED BY <3>1, Zenon DEF LeftBehind
  <2> QED BY <1>1, <2>1 DEF ShowView, Swap, GuesserInv, OnlyGuesses
<1>4. loop'.at = "off"
  BY <1>1, <1>2 DEF ShowView, Episode, GuesserInv, OnlyGuesses
<1>5. ~Arrived' /\ ~Offers' /\ tick'.at = "timer"
  BY <1>1 DEF Arrived, Offers, Timer
<1>6. (OnGuess' <=> Offers) /\ (OnGuess <=> page.phase = "guessing")
  BY <1>1, <1>2 DEF OnGuess, Offers
<1>7. \A p \in Requests :
        /\ request'[p] # Nothing => request[p] # Nothing /\ request'[p].kind = request[p].kind
        /\ request'[p] # Nothing /\ request'[p].alive =>
             /\ request[p].alive /\ request'[p].at = request[p].at
             /\ request'[p].option = request[p].option
             /\ OnGuess => Offers
  <2> SUFFICES ASSUME NEW p \in Requests, request'[p] # Nothing
               PROVE  /\ request[p] # Nothing /\ request'[p].kind = request[p].kind
                      /\ request'[p].alive => /\ request[p].alive /\ request'[p].at = request[p].at
                                              /\ request'[p].option = request[p].option
                                              /\ OnGuess => Offers
    OBVIOUS
  <2>1. PICK keep \in BOOLEAN : Callbacks(keep) /\ (keep => page.phase = v.phase
                                                    \/ {page.phase, v.phase} \subseteq SpeakerPhases)
    BY <1>1 DEF ShowView
  <2>2. request[p] # Nothing /\ request'[p] = [request[p] EXCEPT !.alive = @ /\ keep]
    BY <2>1 DEF Callbacks
  <2>3. request[p] \in Calls
    BY <2>2 DEF TakeInv, ClientTypes
  <2>4. /\ request'[p].kind = request[p].kind /\ request'[p].at = request[p].at
        /\ request'[p].option = request[p].option
    BY <2>2, <2>3 DEF Calls
  <2>5. request'[p].alive = (request[p].alive /\ keep)
    BY <2>2, <2>3, Zenon DEF Calls
  <2>6. keep => (OnGuess => Offers)
    BY <1>1, <1>6, <2>1 DEF Offers, SpeakerPhases
  <2> QED BY <2>2, <2>4, <2>5, <2>6, Zenon
<1>8. \A p \in Requests : request'[p] # Nothing /\ request'[p].alive => OnGuess'
  BY <1>6, <1>7 DEF GuesserInv, OnlyGuesses
<1>9. OnlyGuesses'
  BY <1>1, <1>3, <1>4, <1>7, <1>8 DEF GuesserInv, OnlyGuesses
<1>10. \A p \in Requests : Awaited(p)' => Awaited(p) /\ request'[p].option = request[p].option
  BY <1>7 DEF Awaited
<1>11. Verdict(v)
  BY <1>1 DEF ShowView
<1> HIDE DEF v
<1>12. CASE Offers /\ OnGuess
  <2> DEFINE ruledOut == locked # NoOption /\ v.turn.left < prev
  <2>1. /\ prev' = v.turn.left
        /\ IF ruledOut THEN dead' = dead \cup {locked} /\ locked' = NoOption
           ELSE UNCHANGED <<dead, locked>>
    BY <1>6, <1>11, <1>12 DEF Verdict, Offers, v
  <2>2. ~blind => OneWrong(v.turn.left)
    BY <1>12 DEF GuesserInv, AttemptsSeen, v
  <2>3. RightAnswerOpen' /\ locked' \in Options \cup {NoOption}
    BY <1>1, <2>1, <2>2 DEF GuesserInv, RightAnswerOpen, OneWrong, Unlocked
  <2>4. Unlocked'
    BY <1>1, <1>6, <1>12, <2>3 DEF Unlocked
  <2>5. LockedByItsGuess'
    <3>1. ~blind /\ ruledOut => \A p \in Requests : ~Awaited(p)
      BY <2>2 DEF OneWrong
    <3> QED BY <1>1, <1>10, <2>1, <3>1 DEF GuesserInv, LockedByItsGuess
  <2>6. SeatAndViews'
    BY <1>1, <1>5, <1>12, <2>1 DEF GuesserInv, SeatAndViews, v
  <2>7. AttemptsSeen'
    <3>1. v.turn.left \in Nat /\ prev \in Nat
      BY <1>12 DEF GuesserInv, SeatAndViews, v
    <3>2. ASSUME ~blind, Guesses(seat)
          PROVE OneWrong(LeftNow) /\ LeftNow <= v.turn.left /\ LeftNow \in Nat
      <4>1. LeftNow \in Nat
        BY <3>2, StateViewConstants DEF LeftNow, Guesses, GuesserInv, SeatAndViews, GuesserSeat, Seats
      <4> QED BY <1>12, <3>2, <4>1 DEF GuesserInv, AttemptsSeen, v
    <3>3. ~Offers' /\ blind' = blind /\ Guesses(seat)' = Guesses(seat) /\ LeftNow' = LeftNow
      BY <1>1, <1>5 DEF Guesses, LeftNow
    <3> SUFFICES ASSUME ~blind, Guesses(seat) PROVE OneWrong(LeftNow)'
      BY <3>3 DEF AttemptsSeen
    <3>4. CASE v.turn.left < prev
      <4>1. LeftNow = v.turn.left
        BY <2>2, <3>1, <3>2, <3>4 DEF OneWrong
      <4> QED BY <2>1, <3>1, <3>3, <4>1 DEF OneWrong
    <3>5. CASE ~(v.turn.left < prev)
      <4>1. prev' = prev /\ UNCHANGED locked
        BY <2>1, <2>2, <3>1, <3>5 DEF OneWrong
      <4> QED BY <1>10, <3>2, <3>3, <4>1 DEF OneWrong
    <3> QED BY <3>4, <3>5
  <2>8. NothingGuessedYet'
    BY <1>6, <1>12 DEF NothingGuessedYet
  <2> QED BY <1>9, <2>3, <2>4, <2>5, <2>6, <2>7, <2>8 DEF GuesserInv
<1>13. CASE Offers /\ ~OnGuess
  <2>1. prev' = v.turn.left /\ UNCHANGED <<dead, locked>>
    BY <1>6, <1>11, <1>13 DEF Verdict, Offers, v
  <2>2. dead = {} /\ locked = NoOption
    BY <1>13 DEF GuesserInv, Unlocked
  <2>3. Unlocked' /\ RightAnswerOpen'
    BY <1>1, <2>1, <2>2 DEF Unlocked, RightAnswerOpen
  <2>4. \A p \in Requests : ~Awaited(p)'
    BY <1>10, <1>13 DEF GuesserInv, OnlyGuesses, Awaited
  <2>5. SeatAndViews'
    BY <1>1, <1>5, <1>13, <2>1 DEF GuesserInv, SeatAndViews, v
  <2>6. AttemptsSeen'
    <3>1. ~blind => v.turn.left = MaxAttempts /\ (Guesses(seat) => seat.attempts = 0)
      BY <1>1, <1>13 DEF GuesserInv, NothingGuessedYet, v
    <3>2. ~blind /\ Guesses(seat) => LeftNow = v.turn.left
      BY <3>1, StateViewConstants DEF LeftNow
    <3>3. v.turn.left \in Nat
      BY <1>13 DEF GuesserInv, SeatAndViews, v
    <3> QED BY <1>1, <1>5, <2>1, <3>2, <3>3 DEF AttemptsSeen, OneWrong, LeftNow, Guesses
  <2>7. NothingGuessedYet' /\ LockedByItsGuess'
    BY <1>6, <1>13, <2>4 DEF NothingGuessedYet, LockedByItsGuess
  <2> QED BY <1>9, <2>3, <2>5, <2>6, <2>7 DEF GuesserInv
<1>14. CASE ~Offers
  <2>1. dead' = {} /\ locked' = NoOption
    BY <1>1, <1>11, <1>14 DEF Verdict, Offers, v
  <2>2. Unlocked' /\ RightAnswerOpen'
    BY <1>1, <2>1 DEF Unlocked, RightAnswerOpen
  <2>3. ~OnGuess' /\ \A p \in Requests : ~Awaited(p)'
    BY <1>6, <1>8, <1>14 DEF Awaited
  <2>4. SeatAndViews' /\ AttemptsSeen' /\ LockedByItsGuess'
    BY <1>1, <1>5, <2>3 DEF GuesserInv, SeatAndViews, AttemptsSeen, LockedByItsGuess
  <2>5. NothingGuessedYet'
    BY <1>1, <1>5, <1>14 DEF GuesserInv, SeatAndViews, NothingGuessedYet, Guesses, Over
  <2> QED BY <1>9, <2>2, <2>4, <2>5 DEF GuesserInv
<1> QED BY <1>12, <1>13, <1>14

LEMMA GuesserPoll ==
    ASSUME TakeInv, GuesserInv, session = "guess", PollStep
    PROVE GuesserInv'
<1>1. CASE TickState /\ tick.view.version = seen
  <2>1. joined
    BY <1>1 DEF TickState, GuesserInv, Unlocked, Nothing
  <2> QED BY <1>1, <2>1, GuesserNoReply DEF TickState, screenVars
<1>2. CASE TickError
  <2>1. joined
    BY <1>2 DEF TickError, GuesserInv, Unlocked, Nothing
  <2> QED BY <1>2, <2>1, GuesserNoReply DEF TickError, screenVars
<1>3. CASE Tick401 \/ Ghost401
  <2>1. \A p \in Requests : request'[p] # Nothing =>
          request[p] # Nothing /\ request'[p].kind = request[p].kind /\ ~request'[p].alive
    <3> SUFFICES ASSUME NEW p \in Requests, request'[p] # Nothing
                 PROVE request[p] # Nothing /\ request'[p].kind = request[p].kind /\ ~request'[p].alive
      OBVIOUS
    <3>1. request[p] # Nothing /\ request'[p] = [request[p] EXCEPT !.alive = @ /\ FALSE]
      BY <1>3 DEF Tick401, Ghost401, Callbacks
    <3>2. request[p] \in Calls
      BY <3>1 DEF TakeInv, ClientTypes
    <3> QED BY <3>1, <3>2 DEF Calls
  <2> QED BY <1>3, <2>1, GuesserSignedOut DEF Tick401, Ghost401, GuesserInv, OnlyGuesses
<1> QED BY <1>1, <1>2, <1>3, GuesserTick, GuesserShow DEF PollStep

\* Another player's move, or the end of the hold.
LEMMA GuesserSeatMoves ==
    ASSUME GuesserInv, session = "guess", SeatMoves
    PROVE GuesserInv'
<1>1. UNCHANGED <<joined, joining, page, tick, loop, mic, stray, locked, dead, prev, blind, request>>
  BY DEF SeatMoves, netVars, screenVars
<1>2. GuesserSeat(seat) /\ seat \in Seats
  BY DEF GuesserInv, SeatAndViews, GuesserSeat
<1>3. OnlyGuesses' /\ Unlocked' /\ LockedByItsGuess' /\ RightAnswerOpen'
  BY <1>1 DEF GuesserInv, OnlyGuesses, Unlocked, LockedByItsGuess, RightAnswerOpen, OnGuess, Awaited
<1>4. CASE Over(seat)' /\ ~Guesses(seat)' /\ GuesserSeat(seat)'
  <2>1. SeatAndViews'
    BY <1>1, <1>4 DEF GuesserInv, SeatAndViews, OnGuess, Offers, Arrived
  <2>2. AttemptsSeen' /\ NothingGuessedYet'
    BY <1>1, <1>4
       DEF GuesserInv, AttemptsSeen, NothingGuessedYet, OneWrong, Awaited, OnGuess, Offers, Arrived
  <2> QED BY <1>3, <2>1, <2>2 DEF GuesserInv
<1>5. CASE Reset
  <2>1. seat' = [player |-> 0, at |-> "onboarding", turn |-> 0, status |-> "none",
                 speaks |-> FALSE, attempts |-> 0, held |-> FALSE]
    BY <1>5 DEF Reset, Away
  <2>2. Over(seat)' /\ ~Guesses(seat)' /\ GuesserSeat(seat)'
    BY <2>1 DEF Over, Guesses, GuesserSeat, Seats
  <2> QED BY <1>4, <2>2
<1>6. CASE HoldEnds
  <2>1. seat' = [seat EXCEPT !.held = FALSE] /\ seat.held
    BY <1>6 DEF HoldEnds
  <2>2. Over(seat)
    BY <1>2, <2>1 DEF Over, GuesserSeat, Seats
  <2>3. seat' \in Seats
    BY <1>2, <2>1 DEF Seats
  <2>4. /\ seat'.player = seat.player /\ seat'.at = seat.at /\ seat'.speaks = seat.speaks
        /\ seat'.turn = seat.turn /\ seat'.status = seat.status
    BY <1>2, <2>1 DEF Seats
  <2>5. Over(seat)' /\ ~Guesses(seat)' /\ GuesserSeat(seat)'
    BY <1>2, <2>2, <2>3, <2>4 DEF Over, Guesses, GuesserSeat
  <2> QED BY <1>4, <2>5
<1>7. CASE PartnerSpeaks
  <2>1. PICK st \in {"awaiting_label_confirm", "awaiting_guess"}, h \in {FALSE, seat.held} :
          seat' = [seat EXCEPT !.status = st, !.held = h]
    <3>1. CASE seat' = [seat EXCEPT !.status = "awaiting_guess"]
      <4>1. seat' = [seat EXCEPT !.status = "awaiting_guess", !.held = seat.held]
        BY <1>2, <3>1 DEF Seats
      <4> QED BY <4>1
    <3> QED BY <1>7, <3>1 DEF PartnerSpeaks
  <2>2. seat.at = "turn" /\ ~seat.speaks /\ seat.status # "awaiting_guess"
    BY <1>7 DEF PartnerSpeaks
  <2>3. ~OnGuess /\ ~Offers
    BY <2>2 DEF GuesserInv, SeatAndViews, Guesses, Over
  <2>4. seat.attempts = 0 /\ seat.held = FALSE /\ seat.turn = 1 /\ seat.player = 1
    BY <1>2, <2>2 DEF GuesserSeat, Seats
  <2>5. seat' \in Seats
    BY <1>2, <2>1 DEF Seats
  <2>6. /\ seat'.player = 1 /\ seat'.at = "turn" /\ ~seat'.speaks /\ seat'.turn = 1
        /\ seat'.status # "none" /\ seat'.attempts = 0 /\ seat'.held = FALSE
    BY <1>2, <2>1, <2>2, <2>4 DEF Seats
  <2>7. GuesserSeat(seat)'
    BY <2>5, <2>6, StateViewConstants DEF GuesserSeat
  <2>8. SeatAndViews' /\ AttemptsSeen' /\ NothingGuessedYet'
    BY <1>1, <2>3, <2>6, <2>7
       DEF GuesserInv, SeatAndViews, AttemptsSeen, NothingGuessedYet, OnGuess, Offers, Arrived
  <2> QED BY <1>3, <2>8 DEF GuesserInv
<1>8. ~QueueLapses /\ ~Claimed
  BY <1>2 DEF QueueLapses, Claimed, Seats
<1>9. ~PartnerGuesses
  BY <1>2 DEF PartnerGuesses, GuesserSeat
<1> QED BY <1>5, <1>6, <1>7, <1>8, <1>9 DEF SeatMoves, Elsewhere

LEMMA GuesserPick ==
    ASSUME TakeInv, GuesserInv, session = "guess", NEW o \in Options, Pick(o)
    PROVE GuesserInv'
<1> DEFINE n == NextPost
<1>1. n \in Requests /\ request[n] = Nothing
  BY NextPostFree DEF Pick
<1>2. /\ OnGuess /\ locked = NoOption /\ locked' = o /\ o \in Options
      /\ UNCHANGED <<seat, joined, joining, page, tick, loop, mic, stray, dead, prev, blind>>
  BY DEF Pick, OnGuess, netVars
<1>3. request' = [request EXCEPT ![n] = [at |-> "sent", kind |-> "guess", option |-> o,
                                         first |-> "none", tok |-> token, alive |-> TRUE]]
  BY DEF Pick, Send
<1> HIDE DEF n
<1>4. /\ request'[n].kind = "guess" /\ request'[n].option = o
      /\ \A p \in Requests : p # n => request'[p] = request[p]
  BY <1>1, <1>3 DEF TakeInv, ClientTypes
<1>5. o # NoOption
  BY PlayerClientConstants
<1>6. ~blind => \A p \in Requests : ~Awaited(p)
  BY <1>2 DEF GuesserInv, LockedByItsGuess
<1>7. OnlyGuesses'
  BY <1>2, <1>4 DEF GuesserInv, OnlyGuesses, OnGuess
<1>8. LockedByItsGuess'
  BY <1>2, <1>4, <1>5, <1>6 DEF LockedByItsGuess, Awaited
<1>9. SeatAndViews' /\ Unlocked' /\ RightAnswerOpen'
  BY <1>2 DEF GuesserInv, SeatAndViews, Unlocked, RightAnswerOpen, OnGuess, Offers, Arrived
<1>10. \A left : OneWrong(left) => left <= prev /\ ~(left < prev)
  BY <1>2 DEF OneWrong
<1>11. AttemptsSeen'
  BY <1>2, <1>10 DEF GuesserInv, AttemptsSeen, OneWrong, OnGuess, Offers, Arrived, Guesses, LeftNow
<1>12. NothingGuessedYet'
  BY <1>2 DEF NothingGuessedYet, OnGuess
<1> QED BY <1>7, <1>8, <1>9, <1>11, <1>12 DEF GuesserInv

\* The seat after a guess that counted.
LEMMA GuessedSeat ==
    ASSUME GuesserSeat(seat), Guesses(seat), NEW correct \in BOOLEAN, NEW s,
           s = IF correct \/ seat.attempts + 1 >= MaxAttempts THEN Scored
               ELSE [seat EXCEPT !.attempts = @ + 1]
    PROVE /\ GuesserSeat(s)
          /\ Over(s) \/ (Guesses(s) /\ ~correct /\ s.attempts = seat.attempts + 1)
<1>0. seat \in Seats /\ seat.turn = 1 /\ seat.player = 1 /\ seat.at = "turn" /\ ~seat.speaks
      /\ ~seat.held /\ seat.status = "awaiting_guess" /\ seat.attempts < MaxAttempts
  BY DEF GuesserSeat, Guesses, Seats
<1>t. MaxTurns \in Nat \ {0} /\ MaxAttempts \in Nat
  BY StateViewConstants
<1>1. CASE correct \/ seat.attempts + 1 >= MaxAttempts
  <2>1. s = Scored
    BY <1>1
  <2>2. CASE seat.turn < MaxTurns
    <3>1. s = FreshTurn(seat.turn + 1, ~seat.speaks, TRUE)
      BY <2>1, <2>2 DEF Scored
    <3>2. s = [seat EXCEPT !.at = "turn", !.turn = 2, !.status = "awaiting_audio",
                           !.speaks = TRUE, !.attempts = 0, !.held = TRUE]
      <4>1. seat.turn + 1 = 2
        BY <1>0
      <4>2. ~seat.speaks = TRUE
        BY <1>0, Zenon
      <4>3. s = FreshTurn(2, TRUE, TRUE)
        BY <3>1, <4>1, <4>2, Zenon
      <4> QED BY <4>3, Zenon DEF FreshTurn
    <3>3. /\ s.player = 1 /\ s.at = "turn" /\ s.turn = 2 /\ s.status = "awaiting_audio"
          /\ s.speaks = TRUE /\ s.attempts = 0 /\ s.held = TRUE
      BY <1>0, <3>2 DEF Seats
    <3>4. s \in Seats
      <4> DEFINE m == [seat EXCEPT !.at = "turn", !.turn = 2, !.status = "awaiting_audio"]
      <4>1. m \in Seats
        BY <1>0 DEF Seats
      <4>2. ASSUME NEW r \in Seats
            PROVE [r EXCEPT !.speaks = TRUE, !.attempts = 0, !.held = TRUE] \in Seats
        BY DEF Seats
      <4> HIDE DEF m
      <4>3. [m EXCEPT !.speaks = TRUE, !.attempts = 0, !.held = TRUE] \in Seats
        BY <4>1, <4>2
      <4> QED BY <3>2, <4>3 DEF m
    <3> QED BY <1>0, <1>t, <2>2, <3>3, <3>4 DEF GuesserSeat, Over
  <2>3. CASE ~(seat.turn < MaxTurns)
    <3>1. s = [seat EXCEPT !.at = "done"]
      BY <2>1, <2>3 DEF Scored
    <3>2. s \in Seats /\ s.at = "done" /\ s.player = 1
      BY <1>0, <3>1 DEF Seats
    <3> QED BY <3>2 DEF GuesserSeat, Over
  <2> QED BY <2>2, <2>3
<1>2. CASE ~(correct \/ seat.attempts + 1 >= MaxAttempts)
  <2>1. s = [seat EXCEPT !.attempts = @ + 1] /\ ~correct
    BY <1>2
  <2>2. /\ s \in Seats /\ s.attempts = seat.attempts + 1
        /\ s.player = 1 /\ s.at = "turn" /\ s.turn = 1 /\ s.status = "awaiting_guess"
        /\ ~s.speaks /\ ~s.held
    BY <1>0, <2>1 DEF Seats
  <2>3. s.attempts < MaxAttempts
    BY <1>0, <1>t, <1>2, <2>2 DEF Seats
  <2> QED BY <2>1, <2>2, <2>3 DEF GuesserSeat, Guesses
<1> QED BY <1>1, <1>2

\* What the server says to a guess.
LEMMA GuessAnswered ==
    ASSUME NEW q \in Calls, q.kind = "guess", NEW a \in Answers(q)
    PROVE \/ a.seat = seat /\ a.answer \in {"401", "409"}
          \/ /\ Guesses(seat) /\ a.answer = "ok"
             /\ a.seat = IF q.option = Card \/ seat.attempts + 1 >= MaxAttempts THEN Scored
                         ELSE [seat EXCEPT !.attempts = @ + 1]
<1>1. Answers(q) = GuessAnswers(q.tok, q.option = Card)
  <2>1. q.kind # "upload" /\ q.kind # "confirm"
    OBVIOUS
  <2> QED BY <2>1, Zenon DEF Answers
<1> DEFINE s == IF q.option = Card \/ seat.attempts + 1 >= MaxAttempts THEN Scored
                ELSE [seat EXCEPT !.attempts = @ + 1]
<1>2. a \in Authenticated(q.tok, Unless(May(FALSE, "awaiting_guess"), {[seat |-> s, answer |-> "ok"]}))
  BY <1>1, Zenon DEF GuessAnswers, Guess
<1> HIDE DEF s
<1>3. CASE a = [seat |-> seat, answer |-> "401"] \/ a = [seat |-> seat, answer |-> "409"]
  BY <1>3
<1>4. CASE May(FALSE, "awaiting_guess") /\ a = [seat |-> s, answer |-> "ok"]
  <2>1. Guesses(seat)
    BY <1>4 DEF May, Guesses
  <2> QED BY <1>4, <2>1 DEF s
<1> QED BY <1>2, <1>3, <1>4 DEF Authenticated, Unless

LEMMA GuesserServed ==
    ASSUME TakeInv, GuesserInv, session = "guess", NEW p \in Requests, ServeRequest(p)
    PROVE GuesserInv'
<1> DEFINE q == request[p]
<1>1. q \in Calls /\ q.kind = "guess" /\ q.at = "sent" /\ (q.alive => OnGuess)
  BY DEF ServeRequest, TakeInv, ClientTypes, Nothing, GuesserInv, OnlyGuesses
<1>2. UNCHANGED <<joined, joining, page, tick, loop, mic, stray, locked, dead, prev>>
  BY DEF ServeRequest, netVars
<1>3. PICK at \in {"ok", "re_record", "409", "401", "error"} : request' = [request EXCEPT ![p].at = at]
  BY Served
<1>4. \A r \in Requests :
        /\ r # p => request'[r] = request[r]
        /\ request'[p].kind = q.kind /\ request'[p].option = q.option
        /\ request'[p].alive = q.alive /\ request'[p].at = at
  BY <1>1, <1>3 DEF TakeInv, ClientTypes, Calls
<1>5. \A r \in Requests : /\ request'[r] # Nothing => request[r] # Nothing
                          /\ Awaited(r)' => Awaited(r) /\ request'[r].option = request[r].option
  BY <1>1, <1>4 DEF Awaited, Nothing
<1>6. OnlyGuesses' /\ Unlocked'
  BY <1>1, <1>2, <1>4 DEF GuesserInv, OnlyGuesses, Unlocked, OnGuess
<1>7. UNCHANGED <<OnGuess, Offers, Arrived>>
  BY <1>2 DEF OnGuess, Offers, Arrived
<1> HIDE DEF q
<1>8. CASE seat' = seat /\ (blind => blind')
  <2>1. LockedByItsGuess' /\ RightAnswerOpen'
    BY <1>2, <1>5, <1>8 DEF GuesserInv, LockedByItsGuess, RightAnswerOpen
  <2>2. SeatAndViews'
    BY <1>2, <1>7, <1>8 DEF GuesserInv, SeatAndViews
  <2>3. NothingGuessedYet'
    BY <1>2, <1>7, <1>8 DEF GuesserInv, NothingGuessedYet
  <2>4. \A left : OneWrong(left) => /\ left <= prev'
                                    /\ left < prev' => /\ left = prev' - 1
                                                       /\ locked' \notin {NoOption, Card}
                                                       /\ \A r \in Requests : ~Awaited(r)'
    BY <1>2, <1>5 DEF OneWrong
  <2>5. AttemptsSeen'
    BY <1>2, <1>7, <1>8, <2>4 DEF GuesserInv, AttemptsSeen, OneWrong, LeftNow
  <2> QED BY <1>6, <2>1, <2>2, <2>3, <2>5 DEF GuesserInv
<1>9. CASE /\ Guesses(seat)
           /\ seat' = IF q.option = Card \/ seat.attempts + 1 >= MaxAttempts THEN Scored
                      ELSE [seat EXCEPT !.attempts = @ + 1]
           /\ blind => blind'
           /\ ~blind' => q.alive /\ at = "ok"
  <2>0. GuesserSeat(seat)
    BY DEF GuesserInv, SeatAndViews
  <2>1. /\ GuesserSeat(seat')
        /\ Over(seat') \/ (Guesses(seat') /\ q.option # Card /\ seat'.attempts = seat.attempts + 1)
    <3> DEFINE correct == q.option = Card
    <3>1. correct \in BOOLEAN
      BY Zenon
    <3>2. seat' = IF correct \/ seat.attempts + 1 >= MaxAttempts THEN Scored
                  ELSE [seat EXCEPT !.attempts = @ + 1]
      BY <1>9
    <3>3. /\ GuesserSeat(seat')
          /\ Over(seat') \/ (Guesses(seat') /\ ~correct /\ seat'.attempts = seat.attempts + 1)
      <4> HIDE DEF correct
      <4> QED BY <1>9, <2>0, <3>1, <3>2, GuessedSeat
    <3> QED BY <3>3
  <2>2. GuesserSeat(seat)' /\ (Over(seat)' \/ Guesses(seat)') /\ (Guesses(seat)' => ~Over(seat)')
    BY <2>1 DEF GuesserSeat, Over, Guesses
  <2>3. ~Over(seat)
    BY <1>9 DEF Over, Guesses
  <2>4. SeatAndViews'
    BY <1>2, <1>7, <2>2, <2>3 DEF GuesserInv, SeatAndViews
  <2>5. CASE blind'
    BY <1>6, <2>4, <2>5
       DEF GuesserInv, LockedByItsGuess, AttemptsSeen, NothingGuessedYet, RightAnswerOpen
  <2>6. CASE ~blind'
    <3>1. ~blind /\ q.alive /\ at = "ok" /\ OnGuess
      BY <1>1, <1>9, <2>6
    <3>2. Awaited(p) /\ locked = q.option /\ locked # NoOption
      BY <1>1, <3>1 DEF Awaited, q, Nothing, GuesserInv, LockedByItsGuess
    <3>3. \A r \in Requests : ~Awaited(r)'
      BY <1>4, <1>5, <3>1, <3>2 DEF GuesserInv, LockedByItsGuess, Awaited
    <3>4. LockedByItsGuess' /\ NothingGuessedYet' /\ RightAnswerOpen'
      BY <1>2, <1>7, <3>1, <3>3
         DEF GuesserInv, LockedByItsGuess, NothingGuessedYet, RightAnswerOpen
    <3>5. prev \in Nat /\ LeftNow \in Nat /\ (Offers => tick.view.turn.left \in Nat)
      <4>1. prev \in Nat /\ (Offers => tick.view.turn.left \in Nat)
        BY <3>1 DEF GuesserInv, SeatAndViews
      <4>2. LeftNow \in Nat
        BY <1>9, <2>0, StateViewConstants DEF LeftNow, GuesserSeat, Seats, Guesses
      <4> QED BY <4>1, <4>2
    <3>6. LeftNow = prev /\ (Offers => tick.view.turn.left = prev)
      <4>1. \A left \in Nat : OneWrong(left) => left = prev
        BY <3>2, <3>5 DEF OneWrong
      <4> QED BY <1>9, <3>1, <3>5, <4>1 DEF GuesserInv, AttemptsSeen
    <3>7. Guesses(seat)' => LeftNow' = prev - 1 /\ locked # Card
      <4>1. ASSUME Guesses(seat)' PROVE q.option # Card /\ seat'.attempts = seat.attempts + 1
        BY <2>1, <4>1 DEF Guesses, Over
      <4>2. seat.attempts \in Nat /\ MaxAttempts \in Nat
        BY <2>0, StateViewConstants DEF GuesserSeat, Seats
      <4> QED BY <3>2, <3>6, <4>1, <4>2 DEF LeftNow
    <3>8. AttemptsSeen'
      <4>1. Offers' => OneWrong(tick.view.turn.left)'
        BY <1>2, <1>7, <3>5, <3>6 DEF OneWrong
      <4>2. Guesses(seat)' => OneWrong(LeftNow)'
        BY <1>2, <3>2, <3>3, <3>5, <3>7 DEF OneWrong
      <4>3. Guesses(seat)' /\ Offers' => LeftNow' <= tick'.view.turn.left
        BY <1>2, <1>7, <3>5, <3>6, <3>7
      <4> QED BY <4>1, <4>2, <4>3 DEF AttemptsSeen
    <3> QED BY <1>6, <2>4, <3>4, <3>8 DEF GuesserInv
  <2> QED BY <2>5, <2>6
<1>10. CASE \E a \in Answers(q) :
              /\ seat' = a.seat
              /\ at = a.answer \/ at = "error"
              /\ blind' = (blind \/ (q.kind = "guess" /\ a.answer = "ok" /\ (at = "error" \/ ~q.alive)))
  <2>1. PICK a \in Answers(q) :
              /\ seat' = a.seat
              /\ at = a.answer \/ at = "error"
              /\ blind' = (blind \/ (q.kind = "guess" /\ a.answer = "ok" /\ (at = "error" \/ ~q.alive)))
    BY <1>10
  <2>2. blind => blind'
    BY <2>1, Zenon
  <2>3. a.answer = "ok" /\ ~blind' => at # "error" /\ q.alive
    BY <1>1, <2>1, Zenon
  <2> QED BY <1>1, <1>8, <1>9, <2>1, <2>2, <2>3, GuessAnswered
<1>11. CASE UNCHANGED <<seat, blind>>
  BY <1>8, <1>11
<1>12. CASE \E a \in Answers(q) :
              /\ seat' = a.seat
              /\ \/ request' = [request EXCEPT ![p].at = a.answer]
                 \/ request' = [request EXCEPT ![p].at = "error"]
              /\ blind' = (blind \/ (q.kind = "guess" /\ a.answer = "ok"
                                     /\ (request'[p].at = "error" \/ ~q.alive)))
  <2>1. PICK a \in Answers(q) :
              /\ seat' = a.seat
              /\ \/ request' = [request EXCEPT ![p].at = a.answer]
                 \/ request' = [request EXCEPT ![p].at = "error"]
              /\ blind' = (blind \/ (q.kind = "guess" /\ a.answer = "ok"
                                     /\ (request'[p].at = "error" \/ ~q.alive)))
    BY <1>12
  <2>2. request'[p].at = at
    BY <1>4
  <2>3. request'[p].at = a.answer \/ request'[p].at = "error"
    <3>1. request \in [Requests -> {Nothing} \cup Calls]
      BY DEF TakeInv, ClientTypes
    <3> QED BY <1>1, <2>1, <3>1 DEF q, Calls
  <2> QED BY <1>10, <2>1, <2>2, <2>3
<1> QED BY <1>11, <1>12 DEF ServeRequest, q

LEMMA GuesserHears ==
    ASSUME TakeInv, GuesserInv, session = "guess", NEW p \in Requests, PostDone(p)
    PROVE GuesserInv'
<1> DEFINE q == request[p]
<1>1. q \in Calls /\ q.kind = "guess"
  BY DEF PostDone, TakeInv, ClientTypes, Nothing, GuesserInv, OnlyGuesses
<1>2. UNCHANGED <<seat, joined, joining, page, tick, loop, mic, stray, dead, prev, blind>>
  BY <1>1 DEF PostDone, netVars, GuessFails
<1>3. request'[p] = Nothing /\ \A r \in Requests : r # p => request'[r] = request[r]
  BY DEF PostDone, TakeInv, ClientTypes
<1>4. \A r \in Requests : Awaited(r)' => r # p /\ Awaited(r) /\ request'[r] = request[r]
  BY <1>3 DEF Awaited
<1>5. locked' = locked \/ (locked' = NoOption /\ Awaited(p))
  BY <1>1 DEF PostDone, GuessFails, Awaited, Nothing, Calls
<1>6. UNCHANGED <<OnGuess, Offers, Arrived>>
  BY <1>2 DEF OnGuess, Offers, Arrived
<1> HIDE DEF q
<1>7. OnlyGuesses'
  BY <1>2, <1>3, <1>6 DEF GuesserInv, OnlyGuesses
<1>8. Unlocked' /\ SeatAndViews' /\ NothingGuessedYet' /\ RightAnswerOpen'
  BY <1>2, <1>5, <1>6 DEF GuesserInv, Unlocked, SeatAndViews, NothingGuessedYet, RightAnswerOpen
<1>9. LockedByItsGuess'
  BY <1>2, <1>4, <1>5 DEF GuesserInv, LockedByItsGuess
<1>10. AttemptsSeen'
  <2>1. ASSUME NEW left, OneWrong(left)
        PROVE /\ left <= prev'
              /\ left < prev' => /\ left = prev' - 1
                                 /\ locked' \notin {NoOption, Card}
                                 /\ \A r \in Requests : ~Awaited(r)'
    BY <1>2, <1>4, <1>5, <2>1 DEF OneWrong
  <2> QED BY <1>2, <1>6, <2>1 DEF GuesserInv, AttemptsSeen, OneWrong, LeftNow
<1> QED BY <1>7, <1>8, <1>9, <1>10 DEF GuesserInv

LEMMA GuesserRequest ==
    ASSUME TakeInv, GuesserInv, session = "guess", NEW p \in Requests, PostStep(p)
    PROVE GuesserInv'
<1>1. CASE Post401(p)
  <2>1. \A r \in Requests : request'[r] # Nothing =>
          request[r] # Nothing /\ request'[r].kind = request[r].kind /\ ~request'[r].alive
    <3> SUFFICES ASSUME NEW r \in Requests, request'[r] # Nothing
                 PROVE request[r] # Nothing /\ request'[r].kind = request[r].kind /\ ~request'[r].alive
      OBVIOUS
    <3>1. request[r] # Nothing /\ request'[r] = [request[r] EXCEPT !.alive = FALSE]
      BY <1>1 DEF Post401
    <3>2. request[r] \in Calls
      BY <3>1 DEF TakeInv, ClientTypes
    <3> QED BY <3>1, <3>2 DEF Calls
  <2> QED BY <1>1, <2>1, GuesserSignedOut DEF Post401, PollEnds, GuesserInv, OnlyGuesses
<1> QED BY <1>1, GuesserServed, GuesserHears DEF PostStep

\* Nobody joins, asks for a partner or talks.
LEMMA GuesserOnlyGuesses ==
    ASSUME GuesserInv, session = "guess"
    PROVE ~AskJoin /\ ~Joined /\ ~JoinFails /\ ~LoopStep /\ ~Talk /\ ~Confirm
<1>1. ~joining /\ loop.at = "off" /\ mic = NoMic /\ stray = Nothing
  BY DEF GuesserInv, OnlyGuesses
<1>2. ~AskJoin /\ ~Joined /\ ~JoinFails /\ ~Confirm
  BY <1>1 DEF AskJoin, Joined, JoinFails, Confirm
<1>3. ~LoopStep
  BY <1>1 DEF LoopStep, LoopSend, ServePair, LoopAgain, LoopEnds, Loop401
<1>4. mic.rec = "none" /\ mic.status = "idle" /\ ~(mic.prompts > 0) /\ stray.at = "off"
  BY <1>1 DEF NoMic, Nothing
<1>5. ~Press /\ ~Opens /\ ~Refused /\ ~LetGo /\ ~Hide /\ ~HardStop /\ ~OnStop /\ ~Stray
  BY <1>4 DEF Press, Opens, Refused, LetGo, Hide, HardStop, OnStop, Stray
<1> QED BY <1>2, <1>3, <1>5 DEF Talk

\* Without a guess nothing is locked and nothing ruled out.
NothingPicked == dead = {} /\ locked = NoOption

LEMMA OthersNeverLock ==
    ASSUME NothingPicked, session # "guess", ClientNext
    PROVE NothingPicked'
<1>1. ASSUME NEW v, Verdict(v) PROVE NothingPicked'
  BY <1>1 DEF Verdict, NothingPicked
<1>2. CASE PollStep
  BY <1>1, <1>2
     DEF PollStep, Tick, TickState, TickError, Tick401, Ghost401, ShowView, Unauthorized,
         screenVars, NothingPicked
<1>3. CASE LoopStep
  BY <1>3 DEF LoopStep, LoopSend, ServePair, LoopAgain, LoopEnds, Loop401, Unauthorized,
              screenVars, NothingPicked
<1>4. CASE Talk
  BY <1>4 DEF Talk, Press, Opens, Refused, LetGo, Hide, HardStop, OnStop, Stray, MicStill, NothingPicked
<1>5. CASE SeatMoves \/ AskJoin \/ Joined \/ JoinFails \/ Confirm
  BY <1>5 DEF SeatMoves, AskJoin, Joined, JoinFails, Confirm, screenVars, NothingPicked
<1>6. ~ \E o \in Options : Pick(o)
  BY DEF Pick
<1>7. ASSUME NEW p \in Requests, PostStep(p) PROVE NothingPicked'
  BY <1>7 DEF PostStep, ServeRequest, PostDone, Post401, GuessFails, Unauthorized, NothingPicked
<1> QED BY <1>2, <1>3, <1>4, <1>5, <1>6, <1>7 DEF ClientNext

LEMMA SessionStays ==
    ASSUME ClientNext
    PROVE session' = session
  BY DEF ClientNext, SeatMoves, AskJoin, Joined, JoinFails, PollStep, Tick, TickState, TickError,
         Tick401, Ghost401, LoopStep, LoopSend, ServePair, LoopAgain, LoopEnds, Loop401, Talk,
         Press, Opens, Refused, LetGo, Hide, HardStop, OnStop, Stray, MicStill, Confirm, Pick,
         PostStep, ServeRequest, PostDone, Post401, netVars

LEMMA GuesserInvStutter ==
    ASSUME GuesserInv, UNCHANGED clientVars
    PROVE GuesserInv'
<1>1. UNCHANGED <<seat, joined, joining, page, tick, loop, mic, stray, locked, dead, prev, blind, request>>
  BY DEF clientVars, netVars, screenVars
<1>2. UNCHANGED <<OnGuess, Offers, Arrived, LeftNow>>
  BY <1>1 DEF OnGuess, Offers, Arrived, LeftNow
<1>3. OnlyGuesses' /\ SeatAndViews' /\ Unlocked' /\ RightAnswerOpen'
  BY <1>1, <1>2 DEF GuesserInv, OnlyGuesses, SeatAndViews, Unlocked, RightAnswerOpen
<1>4. LockedByItsGuess' /\ AttemptsSeen' /\ NothingGuessedYet'
  BY <1>1, <1>2
     DEF GuesserInv, LockedByItsGuess, AttemptsSeen, NothingGuessedYet, OneWrong, Awaited
<1> QED BY <1>3, <1>4 DEF GuesserInv

LEMMA GuessInvNext ==
    ASSUME TakeInv, GuessInv, [ClientNext]_clientVars
    PROVE GuessInv'
<1>1. session' = session
  BY SessionStays DEF clientVars, netVars
<1>2. CASE session = "guess"
  <2>1. GuesserInv
    BY <1>2 DEF GuessInv
  <2>2. GuesserInv'
    BY <1>2, <2>1, GuesserOnlyGuesses, GuesserPoll, GuesserSeatMoves, GuesserPick, GuesserRequest,
       GuesserInvStutter DEF ClientNext
  <2> QED BY <1>1, <1>2, <2>2 DEF GuessInv
<1>3. CASE session # "guess"
  <2>1. NothingPicked
    BY <1>3 DEF GuessInv, NothingPicked
  <2>2. NothingPicked'
    BY <1>3, <2>1, OthersNeverLock DEF NothingPicked, clientVars, screenVars
  <2> QED BY <1>1, <1>3, <2>2 DEF GuessInv, NothingPicked
<1> QED BY <1>2, <1>3

LEMMA GuessInvInit ==
    ASSUME ClientInit
    PROVE GuessInv
<1>1. dead = {} /\ locked = NoOption /\ blind = FALSE /\ page = NoView
  BY DEF ClientInit
<1>2. CASE session = "guess"
  <2>1. /\ seat = Midgame(FALSE, 1) /\ joined = TRUE /\ tick = Timer
        /\ joining = FALSE /\ loop.at = "off" /\ mic = NoMic /\ stray = Nothing
        /\ request = [p \in Requests |-> Nothing]
    BY <1>2 DEF ClientInit
  <2>2. seat = [player |-> 1, at |-> "turn", turn |-> 1, status |-> "awaiting_audio",
                speaks |-> FALSE, attempts |-> 0, held |-> FALSE]
    BY <2>1 DEF Midgame, Away
  <2>3. GuesserSeat(seat) /\ ~Guesses(seat)
    BY <2>2, StateViewConstants DEF GuesserSeat, Seats, Guesses
  <2>4. ~OnGuess /\ ~Offers /\ ~Arrived /\ tick.at = "timer"
    BY <1>1, <2>1 DEF OnGuess, Offers, Arrived, NoView, Timer
  <2>5. \A p \in Requests : request[p] = Nothing /\ ~Awaited(p)
    BY <2>1 DEF Awaited
  <2>6. OnlyGuesses /\ SeatAndViews
    BY <2>1, <2>3, <2>4, <2>5 DEF OnlyGuesses, SeatAndViews
  <2>7. Unlocked /\ LockedByItsGuess /\ AttemptsSeen /\ NothingGuessedYet /\ RightAnswerOpen
    BY <1>1, <2>1, <2>3, <2>4, <2>5
       DEF Unlocked, LockedByItsGuess, AttemptsSeen, NothingGuessedYet, RightAnswerOpen
  <2> QED BY <1>2, <2>6, <2>7 DEF GuessInv, GuesserInv
<1> QED BY <1>1, <1>2 DEF GuessInv

\* The right answer is never ruled out on screen, in whatever order verdicts
\* and replies arrive, unless a guess counted that its screen did not see
\* answered (Guesser.jsx:34).
THEOREM RightAnswerStaysOpen == ClientSpec => []RightAnswerOpen
<1>1. ScreenInv => RightAnswerOpen
  BY DEF ScreenInv, GuessInv, GuesserInv, RightAnswerOpen
<1>2. ClientInit => ScreenInv
  BY TakeInvInit, GuessInvInit DEF ScreenInv
<1>3. ScreenInv /\ [ClientNext]_clientVars => ScreenInv'
  BY TakeInvNext, GuessInvNext DEF ScreenInv
<1> QED BY <1>1, <1>2, <1>3, PTL DEF ClientSpec

==============================================================================
