----------------------------- MODULE PlayerClient -----------------------------
(***************************************************************************)
(* The player's browser (App.jsx and its screens): the state poll that     *)
(* routes to a screen, the pair-request loop, hold-to-talk, the confirm    *)
(* button and the guess tiles, over requests that may fail before or after *)
(* the server executed them.                                               *)
(*                                                                         *)
(* A screen unmounts when the phase on display or the sign-in changes: its *)
(* callbacks still run, on state nobody sees.  A 401 on any request clears *)
(* the stored token, whichever token the request carried.                  *)
(*                                                                         *)
(* A session is one of three: join and wait for a partner, again after a  *)
(* sign-out, or open the page with a token in the middle of a turn and     *)
(* talk, or guess.  It bounds what the player does, never what the browser *)
(* does with the answers.                                                  *)
(***************************************************************************)
EXTENDS FiniteSets, StateView

CONSTANTS Options, Card,    \* the answers offered, and the right one
          Requests,         \* POSTs of the screens in flight at once
          MaxJoins,         \* players this browser creates
          MaxFailed,        \* failed requests
          MaxPrompts        \* prompts at once; none is asked for after a stream leaked

NoOption == "no option"

ASSUME PlayerClientConstants ==
    Card \in Options /\ NoOption \notin Options /\ {MaxJoins, MaxFailed, MaxPrompts} \subseteq Nat

VARIABLES
    session,      \* "wait", "talk" or "guess"
    players,      \* players created so far
    token,        \* localStorage: the player it belongs to, 0 when absent
    joined,       \* App shows the game, not the Join screen
    joining,      \* the join POST is under way
    page,         \* usePoll's state
    seen,         \* versionRef
    tick,         \* the poll: "off", "timer", or a request and its reply
    ghost,        \* a poll of an earlier sign-in is still to be answered 401
    loop,         \* the pair-request loop of this waiting episode
    failed        \* failed requests so far

VARIABLES
    mic,          \* useRecorder of the Speaker on screen
    stray,        \* recorders whose Speaker is gone
    pressedTwice, \* the button was pressed twice for one permission prompt
    locked, dead, prev,  \* Guesser: the pick awaiting its verdict, wrong picks, prevAttempts
    sending,      \* ConfirmPanel: the button is disabled
    request,      \* POSTs of the screens
    blind         \* a guess counted that the Guesser on screen did not see answered

netVars == <<session, players, token, joined, joining, page, seen, tick, ghost, loop>>
screenVars == <<mic, stray, pressedTwice, locked, dead, prev, sending, blind>>
clientVars == <<seat, netVars, failed, screenVars, request>>

Waiting == {"onboarding", "queued"}
SpeakerPhases == {"speaking_view_image", "speaking_confirm_label"}

Nothing == [at |-> "off"]
Timer == [at |-> "timer"]
NoMic == [prompts |-> 0, rec |-> "none", intent |-> "send", first |-> "none",
          leaked |-> 0, status |-> "idle"]

Midgame(role, n) == [Away EXCEPT !.player = 1, !.at = "turn", !.turn = n,
                                 !.status = "awaiting_audio", !.speaks = role]

ClientInit ==
    /\ \/ /\ session = "wait" /\ seat = Away
          /\ token = 0 /\ joined = FALSE /\ tick = Nothing
       \/ /\ \/ session = "talk" /\ seat = Midgame(TRUE, MaxTurns)
             \/ session = "guess" /\ seat = Midgame(FALSE, 1)
          /\ token = 1 /\ joined = TRUE /\ tick = Timer
    /\ players = token /\ joining = FALSE
    /\ page = NoView /\ seen = Unseen /\ ghost = FALSE
    /\ loop = [at |-> "off", tok |-> 0] /\ failed = 0
    /\ mic = NoMic /\ stray = Nothing /\ pressedTwice = FALSE
    /\ locked = NoOption /\ dead = {} /\ prev = 0 /\ sending = FALSE
    /\ request = [p \in Requests |-> Nothing] /\ blind = FALSE

------------------------------------------------------------------------------
(* Screens.                                                                *)

\* Speaker's unmount: teardown stops the tracks, which stops the recorder;
\* a prompt that is still open is not forgotten.
LeftBehind ==
    CASE mic.rec # "none" -> [at |-> "stopping", first |-> mic.first, intent |-> mic.intent]
      [] mic.rec = "none" /\ mic.prompts > 0 -> [at |-> "prompt"]
      [] OTHER -> stray

\* The screen of phase v replaces that of phase u (the same component stays).
Swap(u, v) ==
    /\ IF u \in SpeakerPhases /\ v \notin SpeakerPhases
       THEN mic' = NoMic /\ stray' = LeftBehind ELSE UNCHANGED <<mic, stray>>
    /\ sending' = (sending /\ u = v)

Callbacks(keep) ==
    request' = [p \in Requests |-> IF request[p] = Nothing THEN Nothing
                             ELSE [request[p] EXCEPT !.alive = @ /\ keep]]

\* api.js on 401: the token goes, App shows Join, and every screen unmounts.
Unauthorized ==
    /\ token' = 0
    /\ joined' = FALSE
    /\ Swap(page.phase, "none")
    /\ locked' = NoOption /\ dead' = {} /\ prev' = 0

\* Guesser's effect: still guessing with fewer attempts left is a wrong pick.
Verdict(v) ==
    IF v.phase = "guessing"
    THEN /\ prev' = v.turn.left
         /\ IF page.phase = "guessing" /\ locked # NoOption /\ v.turn.left < prev
            THEN dead' = dead \cup {locked} /\ locked' = NoOption
            ELSE UNCHANGED <<dead, locked>>
    ELSE locked' = NoOption /\ dead' = {} /\ prev' = 0

\* usePairRequestWhileWaiting: one loop per waiting phase, aborted after it.
Episode(v) ==
    loop' = IF v.phase = page.phase THEN loop
            ELSE [at |-> IF v.phase \in Waiting THEN "sent" ELSE "off", tok |-> token]

ShowView(v) ==
    /\ page' = v /\ seen' = v.version
    /\ Swap(page.phase, v.phase)
    /\ Callbacks(page.phase = v.phase \/ {page.phase, v.phase} \subseteq SpeakerPhases)
    /\ Verdict(v)
    /\ Episode(v)

------------------------------------------------------------------------------
(* Join.                                                                   *)

\* letsPlay, once the microphone was allowed.
AskJoin ==
    /\ session = "wait" /\ ~joined /\ ~joining
    /\ players < MaxJoins
    /\ joining' = TRUE
    /\ UNCHANGED <<seat, session, players, token, joined, page, seen, tick, ghost, loop, failed, screenVars, request>>

\* The poll starts at once, and the screen of the last view is back until it
\* is answered.
Joined ==
    /\ joining
    /\ joining' = FALSE
    /\ players' = players + 1
    /\ \E a \in CreatePlayer(players') : a.answer = "ok" /\ seat' = a.seat
    /\ token' = players'
    /\ joined' = TRUE
    /\ tick' = Timer
    /\ prev' = page.turn.left
    /\ UNCHANGED <<session, page, seen, ghost, loop, failed, mic, stray, pressedTwice, locked, dead, sending, blind, request>>

\* Refused or lost; a player created without a reply is nobody's.
JoinFails ==
    /\ joining
    /\ joining' = FALSE
    /\ UNCHANGED <<seat, session, players, token, joined, page, seen, tick, ghost, loop, failed, screenVars, request>>

------------------------------------------------------------------------------
(* usePoll.                                                                *)

Failure == failed < MaxFailed /\ failed' = failed + 1

\* The reply is of now, and is delivered later.
Tick ==
    /\ joined /\ tick = Timer
    /\ \/ tick' = StateAnswer(token) /\ UNCHANGED failed
       \/ Failure /\ tick' = [at |-> "error"]
    /\ UNCHANGED <<seat, session, players, token, joined, joining, page, seen, ghost, loop, screenVars, request>>

TickState ==
    /\ tick.at = "state"
    /\ IF tick.view.version = seen
       THEN UNCHANGED <<page, seen, loop, screenVars, request>>
       ELSE ShowView(tick.view) /\ UNCHANGED <<pressedTwice, blind>>
    /\ tick' = Timer
    /\ UNCHANGED <<seat, session, players, token, joined, joining, ghost, failed>>

TickError ==
    /\ tick.at = "error"
    /\ tick' = Timer
    /\ UNCHANGED <<seat, session, players, token, joined, joining, page, seen, ghost, loop, failed, screenVars, request>>

\* Signing out ends the poll; its reply may still come, as a 401.
PollEnds == ghost' = (ghost \/ tick.at = "401") /\ tick' = Nothing

Tick401 ==
    /\ tick.at = "401"
    /\ Unauthorized /\ Callbacks(FALSE)
    /\ tick' = Nothing
    /\ UNCHANGED <<seat, session, players, joining, page, seen, ghost, loop, failed, pressedTwice, blind>>

Ghost401 ==
    /\ ghost /\ ghost' = FALSE
    /\ Unauthorized /\ Callbacks(FALSE) /\ tick' = Nothing
    /\ UNCHANGED <<seat, session, players, joining, page, seen, loop, failed, pressedTwice, blind>>

------------------------------------------------------------------------------
(* createPairRequestRetryLoop.                                             *)

LoopSend ==
    /\ loop.at = "timer"
    /\ loop' = [at |-> "sent", tok |-> token]
    /\ UNCHANGED <<seat, session, players, token, joined, joining, page, seen, tick, ghost, failed, screenVars, request>>

ServePair ==
    /\ loop.at = "sent"
    /\ \E a \in PairAnswers(loop.tok) :
         /\ seat' = a.seat
         /\ \/ loop' = [loop EXCEPT !.at = a.answer] /\ UNCHANGED failed
            \/ Failure /\ loop' = [loop EXCEPT !.at = "error"]
    /\ UNCHANGED <<session, players, token, joined, joining, page, seen, tick, ghost, screenVars, request>>

LoopErrorGivesUp ==            \* mutant: a failed request is not scheduled again
    /\ loop.at \in {"queued", "error"}
    /\ loop' = [loop EXCEPT !.at = IF @ = "queued" THEN "timer" ELSE "off"]
    /\ UNCHANGED <<seat, session, players, token, joined, joining, page, seen, tick, ghost, failed, screenVars, request>>

\* Queued, or a failure worth retrying: a timer.
LoopAgain ==
    /\ loop.at \in {"queued", "error"}
    /\ loop' = [loop EXCEPT !.at = "timer"]
    /\ UNCHANGED <<seat, session, players, token, joined, joining, page, seen, tick, ghost, failed, screenVars, request>>

\* Matched, or the round cap: no more requests in this episode.
LoopEnds ==
    /\ loop.at \in {"matched", "409"}
    /\ loop' = [loop EXCEPT !.at = "off"]
    /\ UNCHANGED <<seat, session, players, token, joined, joining, page, seen, tick, ghost, failed, screenVars, request>>

\* 401: the loop stops too, and is not restarted while the phase on display
\* stays what it is.
Loop401 ==
    /\ loop.at = "401"
    /\ loop' = [loop EXCEPT !.at = "off"]
    /\ Unauthorized /\ Callbacks(FALSE) /\ PollEnds
    /\ UNCHANGED <<seat, session, players, joining, page, seen, failed, pressedTwice, blind>>

------------------------------------------------------------------------------
(* useRecorder.                                                            *)

OnTalkScreen == joined /\ page.phase = "speaking_view_image"
OnSpeaker == joined /\ page.phase \in SpeakerPhases

NextPost == CHOOSE p \in Requests : request[p] = Nothing
CanPost == \E p \in Requests : request[p] = Nothing
Send(kind, option, first) ==
    request' = [request EXCEPT ![NextPost] =
               [at |-> "sent", kind |-> kind, option |-> option, first |-> first,
                tok |-> token, alive |-> TRUE]]
SendStray(first) ==
    request' = [request EXCEPT ![NextPost] =
               [at |-> "sent", kind |-> "upload", option |-> NoOption, first |-> first,
                tok |-> token, alive |-> FALSE]]

MicStill == UNCHANGED <<seat, netVars, failed, locked, dead, prev, sending, blind>>

\* pointerdown: start() waits for the permission prompt.
Press ==
    /\ session = "talk" /\ OnTalkScreen
    /\ mic.rec = "none" /\ mic.status # "uploading"
    /\ mic.leaked = 0 /\ mic.prompts < MaxPrompts
    /\ mic' = [mic EXCEPT !.prompts = @ + 1]
    /\ pressedTwice' = (pressedTwice \/ mic.prompts > 0)
    /\ UNCHANGED <<stray, request>> /\ MicStill

\* The stream opens; a recorder that is already in recRef is overwritten.
Opens ==
    /\ mic.prompts > 0
    /\ mic' = [mic EXCEPT !.prompts = @ - 1, !.rec = "recording", !.intent = "send",
                          !.first = "none", !.status = "recording",
                          !.leaked = IF mic.rec = "none" THEN @ ELSE @ + 1]
    /\ UNCHANGED <<stray, pressedTwice, request>> /\ MicStill

Refused ==
    /\ mic.prompts > 0
    /\ mic' = [mic EXCEPT !.prompts = @ - 1]
    /\ UNCHANGED <<stray, pressedTwice, request>> /\ MicStill

StopLastWins(m, intent) ==     \* mutant: no "r.stopping" guard
    IF m.rec = "none" THEN m
    ELSE [m EXCEPT !.rec = "stopping", !.intent = intent,
                   !.first = IF @ = "none" THEN intent ELSE @]

\* stop(intent): the first call decides.
Stop(m, intent) ==
    IF m.rec # "recording" THEN m
    ELSE [m EXCEPT !.rec = "stopping", !.intent = intent, !.first = intent]

\* pointerup, or pointerleave and pointercancel, on a button that shows it records.
LetGo ==
    /\ OnTalkScreen /\ mic.status = "recording"
    /\ \E i \in {"send", "discard"} : mic' = Stop(mic, i)
    /\ UNCHANGED <<stray, pressedTwice, request>> /\ MicStill

\* The tab is hidden while recRef is set.
Hide ==
    /\ OnSpeaker /\ mic.rec # "none"
    /\ mic' = [Stop(mic, "discard") EXCEPT !.status = "idle"]
    /\ UNCHANGED <<stray, pressedTwice, request>> /\ MicStill

NoHardStop == FALSE /\ UNCHANGED clientVars          \* mutant: no timer

\* Eight seconds: every timer, an abandoned recorder's too, stops the one in recRef.
HardStop ==
    /\ mic.rec = "recording"
    /\ mic' = Stop(mic, "auto")
    /\ UNCHANGED <<stray, pressedTwice, request>> /\ MicStill

\* onstop: teardown, then nothing, "hold longer", or the upload.
OnStop ==
    /\ mic.rec = "stopping"
    /\ \/ /\ mic.intent # "auto"
          /\ mic' = [mic EXCEPT !.rec = "none", !.status = "idle", !.first = "none"]
          /\ UNCHANGED request
       \/ /\ mic.intent # "discard" /\ CanPost
          /\ mic' = [mic EXCEPT !.rec = "none", !.status = "uploading", !.first = "none"]
          /\ Send("upload", NoOption, mic.first)
    /\ UNCHANGED <<stray, pressedTwice>> /\ MicStill

\* A recorder whose Speaker is gone: a prompt may still be granted, the timer
\* then stops it, and the take is uploaded like any other.
Stray ==
    /\ \/ /\ stray.at = "prompt"
          /\ stray' \in {Nothing, [at |-> "recording"]}
          /\ UNCHANGED request
       \/ /\ stray.at = "recording"
          /\ stray' = [at |-> "stopping", first |-> "auto", intent |-> "auto"]
          /\ UNCHANGED request
       \/ /\ stray.at = "stopping"
          /\ stray' = Nothing
          /\ \/ stray.intent # "auto" /\ UNCHANGED request
             \/ stray.intent # "discard" /\ CanPost /\ SendStray(stray.first)
    /\ UNCHANGED <<mic, pressedTwice>> /\ MicStill

------------------------------------------------------------------------------
(* Confirm and guess.                                                      *)

Confirm ==
    /\ session = "talk" /\ joined /\ page.phase = "speaking_confirm_label" /\ ~sending
    /\ CanPost
    /\ sending' = TRUE
    /\ Send("confirm", NoOption, "none")
    /\ UNCHANGED <<seat, netVars, failed, mic, stray, pressedTwice, locked, dead, prev, blind>>

Pick(o) ==
    /\ session = "guess" /\ joined /\ page.phase = "guessing" /\ page.turn.options
    /\ locked = NoOption /\ o \notin dead
    /\ CanPost
    /\ locked' = o
    /\ Send("guess", o, "none")
    /\ UNCHANGED <<seat, netVars, failed, mic, stray, pressedTwice, dead, prev, sending, blind>>

Answers(q) == CASE q.kind = "upload" -> UploadAnswers(q.tok)
                [] q.kind = "confirm" -> ConfirmAnswers(q.tok)
                [] q.kind = "guess" -> GuessAnswers(q.tok, q.option = Card)

\* The server executes a POST; its reply may be lost.  Or it never arrives.
ServeRequest(p) ==
    /\ request[p].at = "sent"
    /\ \/ \E a \in Answers(request[p]) :
            /\ seat' = a.seat
            /\ \/ /\ request' = [request EXCEPT ![p].at = a.answer]
                  /\ UNCHANGED failed
               \/ /\ Failure
                  /\ request' = [request EXCEPT ![p].at = "error"]
            /\ blind' = (blind \/ (/\ request[p].kind = "guess" /\ a.answer = "ok"
                                   /\ request'[p].at = "error" \/ ~request[p].alive))
       \/ /\ Failure
          /\ request' = [request EXCEPT ![p].at = "error"]
          /\ UNCHANGED <<seat, blind>>
    /\ UNCHANGED <<netVars, mic, stray, pressedTwice, locked, dead, prev, sending>>

FailedGuessIsDead(q) ==        \* mutant: a failed guess rules its option out
    /\ locked' = NoOption
    /\ dead' = dead \cup {q.option}

\* pick's catch: unlock, whichever option is locked by now.
GuessFails(q) ==
    /\ locked' = NoOption
    /\ UNCHANGED dead

\* The reply of a POST other than 401.
PostDone(p) ==
    LET q == request[p] IN
    /\ q.at \in {"ok", "re_record", "409", "error"}
    /\ mic' = IF q.alive /\ q.kind = "upload" THEN [mic EXCEPT !.status = "idle"] ELSE mic
    /\ sending' = (sending /\ ~(q.alive /\ q.kind = "confirm" /\ q.at # "ok"))
    /\ IF q.alive /\ q.kind = "guess" /\ q.at # "ok"
       THEN GuessFails(q) ELSE UNCHANGED <<locked, dead>>
    /\ request' = [request EXCEPT ![p] = Nothing]
    /\ UNCHANGED <<seat, netVars, failed, stray, pressedTwice, prev, blind>>

Post401(p) ==
    /\ request[p].at = "401"
    /\ Unauthorized /\ PollEnds
    /\ request' = [q \in Requests |-> IF q = p \/ request[q] = Nothing THEN Nothing
                                ELSE [request[q] EXCEPT !.alive = FALSE]]
    /\ UNCHANGED <<seat, session, players, joining, page, seen, loop, failed, pressedTwice, blind>>

------------------------------------------------------------------------------

SeatMoves == (Elsewhere \/ Reset) /\ UNCHANGED <<netVars, failed, screenVars, request>>

PostStep(p) == ServeRequest(p) \/ PostDone(p) \/ Post401(p)
PollStep == Tick \/ TickState \/ TickError \/ Tick401 \/ Ghost401
LoopStep == LoopSend \/ ServePair \/ LoopAgain \/ LoopEnds \/ Loop401
Talk == Press \/ Opens \/ Refused \/ LetGo \/ Hide \/ HardStop \/ OnStop \/ Stray

ClientNext ==
    \/ SeatMoves
    \/ AskJoin \/ Joined \/ JoinFails
    \/ PollStep \/ LoopStep \/ Talk
    \/ Confirm \/ \E o \in Options : Pick(o)
    \/ \E p \in Requests : PostStep(p)

ClientSpec == ClientInit /\ [][ClientNext]_clientVars

\* Timers fire, requests are answered or fail, and a recorder told to stop
\* stops.  Players and partners are under no obligation.
ClientFairSpec ==
    /\ ClientSpec
    /\ WF_clientVars(PollStep)
    /\ WF_clientVars(LoopStep)
    /\ \A p \in Requests : WF_clientVars(PostStep(p))
    /\ WF_clientVars(HardStop) /\ WF_clientVars(OnStop) /\ WF_clientVars(Stray)

------------------------------------------------------------------------------

\* A waiting player goes on asking for a partner until there is one, through
\* lost requests, aborted ones and a new sign-in (pairRequestRetry.js:87).
\* Not covered: a sign-in that finds the phase on display unchanged, whose
\* effect does not run again (EpisodeMissed; see the README).
EpisodeMissed == loop.at = "off" /\ loop.tok # token /\ page.version.player = token
WaitsFor == joined /\ token = seat.player /\ seat.player # 0 /\ seat.at \in Waiting
WaiterKeepsAsking == []<>(~WaitsFor \/ loop.at = "sent" \/ EpisodeMissed)

\* The tile and the confirm button a player pressed do not stay locked: the
\* verdict, the next phase or the error comes (Guesser.jsx:31).
ButtonsComeBack == []<>(locked = NoOption /\ ~sending)

\* The right answer is never ruled out on screen, in whatever order verdicts
\* and replies arrive, unless a guess counted whose reply was lost or whose
\* screen was gone (Guesser.jsx:34; see the README).
RightAnswerOpen == ~blind => Card \notin dead

\* A take that was discarded before anything else stopped it is not uploaded
\* (useRecorder.js:81).
DiscardedNotSent ==
    \A p \in Requests : request[p] # Nothing /\ request[p].kind = "upload" => request[p].first # "discard"

\* The microphone is released in the end, also when the thumb was lifted
\* before the permission prompt was answered and when the screen was gone by
\* then, if no prompt was asked for twice (useRecorder.js:147).
MicCloses == []<>(pressedTwice \/ (mic.rec = "none" /\ mic.leaked = 0 /\ stray.at # "recording"))
==============================================================================
