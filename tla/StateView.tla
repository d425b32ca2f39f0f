------------------------------- MODULE StateView -------------------------------
(***************************************************************************)
(* What the game tells one player who polls GET /api/state                 *)
(* (app/game/state.py): the phase, the attempts left and the version that  *)
(* lets the browser skip a reply, computed from the player's seat: the     *)
(* queue row, the pair's latest turn, and the hold after a scored turn.    *)
(*                                                                         *)
(* The pair is seen from this player.  The partner acts by steps of its    *)
(* own; how turns and pairs are stored is TurnGame's and Matchmaking's.    *)
(***************************************************************************)
EXTENDS Naturals

CONSTANTS MaxTurns,     \* turns before the round cap completes the pair
          MaxAttempts   \* max_guess_attempts

ASSUME StateViewConstants ==
    {MaxTurns, MaxAttempts} \subseteq Nat \ {0}

VARIABLE seat   \* the rows of the player the browser last created

Away == [player |-> 0, at |-> "onboarding", turn |-> 0, status |-> "none",
         speaks |-> FALSE, attempts |-> 0, held |-> FALSE]

FreshTurn(n, role, hold) ==
    [seat EXCEPT !.at = "turn", !.turn = n, !.status = "awaiting_audio",
                 !.speaks = role, !.attempts = 0, !.held = hold]

\* _after_scored: the next turn with the roles swapped, or the round cap.
Scored == IF seat.turn < MaxTurns THEN FreshTurn(seat.turn + 1, ~seat.speaks, TRUE)
          ELSE [seat EXCEPT !.at = "done"]

------------------------------------------------------------------------------
(* fetch_state_bundle and compose_state_response.                          *)

NoTurn == [id |-> 0, status |-> "none", speaks |-> FALSE, attempts |-> 0]

\* The latest turn of the active pair; a completed pair is not selected.
LatestTurn(s) ==
    IF s.at # "turn" THEN NoTurn
    ELSE [id |-> s.turn, status |-> s.status, speaks |-> s.speaks, attempts |-> s.attempts]

\* player_stats: the scored turns of the player, each of which made room for the
\* next one or completed the pair.  Points, rank and leaderboard are left out.
RoundsPlayed(s) ==
    CASE s.at = "turn" -> s.turn - 1
      [] s.at = "done" -> MaxTurns
      [] OTHER -> 0

\* One round trip: all the rows are of one moment.
Bundle(s) == [player |-> s.player, queued |-> s.at = "queued", paired |-> s.at = "turn",
              turn |-> LatestTurn(s), held |-> s.held, rounds |-> RoundsPlayed(s)]

PhaseForTurn(b) ==
    LET t == b.turn IN
    CASE t.status = "awaiting_audio" /\ b.held -> "round_result"
      [] t.status = "awaiting_audio" /\ ~b.held /\ t.speaks -> "speaking_view_image"
      [] t.status = "awaiting_label_confirm" /\ t.speaks -> "speaking_confirm_label"
      [] t.status = "awaiting_guess" /\ ~t.speaks -> "guessing"
      [] OTHER -> "waiting_partner"

Phase(b) == CASE b.rounds >= MaxTurns -> "session_done"
              [] b.rounds < MaxTurns /\ ~b.paired /\ b.queued -> "queued"
              [] b.rounds < MaxTurns /\ ~b.paired /\ ~b.queued -> "onboarding"
              [] OTHER -> PhaseForTurn(b)

NoTurnState == [image |-> FALSE, label |-> FALSE, options |-> FALSE, left |-> 0]

\* _turn_state: the image is for the speaker, the label for the speaker who
\* confirms, the options and the attempts left for the guesser who may guess.
TurnState(b, phase) ==
    LET t == b.turn
        guesses == ~t.speaks /\ t.status = "awaiting_guess"
    IN  IF t = NoTurn \/ phase = "round_result" THEN NoTurnState
        ELSE [image |-> t.speaks,
              label |-> t.speaks /\ phase = "speaking_confirm_label",
              options |-> guesses,
              left |-> IF guesses THEN MaxAttempts - t.attempts ELSE 0]

VersionSansAttempts(b) ==      \* mutant: attempts left out of the fingerprint
    [player |-> b.player, phase |-> Phase(b), turn |-> b.turn.id, status |-> b.turn.status,
     attempts |-> 0, rounds |-> b.rounds]

\* compute_state_version, with no collision of its checksum.
Version(b) == [player |-> b.player, phase |-> Phase(b), turn |-> b.turn.id,
               status |-> b.turn.status, attempts |-> b.turn.attempts, rounds |-> b.rounds]

Unseen == [player |-> 0, phase |-> "none", turn |-> 0, status |-> "none",
           attempts |-> 0, rounds |-> 0]

\* The reply; at the round cap it has no turn, and the label is cut once more
\* from a speaker's view of the image.
Compose(b) ==
    LET phase == Phase(b)
        turn == IF phase = "session_done" THEN NoTurnState ELSE TurnState(b, phase)
    IN  [phase |-> phase, version |-> Version(b),
         turn |-> IF phase = "speaking_view_image" THEN [turn EXCEPT !.label = FALSE] ELSE turn]

\* get_state of the service.
View(s) == Compose(Bundle(s))

NoView == [phase |-> "none", version |-> Unseen, turn |-> NoTurnState]

------------------------------------------------------------------------------
(* What the others do to the seat.                                         *)

\* Another player's pair request claims this one.
Claimed ==
    /\ seat.at = "queued"
    /\ \E role \in BOOLEAN : seat' = FreshTurn(1, role, FALSE)

\* The partner records, confirms, or guesses.
PartnerSpeaks ==
    /\ seat.at = "turn" /\ ~seat.speaks
    /\ \/ /\ seat.status = "awaiting_audio"
          /\ seat' = [seat EXCEPT !.status = "awaiting_label_confirm", !.held = FALSE]
       \/ /\ seat.status = "awaiting_label_confirm"
          /\ seat' = [seat EXCEPT !.status = "awaiting_guess"]

PartnerGuesses ==
    /\ seat.at = "turn" /\ seat.speaks /\ seat.status = "awaiting_guess"
    /\ \/ seat' = Scored
       \/ /\ seat.attempts + 1 < MaxAttempts
          /\ seat' = [seat EXCEPT !.attempts = @ + 1]

\* result_hold_seconds pass.
HoldEnds ==
    /\ seat.held
    /\ seat' = [seat EXCEPT !.held = FALSE]

\* The database is emptied under the players (a fresh demo).
Reset ==
    /\ seat.player # 0
    /\ seat' = Away

\* matchmaking_queue_ttl_seconds without a pair request: the row counts for
\* nothing any more, in the bundle as in a match.
QueueLapses ==
    /\ seat.at = "queued"
    /\ seat' = [seat EXCEPT !.at = "onboarding"]

Elsewhere == QueueLapses \/ Claimed \/ PartnerSpeaks \/ PartnerGuesses \/ HoldEnds

------------------------------------------------------------------------------
(* Requests of the player, executed.  Each is the new seat and the answer. *)

Created(n) == [Away EXCEPT !.player = n]

\* create_player: the row under the first candidate nickname that nobody has, or
\* RuntimeError when every attempt hits the unique index.
CreatePlayer(n) == {[seat |-> Created(n), answer |-> "ok"], [seat |-> seat, answer |-> "500"]}

\* resolve_player: the token's hash is that of a player.
Known(t) == t # 0 /\ t = seat.player

\* get_current_player: 401 before anything else happens.
Authenticated(t, answers) ==
    IF Known(t) THEN answers ELSE {[seat |-> seat, answer |-> "401"]}

Unless(allowed, answers) ==
    IF allowed THEN answers ELSE {[seat |-> seat, answer |-> "409"]}

\* request_pair: 409 at the cap, "matched" in a pair, else enqueue and match.
RequestPair ==
    CASE seat.at = "done" -> {[seat |-> seat, answer |-> "409"]}
      [] seat.at = "turn" -> {[seat |-> seat, answer |-> "matched"]}
      [] OTHER -> {[seat |-> [seat EXCEPT !.at = "queued"], answer |-> "queued"]}
                  \cup {[seat |-> FreshTurn(1, r, FALSE), answer |-> "matched"] : r \in BOOLEAN}

\* _require_speaker_turn, and its like for the guesser.
May(role, status) ==
    seat.at = "turn" /\ seat.speaks = role /\ seat.status = status

UploadAudio ==
    Unless(May(TRUE, "awaiting_audio"),
        {[seat |-> [seat EXCEPT !.status = "awaiting_label_confirm", !.held = FALSE], answer |-> "ok"],
         [seat |-> seat, answer |-> "re_record"]})

ConfirmLabel ==
    Unless(May(TRUE, "awaiting_label_confirm"),
        {[seat |-> [seat EXCEPT !.status = "awaiting_guess"], answer |-> "ok"]})

Guess(correct) ==
    Unless(May(FALSE, "awaiting_guess"),
        {[seat |-> IF correct \/ seat.attempts + 1 >= MaxAttempts THEN Scored
                   ELSE [seat EXCEPT !.attempts = @ + 1],
          answer |-> "ok"]})

\* The endpoints: a token, then the operation, its GameError as a status.
PairAnswers(t) == Authenticated(t, RequestPair)
UploadAnswers(t) == Authenticated(t, UploadAudio)
ConfirmAnswers(t) == Authenticated(t, ConfirmLabel)
GuessAnswers(t, correct) == Authenticated(t, Guess(correct))
StateAnswer(t) == IF Known(t) THEN [at |-> "state", view |-> View(seat)] ELSE [at |-> "401"]
==============================================================================
