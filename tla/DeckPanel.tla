------------------------------- MODULE DeckPanel -------------------------------
(***************************************************************************)
(* The Decks tab (AdminApp.jsx, DecksPanel) over the deck endpoints.       *)
(*                                                                         *)
(* Every handler is a chain of awaited requests: a poll reads the detail,  *)
(* then the list; a generation or an activation posts, then reads the list,*)
(* then the detail.  Chains overlap, replies arrive in any order, and any  *)
(* of them may fail.  A GET is answered when it is sent and its answer     *)
(* delivered later; a POST is answered by a step of its own.               *)
(*                                                                         *)
(* The interval timer is not a variable: the effect that owns it runs for  *)
(* exactly those states in which the shown deck is "generating".           *)
(***************************************************************************)
EXTENDS Naturals, FiniteSets, AdminShell

CONSTANTS Decks,        \* deck ids the server may hand out
          Chains,       \* handlers that may be awaiting a reply at once
          MaxFailures   \* failed requests

ASSUME DeckPanelConstants == MaxFailures \in Nat

VARIABLES
    deck,       \* server: decks.status, "absent" before the deck is created
    badge,      \* the list: each deck "absent", "ready" (Activate enabled) or "shown"
    detail,     \* the deck under review and the status shown for it
    busy,       \* the buttons are disabled
    chain,      \* each handler: its operation and the reply it awaits
    failures    \* requests that failed so far

deckVars == <<deck, badge, detail, busy, chain, failures>>

NoDeck == "no deck"
NoDetail == [deck |-> NoDeck, status |-> "absent"]
NoReply == "no reply"
Idle == [op |-> "idle", step |-> "none"]
Final == {"ready", "live", "failed"}
Posts == {"generate", "activate"}

\* What GET /decks says: the badge decides whether Activate is offered.
ListReply == [d \in Decks |-> CASE deck[d] = "absent" -> "absent"
                                [] deck[d] = "ready" -> "ready"
                                [] OTHER -> "shown"]

NoList == [d \in Decks |-> "absent"]

DeckInit ==
    /\ deck = [d \in Decks |-> "absent"]
    /\ badge = NoList
    /\ detail = NoDetail
    /\ busy = FALSE
    /\ chain = [c \in Chains |-> Idle]
    /\ failures = 0

Awaits(op, step, d, ok, reply) ==
    [op |-> op, step |-> step, deck |-> d, ok |-> ok, reply |-> reply]

\* The reply c waits for next: the answer of now, or an error.
Ask(c, op, step, d, answer) ==
    \/ /\ chain' = [chain EXCEPT ![c] = Awaits(op, step, d, TRUE, answer)]
       /\ UNCHANGED failures
    \/ /\ failures < MaxFailures
       /\ failures' = failures + 1
       /\ chain' = [chain EXCEPT ![c] = Awaits(op, step, d, FALSE, NoReply)]

AskList(c, op, d) == Ask(c, op, "list", d, ListReply)
AskDetail(c, op, d) == Ask(c, op, "detail", d, deck[d])

Done(c) == chain' = [chain EXCEPT ![c] = Idle] /\ UNCHANGED failures

------------------------------------------------------------------------------
(* The operator and the timer.                                             *)

\* A new handler takes the next free slot.
Slot == CHOOSE c \in Chains : chain[c] = Idle
Free(c) == Open("decks") /\ chain[c] = Idle /\ c = Slot

\* The mount effect, and the Refresh button.
Refresh(c) ==
    /\ Free(c)
    /\ ~busy
    /\ AskList(c, "refresh", NoDeck)
    /\ UNCHANGED <<deck, badge, detail, busy>>

OpenDeck(c, d) ==
    /\ Free(c)
    /\ badge[d] # "absent"
    /\ AskDetail(c, "open", d)
    /\ UNCHANGED <<deck, badge, detail, busy>>

PollListOnly(c) ==             \* mutant: the timer refreshes the list only
    /\ Free(c)
    /\ detail.status = "generating"
    /\ AskList(c, "poll", detail.deck)
    /\ UNCHANGED <<deck, badge, detail, busy>>

PollDeck(c) ==
    /\ Free(c)
    /\ detail.status = "generating"
    /\ AskDetail(c, "poll", detail.deck)
    /\ UNCHANGED <<deck, badge, detail, busy>>

SendPost(c, op, d) ==
    /\ Free(c)
    /\ ~busy
    /\ busy' = TRUE
    /\ chain' = [chain EXCEPT ![c] = Awaits(op, "post", d, FALSE, NoReply)]
    /\ UNCHANGED <<deck, badge, detail, failures>>

Generate(c) == SendPost(c, "generate", NoDeck)

Activate(c, d) ==
    /\ badge[d] = "ready" \/ detail = [deck |-> d, status |-> "ready"]
    /\ SendPost(c, "activate", d)

------------------------------------------------------------------------------
(* The server.                                                             *)

\* A POST was executed; its answer may still be lost, and the console cannot
\* tell that from a refusal.
Executed(c, d) ==
    \/ /\ chain' = [chain EXCEPT ![c] = Awaits(@.op, "posted", d, TRUE, NoReply)]
       /\ UNCHANGED failures
    \/ /\ failures < MaxFailures
       /\ failures' = failures + 1
       /\ chain' = [chain EXCEPT ![c] = Awaits(@.op, "posted", d, FALSE, NoReply)]

Live(d) == [x \in Decks |-> CASE x = d -> "live"
                              [] x # d /\ deck[x] = "live" -> "ready"
                              [] OTHER -> deck[x]]

\* Ids are fresh, so which one comes next makes no difference.
Unused == {d \in Decks : deck[d] = "absent"}
NewDeck == CHOOSE d \in Unused : TRUE

ServeGenerate(c) ==
    /\ chain[c].op = "generate" /\ chain[c].step = "post"
    /\ Unused # {}
    /\ deck' = [deck EXCEPT ![NewDeck] = "generating"]
    /\ Executed(c, NewDeck)
    /\ UNCHANGED <<badge, detail, busy>>

\* Rejected (409, 422), or never reached the server.
ServeNothing(c) ==
    /\ chain[c].op \in Posts /\ chain[c].step = "post"
    /\ chain' = [chain EXCEPT ![c] = Awaits(@.op, "posted", @.deck, FALSE, NoReply)]
    /\ UNCHANGED <<deck, badge, detail, busy, failures>>

ServeActivate(c) ==
    /\ chain[c].op = "activate" /\ chain[c].step = "post"
    /\ LET d == chain[c].deck IN
         /\ deck[d] \in {"ready", "live"}
         /\ deck' = Live(d)
         /\ Executed(c, d)
    /\ UNCHANGED <<badge, detail, busy>>

\* A build ends.
BuildEnds(d) ==
    /\ deck[d] = "generating"
    /\ \E s \in {"ready", "failed"} : deck' = [deck EXCEPT ![d] = s]
    /\ UNCHANGED <<badge, detail, busy, chain, failures>>

------------------------------------------------------------------------------
(* Replies.                                                                *)

\* An await throws: the catch, and the finally of a POST.
DeliverError(c) ==
    /\ chain[c].step \in {"posted", "list", "detail"} /\ ~chain[c].ok
    /\ busy' = (busy /\ chain[c].op \notin Posts)
    /\ Done(c)
    /\ UNCHANGED <<deck, badge, detail>>

DeliverPosted(c) ==
    /\ chain[c].step = "posted" /\ chain[c].ok
    /\ AskList(c, chain[c].op, chain[c].deck)
    /\ UNCHANGED <<deck, badge, detail, busy>>

DeliverList(c) ==
    /\ chain[c].step = "list" /\ chain[c].ok
    /\ badge' = chain[c].reply
    /\ IF chain[c].op \in Posts
       THEN AskDetail(c, chain[c].op, chain[c].deck)
       ELSE Done(c)
    /\ UNCHANGED <<deck, detail, busy>>

\* setDetail: whichever reply arrives last is what is shown.
DeliverDetail(c) ==
    /\ chain[c].step = "detail" /\ chain[c].ok
    /\ detail' = [deck |-> chain[c].deck, status |-> chain[c].reply]
    /\ IF chain[c].op = "poll" THEN AskList(c, "poll", chain[c].deck) ELSE Done(c)
    /\ busy' = (busy /\ chain[c].op \notin Posts)
    /\ UNCHANGED <<deck, badge>>

DeliverReply(c) == DeliverError(c) \/ DeliverPosted(c) \/ DeliverList(c) \/ DeliverDetail(c)

------------------------------------------------------------------------------
(* Mounting and unmounting, as parts of the shell's actions.               *)

Blank == badge' = NoList /\ detail' = NoDetail /\ busy' = FALSE

DeckEnter ==
    /\ \E c \in Chains : chain[c] = Idle /\ c = Slot /\ AskList(c, "refresh", NoDeck)
    /\ Blank
    /\ UNCHANGED deck

\* Replies to an unmounted panel go nowhere; a POST still reaches the server.
DeckLeave ==
    /\ chain' = [c \in Chains |-> IF chain[c].step \in {"post", "stray"}
                                  THEN [chain[c] EXCEPT !.step = "stray"]
                                  ELSE Idle]
    /\ Blank
    /\ UNCHANGED <<deck, failures>>

\* The server executes (or never sees) a POST whose panel is gone.
ServeStray(c) ==
    /\ chain[c].step = "stray"
    /\ \/ UNCHANGED deck
       \/ /\ chain[c].op = "generate"
          /\ Unused # {}
          /\ deck' = [deck EXCEPT ![NewDeck] = "generating"]
       \/ /\ chain[c].op = "activate"
          /\ deck[chain[c].deck] \in {"ready", "live"}
          /\ deck' = Live(chain[c].deck)
    /\ Done(c)
    /\ UNCHANGED <<badge, detail, busy>>

ServePost(c) == ServeGenerate(c) \/ ServeNothing(c) \/ ServeActivate(c)

DeckStep ==
    \/ \E c \in Chains :
         \/ Refresh(c) \/ PollDeck(c) \/ Generate(c)
         \/ \E d \in Decks : OpenDeck(c, d) \/ Activate(c, d)
         \/ ServePost(c) \/ ServeStray(c)
         \/ DeliverReply(c)
    \/ \E d \in Decks : BuildEnds(d)

------------------------------------------------------------------------------

\* A deck whose build is over is not left under review as "generating": a
\* late reply may bring the old status back, but it also restarts the timer
\* (the effect at AdminApp.jsx:190).
StaleReview == detail.deck # NoDeck /\ detail.status = "generating" /\ deck[detail.deck] \in Final
ReviewSettles == []<>~StaleReview
==============================================================================
