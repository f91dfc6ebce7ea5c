------------------------------ MODULE TexterUi ------------------------------
(***************************************************************************)
(* The list of bubbles of one conversation and the events that it sends to *)
(* the program that fills it (src/texter_ui/texter_ui.c).  Each bubble is  *)
(* a future: the widget asks for it with a LOAD event at one side, may be  *)
(* given a text for it at any time, and lets go of it with an UNLOAD.      *)
(* Everything here runs in the thread of the screen, and handlers call     *)
(* each other, so that a handler is an operator from the state of the      *)
(* widget to the next one; RoomWindow calls them.  A state is a record     *)
(*   bubbles, events   convo->bubble_list and x->event_list                *)
(*   text              fut->text: the message that is shown, or Nothing       *)
(*   bub, latest       the futures with a bubble, those with is_latest     *)
(*   active, pos       whether the conversation is open, how far it is     *)
(*                     scrolled                                            *)
(*   failed            the assertions that failed, by name                 *)
(* Each text is one unit high, and Viewport units are on the screen.       *)
(***************************************************************************)
EXTENDS Integers, Sequences, FiniteSets, SequencesExt, FiniteSetsExt

CONSTANTS Futures,   \* bound: the futures there may be at a time
          Viewport,  \* how many texts are on the screen
          Lower,     \* LOAD_DISTANCE_PIXELS_LOWER_THRESH
          Upper      \* LOAD_DISTANCE_PIXELS_UPPER_THRESH

ASSUME TexterAssumption == Viewport \in Nat /\ Upper \in Nat \ {0}

Nothing == 0

Asserting(x, name, holds) == [x EXCEPT !.failed = IF holds THEN @ ELSE @ \union {name}]

Queued(x, f) == \E i \in DOMAIN x.events : x.events[i].fut = f

(* event_enqueue(): a future has one link for events.                      *)
Enqueue(x, f, load, side) ==
    [Asserting(x, "unlinked", ~Queued(x, f)) EXCEPT
        !.events = Append(@, [fut |-> f, load |-> load, side |-> side])]

\* Slip: the event stays in the list of its future.
EventCancelNot(x, f) == x

EventCancel(x, f) ==
    LET i == CHOOSE j \in DOMAIN x.events : x.events[j].fut = f
    IN  [x EXCEPT !.events = RemoveAt(@, i)]

(* future_create(): a future is free when neither list refers to it.       *)
Fresh(x) ==
    Min({f \in Futures : f \notin Range(x.bubbles) /\ ~Queued(x, f)})

(* A future joins the list with its LOAD event.                            *)
NewFuture(x, f, side) ==
    Enqueue([x EXCEPT !.bubbles = IF side = "top" THEN <<f>> \o @ ELSE Append(@, f)],
            f, TRUE, side)

(* A future leaves the list.  If its LOAD is still queued nobody has heard *)
(* of it; otherwise it gets an UNLOAD.                                     *)
PlaceOf(x, f) == CHOOSE i \in DOMAIN x.bubbles : x.bubbles[i] = f

Unlinked(x, f) ==
    [x EXCEPT !.bubbles = RemoveAt(@, PlaceOf(x, f)), !.text[f] = Nothing,
              !.bub = @ \ {f}, !.latest = @ \ {f}]

LetGo(x, f, side) ==
    IF Queued(x, f) THEN EventCancel(Unlinked(x, f), f)
    ELSE Enqueue(Unlinked(x, f), f, FALSE, side)
-----------------------------------------------------------------------------
(* The geometry of the bubble area: the bubbles that are not hidden.       *)
Rows(x) == {f \in Range(x.bubbles) \intersect x.bub : x.text[f] # Nothing}
Height(x) == Cardinality(Rows(x))

ScrollBottom(x) == Height(x) - Viewport - x.pos

LastPos(x) == Max({0, Height(x) - Viewport})

AtBottom(x) == [x EXCEPT !.pos = LastPos(x)]
Clamped(x) == [x EXCEPT !.pos = Min({@, LastPos(x)})]

IsVisible(x, f) ==
    /\ f \in Rows(x)
    /\ Cardinality({g \in Rows(x) : PlaceOf(x, g) < PlaceOf(x, f)})
          \in x.pos..x.pos + Viewport - 1

(* What is too far below the screen goes, from the last bubble on.         *)
ShedLast(x) ==
    IF x.bubbles # <<>> /\ ScrollBottom(x) > Upper /\ ~IsVisible(x, Last(x.bubbles))
    THEN LetGo(x, Last(x.bubbles), "bottom") ELSE x

ShedBottom(x) ==
    LET shed[n \in 0..Len(x.bubbles)] == IF n = 0 THEN x ELSE ShedLast(shed[n - 1])
    IN  shed[Len(x.bubbles)]

(* What is above the screen moves out without moving what is on it.        *)
ShedFirst(x) ==
    LET y == LetGo(x, Head(x.bubbles), "top")
    IN  IF x.bubbles # <<>> /\ x.pos > Upper /\ ~IsVisible(x, Head(x.bubbles))
        THEN [y EXCEPT !.pos = @ - (Height(x) - Height(y))] ELSE x

ShedTop(x) ==
    LET shed[n \in 0..Len(x.bubbles)] == IF n = 0 THEN x ELSE ShedFirst(shed[n - 1])
    IN  shed[Len(x.bubbles)]

WantsBelow(x) == x.text[Last(x.bubbles)] # Nothing /\ ScrollBottom(x) < Lower

WantsAbove(x) == x.text[Head(x.bubbles)] # Nothing /\ x.pos < Lower

(* update_scroll()                                                         *)
UpdateScroll(x) ==
    IF Range(x.bubbles) \intersect x.bub = {} THEN x
    ELSE LET b == IF WantsBelow(x) THEN NewFuture(x, Fresh(x), "bottom") ELSE x
             t == IF WantsAbove(b) THEN NewFuture(b, Fresh(b), "top") ELSE b
         IN  ShedTop(ShedBottom(t))
-----------------------------------------------------------------------------
(* future_set_message() in the conversation that is open: the first text   *)
(* of a future comes at the end of the list, below or above the others.    *)
Rendered(x, f) ==
    LET first == Head(x.bubbles) = f
        last  == Last(x.bubbles) = f
        new   == [x EXCEPT !.bub = @ \union {f}]
    IN  IF f \in x.bub THEN Clamped(x)
        ELSE IF x.text[f] = Nothing THEN Asserting(x, "text", FALSE)
        ELSE IF first /\ last THEN
            AtBottom(Asserting(Asserting(new, "alone", x.bub = {}), "latest", f \in x.latest))
        ELSE IF last THEN
            LET up == x.bubbles[Len(x.bubbles) - 1]
                y  == IF x.pos <= 0 /\ ScrollBottom(x) >= 0 THEN AtBottom(new) ELSE new
            IN  [Asserting(y, "bottom", f \notin x.latest) EXCEPT
                    !.latest = IF up \in @ THEN (@ \ {up}) \union {f} ELSE @]
        ELSE [Asserting(Asserting(new, "end", first), "top", f \notin x.latest) EXCEPT !.pos = @ + 1]

(* ... and in one that is not: it keeps its last text and a future below.  *)
Noted(x, f) ==
    LET i == PlaceOf(x, f)
        y == [x EXCEPT !.latest = @ \union {f}]
        z == IF i = 1 THEN y
             ELSE Enqueue(Unlinked(y, x.bubbles[i - 1]), x.bubbles[i - 1], FALSE, "top")
    IN  IF Last(x.bubbles) = f THEN NewFuture(z, Fresh(z), "bottom") ELSE z

(* texter_ui_future_set_message_static()                                   *)
SetMessage(x, f, m) ==
    LET y == [x EXCEPT !.text[f] = m]
    IN  IF f \notin Range(x.bubbles) \/ (m = Nothing /\ x.text[f] = Nothing) THEN x
        ELSE IF x.active THEN UpdateScroll(Rendered(y, f))
        ELSE Noted(y, f)
-----------------------------------------------------------------------------
\* Slip: the first future is not the latest one.
FirstFutureAsAny(x, f) == NewFuture(x, f, "top")

(* texter_ui_convo_create()                                                *)
FirstFuture(x, f) == NewFuture([x EXCEPT !.latest = {f}], f, "top")

(* convo_menuitem_clicked_cb(): the bubble of the first future.            *)
OpenConvo(x) ==
    LET f == Head(x.bubbles)
        y == [x EXCEPT !.active = TRUE, !.pos = 0]
    IN  IF x.text[f] = Nothing THEN y
        ELSE UpdateScroll(AtBottom([y EXCEPT !.bub = @ \union {f}]))

(* convo_back_btn_clicked_cb(): what is above the latest text goes; if the *)
(* latest text is not there any more, everything goes.                     *)
LetGoEarlier(x) ==
    IF x.bubbles = <<>> \/ Head(x.bubbles) \in x.latest THEN x
    ELSE LetGo(x, Head(x.bubbles), "top")

LetGoAboveLatest(x) ==
    LET gone[n \in 0..Len(x.bubbles)] == IF n = 0 THEN x ELSE LetGoEarlier(gone[n - 1])
    IN  gone[Len(x.bubbles)]

Back(x) ==
    LET y == LetGoAboveLatest([x EXCEPT !.active = FALSE, !.pos = 0])
    IN  IF y.bubbles = <<>> THEN FirstFuture(y, Fresh(y))
        ELSE [y EXCEPT !.bub = @ \ {Head(y.bubbles)}]

(* A finger moves the bubble area: scroll_event_cb().                      *)
Scroll(x, d) == UpdateScroll([x EXCEPT !.pos = @ + d])
=============================================================================
