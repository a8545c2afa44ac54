------------------------------- MODULE Board -------------------------------
(***************************************************************************)
(* The board: the read model that the event stream feeds, and one page in  *)
(* a browser that it notifies.  The stream only carries a revision; the    *)
(* page fetches the board when one arrives.  A subscription holds one      *)
(* revision at most.  Of a task the board knows its column.                *)
(***************************************************************************)

CONSTANTS
    Tasks,
    HasReader   \* whether anybody opens the page

VARIABLES
    cards,    \* cards[t]: the column, "resolved" in none, "unknown" not at all
    client,   \* the page: away, waiting for a revision, woken by one
    slot,     \* a revision lies in the subscription's queue
    fresh     \* the page shows the board as it is

boardVars == <<cards, client, slot, fresh>>

Columns == {"todo", "step", "done", "failed"}
Shown == Columns \cup {"resolved", "unknown"}

\* A stale revision in the slot is replaced: only that there is one matters.
Bump == slot' = (client # "away")

Change(t, column) ==
    /\ cards' = [cards EXCEPT ![t] = column]
    /\ fresh' = (fresh /\ cards[t] = column)

\* Place a card.  A column the tab does not have is ignored.
Apply(t, column) ==
    /\ IF column \in Columns THEN Change(t, column) ELSE UNCHANGED <<cards, fresh>>
    /\ Bump

\* Resolved: in no column, but still there by its id.
Archive(t) ==
    /\ Change(t, "resolved")
    /\ Bump

\* Mutant: removing a card does not count as a revision.
RemoveCardSilently(t) ==
    /\ Change(t, "unknown")
    /\ UNCHANGED slot

RemoveCard(t) ==
    /\ Change(t, "unknown")
    /\ IF cards[t] = "unknown" THEN UNCHANGED slot ELSE Bump

\* Mutant: an archived card is placed, in a column that there is not.
SinkPlaces(name, t, column) ==
    IF name = "deleted" THEN RemoveCard(t) ELSE Apply(t, column)

Sink(name, t, column) ==
    CASE name = "deleted"  -> RemoveCard(t)
      [] name = "archived" -> Archive(t)
      [] OTHER             -> Apply(t, column)

-----------------------------------------------------------------------------
(* The page.                                                               *)

\* The current revision is sent at once.
Connect ==
    /\ HasReader /\ client = "away"
    /\ client' = "woken" /\ slot' = FALSE
    /\ UNCHANGED <<cards, fresh>>

Wake ==
    /\ client = "waiting" /\ slot
    /\ client' = "woken" /\ slot' = FALSE
    /\ UNCHANGED <<cards, fresh>>

Fetch ==
    /\ client = "woken"
    /\ fresh' = TRUE
    /\ client' = "waiting"
    /\ UNCHANGED <<cards, slot>>

Leave ==
    /\ client # "away"
    /\ client' = "away" /\ slot' = FALSE /\ fresh' = FALSE
    /\ UNCHANGED cards

\* A restart: the board is built from the queues, and the page connects again.
Hydrate(columns) ==
    /\ cards' = columns
    /\ client' = "away" /\ slot' = FALSE /\ fresh' = FALSE

BoardTypeOK ==
    /\ cards \in [Tasks -> Shown]
    /\ client \in {"away", "waiting", "woken"}
    /\ slot \in BOOLEAN /\ fresh \in BOOLEAN

\* A page that waits with nothing in its queue shows the board as it is:
\* no change is lost between a notification and the fetch it causes.
PageIsCurrent == client = "waiting" /\ ~slot => fresh
=============================================================================
