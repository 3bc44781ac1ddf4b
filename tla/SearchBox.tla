----------------------------- MODULE SearchBox -----------------------------
(***************************************************************************)
(* A search box over the on-device index, as the two that there are: the   *)
(* DM page's search of the open conversation and GlobalSearchModal's of    *)
(* all of them.  What is typed is debounced, asked of the worker through   *)
(* searchClient, and answered in any order; a worker that crashes, or is   *)
(* not there, answers with nothing found.  What is asked is a query and    *)
(* where; what the index holds is SearchIndex's concern.                   *)
(***************************************************************************)
EXTENDS Naturals

CONSTANTS
  Query,      \* texts of two characters or more
  Place,      \* conversations, or all of them
  MaxOpen     \* bound: searches under way

VARIABLES
  typed,      \* what the box holds: a query, or something shorter
  place,      \* where it looks: activeConv, or the conversations
  due,        \* is the debounce timer armed?
  open,       \* searches under way, and whether each was cancelled
  hits,       \* the hits shown: what they answer, or none
  searching   \* is "searching" shown?

box == <<typed, place, due, open, hits, searching>>

Short == "short"
NoHits == <<>>

InitBox ==
  /\ typed = Short /\ place \in Place
  /\ due = FALSE /\ open = {} /\ hits = NoHits /\ searching = FALSE

\* The effect, and its cleanup: the search under way is cancelled, the timer armed anew;
\* the hits stay until the new ones come, but for a text too short.
Effect(q, p) ==
  /\ typed' = q /\ place' = p
  /\ due' = (q # Short)
  /\ searching' = (q # Short)
  /\ hits' = IF q = Short THEN NoHits ELSE hits
  /\ open' = {[s EXCEPT !.cancelled = TRUE] : s \in open}

Type ==
  \E q \in (Query \cup {Short}) \ {typed} : Effect(q, place)

\* Another conversation is opened, or the list of conversations is loaded anew.
Elsewhere ==
  \E p \in Place : Effect(typed, p)

Timeout ==
  /\ due
  /\ due' = FALSE
  /\ \E n \in 1..MaxOpen :
       /\ \A s \in open : s.n # n
       /\ open' = open \cup {[of |-> <<typed, place>>, n |-> n, cancelled |-> FALSE]}
  /\ UNCHANGED <<typed, place, hits, searching>>

\* Faulty variant: nobody asks whether the search was cancelled.
ShownAnyway(s) == hits' = <<s.of>> /\ searching' = FALSE
Show(s) ==
  IF s.cancelled THEN UNCHANGED <<hits, searching>>
  ELSE hits' = <<s.of>> /\ searching' = FALSE

Answer(s) ==
  /\ open' = open \ {s}
  /\ Show(s)
  /\ UNCHANGED <<typed, place, due>>

\* worker.onerror: whatever is pending is answered with the fallback.
WorkerCrashes ==
  /\ open # {}
  /\ open' = {}
  /\ IF \E s \in open : ~s.cancelled
       THEN hits' = <<<<typed, place>>>> /\ searching' = FALSE
       ELSE UNCHANGED <<hits, searching>>
  /\ UNCHANGED <<typed, place, due>>

NextBox == Type \/ Elsewhere \/ Timeout \/ WorkerCrashes \/ \E s \in open : Answer(s)

-----------------------------------------------------------------------------
(* Properties. *)

\* With no timer armed and no search under way that was not cancelled, the hits shown
\* answer what the box holds, where it looks, and "searching" is gone.
ResultsCurrent ==
  ~due /\ (\A s \in open : s.cancelled) =>
    /\ ~searching
    /\ hits = IF typed = Short THEN NoHits ELSE <<<<typed, place>>>>
=============================================================================
