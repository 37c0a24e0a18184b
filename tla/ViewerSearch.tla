------------------------------ MODULE ViewerSearch ------------------------------
(***************************************************************************)
(* The search boxes of the web viewer: createCombobox in                   *)
(* nginx/html/viewer.js over searchPlaces, whose answers all the boxes     *)
(* share in one cache of promises.                                         *)
(*                                                                         *)
(* A search that was superseded (its id is no longer the box's `request`)  *)
(* stays under way with `newest` FALSE.  The promise of a key is "absent", *)
(* "asked" or "kept"; one that settled is awaited within the same turn of  *)
(* the event loop, so nothing comes between its settling and its waiters.  *)
(***************************************************************************)
EXTENDS Naturals, FiniteSets

CONSTANTS
  InputBox,          \* search boxes: the one on top and those of the stops
  Query,             \* texts typed
  Size(_),           \* length of a text without its outer blanks
  Found(_),          \* results the server gives for a text
  Centre,            \* rounded centres of the map
  NoQuery,           \* no text
  SEARCH_MIN_LENGTH,
  MaxSearches        \* searches under way in a box at a time

ASSUME SearchAssumption ==
  NoQuery \notin Query /\ Size(NoQuery) = 0 /\ SEARCH_MIN_LENGTH \in Nat \ {0}

VARIABLES
  typed,      \* text of each input
  listbox,    \* list of suggestions: [open, of, results]; `of` is NoQuery for a message
  timer,      \* text the debounce timer will search for, or NoQuery
  searches,   \* calls of run() not finished: [key, first, newest]
  cache,      \* searchCache
  centre      \* where the map is

searchVars == <<typed, listbox, timer, searches, cache, centre>>

Key == Query \X Centre
Closed == [open |-> FALSE, of |-> NoQuery, results |-> {}]
Info == [open |-> TRUE, of |-> NoQuery, results |-> {}]

(* Mutant of Superseding: an older search still counts. *)
OlderAnswerMutant(R) == R

Superseding(R) == {[q EXCEPT !.newest = FALSE] : q \in R}

(* close(): no timer, and every search of the box is superseded; the results stay in memory. *)
Close(b) ==
  /\ timer' = [timer EXCEPT ![b] = NoQuery]
  /\ searches' = [searches EXCEPT ![b] = Superseding(@)]
  /\ listbox' = [listbox EXCEPT ![b].open = FALSE]

(* What a box does with the answer to its search q; Enter takes the first result at once. *)
Suggested(text) == [open |-> TRUE, of |-> IF Found(text) = {} THEN NoQuery ELSE text,
                    results |-> Found(text)]
Takes(q) == q.newest /\ q.first /\ Found(q.key[1]) # {}
Listed(q, box) ==
  IF ~q.newest THEN box
  ELSE IF Takes(q) THEN [Suggested(q.key[1]) EXCEPT !.open = FALSE]
  ELSE Suggested(q.key[1])

(* run(text): a promise kept in the cache is used at once, one under way is waited for. *)
run(b, text, first) ==
  LET q == [key |-> <<text, centre>>, first |-> first, newest |-> TRUE]
      waiting == IF listbox[b].open THEN listbox[b] ELSE Info
  IN IF cache[q.key] = "kept"
     THEN /\ listbox' = [listbox EXCEPT ![b] = Listed(q, waiting)]
          /\ searches' = [searches EXCEPT ![b] = Superseding(@)]
          /\ UNCHANGED cache
     ELSE /\ listbox' = [listbox EXCEPT ![b] = waiting]
          /\ searches' = [searches EXCEPT ![b] = Superseding(@) \union {q}]
          /\ Cardinality(searches'[b]) <= MaxSearches
          /\ cache' = [cache EXCEPT ![q.key] = "asked"]

SearchInit ==
  /\ typed = [b \in InputBox |-> NoQuery]
  /\ listbox = [b \in InputBox |-> Closed]
  /\ timer = [b \in InputBox |-> NoQuery]
  /\ searches = [b \in InputBox |-> {}]
  /\ cache = [k \in Key |-> "absent"]
  /\ centre \in Centre
-----------------------------------------------------------------------------
(* 'input': a short text closes the list, a longer one is searched when the typing pauses. *)
Type(b, text) ==
  /\ text # typed[b]
  /\ typed' = [typed EXCEPT ![b] = text]
  /\ IF Size(text) < SEARCH_MIN_LENGTH
     THEN Close(b)
     ELSE timer' = [timer EXCEPT ![b] = text] /\ UNCHANGED <<listbox, searches>>
  /\ UNCHANGED <<cache, centre>>

TimerFires(b) ==
  /\ timer[b] # NoQuery
  /\ timer' = [timer EXCEPT ![b] = NoQuery]
  /\ run(b, timer[b], FALSE)
  /\ UNCHANGED <<typed, centre>>

(* A click on a suggestion, or Enter on the one highlighted: what the page does with the result *)
(* is in module ViewerDirections (SelectForStop, SelectPlace).                                 *)
Choose(b) ==
  /\ listbox[b].open
  /\ listbox[b].results # {}
  /\ Close(b)
  /\ UNCHANGED <<typed, cache, centre>>

(* Enter without suggestions on screen: the first result is taken when it arrives. *)
Enter(b) ==
  /\ ~listbox[b].open \/ listbox[b].results = {}
  /\ Size(typed[b]) >= 2
  /\ timer' = [timer EXCEPT ![b] = NoQuery]
  /\ run(b, typed[b], TRUE)
  /\ UNCHANGED <<typed, centre>>

(* Escape, or the focus goes elsewhere. *)
Leave(b) ==
  /\ Close(b)
  /\ UNCHANGED <<typed, cache, centre>>

MoveMap(c) ==
  /\ c # centre
  /\ centre' = c
  /\ UNCHANGED <<typed, listbox, timer, searches, cache>>

(* GET /geocoding/search answers: the boxes that wait for it go on. *)
Waiting(b, k) == {q \in searches[b] : q.key = k}
OnScreen(b, k, box) ==
  IF \E q \in Waiting(b, k) : q.newest THEN Listed(CHOOSE q \in Waiting(b, k) : q.newest, box) ELSE box
Took(b, k) == \E q \in Waiting(b, k) : Takes(q)

Answered(k) ==
  /\ cache[k] = "asked"
  /\ cache' = [cache EXCEPT ![k] = "kept"]
  /\ searches' = [b \in InputBox |-> searches[b] \ Waiting(b, k)]
  /\ listbox' = [b \in InputBox |-> OnScreen(b, k, listbox[b])]
  /\ timer' = [b \in InputBox |-> IF Took(b, k) THEN NoQuery ELSE timer[b]]
  /\ UNCHANGED <<typed, centre>>

(* It fails: the key is forgotten and the boxes that wait for it say so. *)
Failed(k) ==
  /\ cache[k] = "asked"
  /\ cache' = [cache EXCEPT ![k] = "absent"]
  /\ searches' = [b \in InputBox |-> searches[b] \ Waiting(b, k)]
  /\ listbox' = [b \in InputBox |->
                   IF \E q \in Waiting(b, k) : q.newest THEN Info ELSE listbox[b]]
  /\ UNCHANGED <<typed, timer, centre>>

SearchNext ==
  \/ \E b \in InputBox : TimerFires(b) \/ Choose(b) \/ Enter(b) \/ Leave(b)
  \/ \E b \in InputBox, text \in Query \union {NoQuery} : Type(b, text)
  \/ \E c \in Centre : MoveMap(c)
  \/ \E k \in Key : Answered(k) \/ Failed(k)

SearchSpec == SearchInit /\ [][SearchNext]_searchVars

SearchTypeOK ==
  /\ typed \in [InputBox -> Query \union {NoQuery}]
  /\ timer \in [InputBox -> Query \union {NoQuery}]
  /\ cache \in [Key -> {"absent", "asked", "kept"}]
  /\ centre \in Centre
  /\ searches \in [InputBox -> SUBSET [key : Key, first : BOOLEAN, newest : BOOLEAN]]
-----------------------------------------------------------------------------
(* viewer.js:712-737.  Suggestions on screen with no search of the box still to come are those  *)
(* of the text in it: an older answer, a failure or a list left open never stands for a newer   *)
(* text.                                                                                        *)
SuggestionsAreOfTheText ==
  \A b \in InputBox :
    LET comes == timer[b] # NoQuery \/ \E q \in searches[b] : q.newest
    IN listbox[b].open /\ listbox[b].of # NoQuery /\ ~comes => listbox[b].of = typed[b]

(* viewer.js:606-611 and 714.  A box never waits for an answer that will not come: the promise  *)
(* of each search under way is that of a request under way, also when several boxes share it    *)
(* and when an earlier request for the same text failed.                                        *)
SearchesAreAsked ==
  \A b \in InputBox : \A q \in searches[b] : cache[q.key] = "asked"
=============================================================================
