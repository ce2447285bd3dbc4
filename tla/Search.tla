-------------------------------- MODULE Search --------------------------------
(***************************************************************************)
(* The message search (search.js, its wiring in app.js, handleSearch and   *)
(* SearchMessages): a query typed with a debounce, pages of hits fetched   *)
(* while more is typed, and a hit that takes the pane to its message. It   *)
(* runs over Composer and Pane, whose log it searches.                     *)
(*                                                                         *)
(* Abstracted: a query is a member of a set, blank or one that some        *)
(* messages match; an edit keeps the words of a message; every channel is  *)
(* accessible, and fetching the labels of unknown ones is part of the      *)
(* fetch's delay; what a row looks like.                                   *)
(***************************************************************************)
EXTENDS Composer

CONSTANTS
  Query,      \* texts typed into the search box
  Blank,      \* the empty one
  Matches,    \* query -> the messages that match it
  SearchPage  \* SEARCH_PAGE: hits to a page

ASSUME SearchAssumption ==
  /\ Blank \notin Query /\ Matches \in [Query -> SUBSET Id] /\ SearchPage \in Nat \ {0}

VARIABLES
  open,     \* the modal is shown
  box,      \* #search-input
  debounce, \* its timer is set
  seq,      \* the number of the last run
  cursor,   \* the oldest hit loaded, 0 for none
  hits,     \* #search-results, newest first
  failed,   \* ... or an error in its place
  more,     \* #search-more is shown
  fetches,  \* searches under way
  searches, \* bound: what the user did here
  since     \* ghost: how many messages there were when the list was begun

found == <<seq, cursor, hits, failed, more, fetches, since>>
searchVars == <<open, box, debounce, found, searches>>
vars == <<composerVars, searchVars>>

Init ==
  /\ ComposerInit
  /\ open = FALSE /\ box = Blank /\ debounce = FALSE /\ seq = 0 /\ cursor = 0
  /\ hits = <<>> /\ failed = FALSE /\ more = FALSE /\ fetches = {} /\ searches = 0 /\ since = 0

\* run up to its await, with the box at q; a blank one only clears the list.
Run(q, reset) ==
  /\ seq' = seq + 1 /\ more' = FALSE
  /\ cursor' = IF reset THEN 0 ELSE cursor
  /\ IF q = Blank THEN hits' = <<>> /\ failed' = FALSE /\ UNCHANGED fetches
     ELSE /\ fetches' = fetches \cup
               {[seq |-> seq', query |-> q, before |-> cursor', reset |-> reset, served |-> "no", page |-> <<>>, log |-> 0]}
          /\ UNCHANGED <<hits, failed>>
  /\ UNCHANGED since

Searches == Allowed("search") /\ Wired /\ searches < limit.searches /\ searches' = searches + 1

\* open: what was searched for last is searched again.
OpenSearch ==
  /\ Searches /\ ~open /\ open' = TRUE /\ Run(box, TRUE)
  /\ UNCHANGED <<composerVars, box, debounce>>

\* closeModal
CloseSearch == open /\ open' = FALSE /\ UNCHANGED <<composerVars, box, debounce, found, searches>>

\* onInput
OnInput(q) ==
  /\ Searches /\ open /\ q # box /\ box' = q /\ debounce' = TRUE
  /\ UNCHANGED <<composerVars, open, found>>
\* The debounce runs out, the modal open or not; or Enter searches now.
Debounced ==
  /\ debounce /\ debounce' = FALSE /\ Run(box, TRUE)
  /\ UNCHANGED <<composerVars, open, box, searches>>
RunNow ==
  /\ Searches /\ open /\ debounce' = FALSE /\ Run(box, TRUE)
  /\ UNCHANGED <<composerVars, open, box>>
\* more: whatever has been typed since the hits were loaded.
More ==
  /\ Searches /\ open /\ more /\ Run(box, FALSE)
  /\ UNCHANGED <<composerVars, open, box, debounce>>

\* A hit is clicked: the modal goes, and the pane jumps to the message.
PickHit(i) ==
  /\ open /\ i \in Range(hits) /\ open' = FALSE /\ JumpWithTray(i)
  /\ UNCHANGED <<box, debounce, found, searches>>

\* ORDER BY id DESC
Descending(S) == CHOOSE f \in [1..Cardinality(S) -> S] : \A p, q \in DOMAIN f : p < q => f[p] > f[q]
\* SearchMessages: the newest matches that are not deleted, below the cursor.
SearchMessages(q, before) ==
  LET S == {i \in Matches[q] \cap DOMAIN log : log[i].ver # Deleted /\ (before = 0 \/ i < before)}
  IN  Descending({i \in S : Cardinality({j \in S : j > i}) < SearchPage})

ServeSearch(x) ==
  /\ x.served = "no"
  /\ fetches' = (fetches \ {x}) \cup {[x EXCEPT !.served = "yes", !.page = SearchMessages(x.query, x.before),
                                                !.log = Len(log)]}
  /\ UNCHANGED <<composerVars, open, box, debounce, seq, cursor, hits, failed, more, searches, since>>
FailSearch(x) ==
  /\ x.served = "no" /\ Allowed("fail") /\ faults < limit.faults /\ faults' = faults + 1
  /\ fetches' = (fetches \ {x}) \cup {[x EXCEPT !.served = "failed"]}
  /\ UNCHANGED <<server, socket, window, pane, text, limit, moves, ghosts, tiles, marks,
                 open, box, debounce, seq, cursor, hits, failed, more, searches, since>>

\* Mutated form: an answer is shown whatever was searched for since.
LatestAlways(x) == TRUE
\* The generation token: only the latest search may touch the list.
Latest(x) == x.seq = seq

\* run after its await
Land(x) ==
  /\ x.served # "no" /\ fetches' = fetches \ {x}
  /\ IF ~Latest(x) THEN UNCHANGED <<hits, failed, cursor, more, since>>
     ELSE CASE x.served = "failed" -> hits' = <<>> /\ failed' = TRUE /\ UNCHANGED <<cursor, more, since>>
            [] x.served = "yes" ->
                 /\ hits' = IF x.reset THEN x.page ELSE hits \o x.page
                 /\ failed' = (failed /\ ~x.reset) /\ since' = IF x.reset THEN x.log ELSE since
                 /\ IF Len(x.page) = SearchPage THEN cursor' = Last(x.page) /\ more' = TRUE
                    ELSE UNCHANGED <<cursor, more>>
  /\ UNCHANGED <<composerVars, open, box, debounce, seq, searches>>

Next ==
  \/ ComposerStep /\ UNCHANGED searchVars
  \/ OpenSearch \/ CloseSearch \/ Debounced \/ RunNow \/ More
  \/ \E q \in Query \cup {Blank} : OnInput(q)
  \/ \E i \in Id : PickHit(i)
  \/ \E x \in fetches : ServeSearch(x) \/ FailSearch(x) \/ Land(x)

Spec == Init /\ [][Next]_vars

-----------------------------------------------------------------------------
\* When nothing is under way the list answers the box: its hits match, newest
\* first and none twice, and of the matches that were there when the list was
\* begun none is missing, but for those below its end while there is more to
\* load. So whatever was typed, reloaded or paged meanwhile, and whichever
\* answer came last. (run, onInput, more: "only the latest fetch is allowed to
\* touch the DOM")
HitsAnswer ==
  LET live == IF box = Blank THEN {} ELSE {i \in Matches[box] \cap DOMAIN log : log[i].ver # Deleted}
      end == IF more THEN Last(hits) ELSE 0
  IN  ~debounce /\ ~failed /\ (\A x \in fetches : x.seq # seq) =>
        /\ \A p, q \in DOMAIN hits : p < q => hits[p] > hits[q]
        /\ box = Blank => hits = <<>>
        /\ box # Blank => Range(hits) \subseteq Matches[box]
        /\ {i \in live : i <= since /\ i >= end} \subseteq Range(hits)
=============================================================================
