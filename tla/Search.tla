------------------------------- MODULE Search -------------------------------
(***************************************************************************)
(* The background search of file-mover: the daemon's walk and its record   *)
(* (parse_search_query to handle_search in src/src/bin/file-mover.rs), and *)
(* the search box of the page that polls it (doSearch, pollSearch and      *)
(* hideSearchRes in src/tools/file-mover/index.html).                      *)
(*                                                                         *)
(* The page runs one callback at a time, but any number of its requests    *)
(* are under way at once and are answered in any order.  The n-th call of  *)
(* doSearch is call n; it creates the object n that activeSearch refers to *)
(* and starts poll chain n, which goes on with whatever object is active   *)
(* when its timer fires.  The searched tree does not change meanwhile.     *)
(* Not every call need be made: a later one may come in its place.         *)
(***************************************************************************)
EXTENDS PathNames

CONSTANTS
  Names,        \* the names of files and directories
  Entries,      \* what lies below the searched directory: sequences of names
  Dirs,         \* the directories among them, and the searched one: << >>
  Unreadable,   \* the directories that read_dir fails on
  Matching,     \* Matching[c]: the entries whose names match the query of call c,
                \*   as parse_search_query and the comparison in walk_search decide
  MaxResults,   \* MAX_RESULTS
  MaxSearches,  \* bound on the calls that are made
  MaxFaults     \* bound on lost requests and restarts of the daemon

Calls == 1 .. Len(Matching)
Ids == Calls
None == 0

\* The entries are a tree: an entry lies in directories only.
ASSUME TreeAssumption ==
  /\ IsFiniteSet(Entries) /\ Entries \subseteq Seq(Names) \ {<< >>}
  /\ << >> \in Dirs /\ Dirs \subseteq Entries \cup {<< >>} /\ Unreadable \subseteq Dirs
  /\ \A e \in Entries : \A n \in 0 .. Len(e) - 1 : SubSeq(e, 1, n) \in Dirs
ASSUME MatchingAssumption == Matching \in Seq(SUBSET Entries)
ASSUME ResultsAssumption ==
  MaxResults \in Nat \ {0} /\ MaxSearches \in Nat /\ MaxFaults \in Nat

VARIABLES
  searches,   \* SEARCHES: the record of each search id, or NoSearch
  walk,       \* walk[i]: the entries that search i has still to visit in the
              \*   directories it is in
  nextId,     \* NEXT_SEARCH
  post,       \* post[c]: the POST of call c
  sid,        \* sid[c]: the search id it was answered with
  active,     \* activeSearch
  poll,       \* poll[c]: what poll chain c waits for
  of,         \* of[c]: the object it polls for, `s`
  reply,      \* reply[c]: the answer on its way to it
  lastTimer,  \* lastTimer[c]: the chain whose timer object c holds
  shown,      \* what the result box shows
  over,       \* history: calls hidden, superseded or failed
  faults      \* faults so far

daemon == <<searches, walk, nextId>>
page == <<active, poll, of, reply, lastTimer, shown, over>>
vars == <<daemon, post, sid, page, faults>>

NoSearch == [call |-> None, status |-> "none", matches |-> {}, truncated |-> FALSE]
Record == [call : Calls \cup {None}, status : {"none", "running", "done"},
           matches : SUBSET Entries, truncated : BOOLEAN]
Missing == [call |-> None, status |-> "missing"]
Nothing == [call |-> None, status |-> "nothing"]
Answers == [call : Calls, status : {"running", "done"}]

TypeOK ==
  /\ searches \in [Ids -> Record]
  /\ \A i \in Ids : Cardinality(searches[i].matches) <= MaxResults
  /\ walk \in [Ids -> SUBSET Entries]
  /\ nextId \in 1 .. Len(Matching) + 1
  /\ post \in [Calls -> {"idle", "sent", "answered", "failed", "done"}]
  /\ sid \in [Calls -> Ids \cup {None}]
  /\ active \in Calls \cup {None}
  /\ poll \in [Calls -> {"none", "asking", "answered", "timer", "ended"}]
  /\ of \in [Calls -> Calls]
  /\ reply \in [Calls -> Answers \cup {Missing}]
  /\ lastTimer \in [Calls -> Calls \cup {None}]
  /\ shown \in Answers \cup {Nothing}
  /\ over \subseteq Calls
  /\ faults \in 0 .. MaxFaults

Init ==
  /\ searches = [i \in Ids |-> NoSearch]
  /\ walk = [i \in Ids |-> {}]
  /\ nextId = 1
  /\ post = [c \in Calls |-> "idle"]
  /\ sid = [c \in Calls |-> None]
  /\ active = None
  /\ poll = [c \in Calls |-> "none"]
  /\ of = [c \in Calls |-> c]
  /\ reply = [c \in Calls |-> Missing]
  /\ lastTimer = [c \in Calls |-> None]
  /\ shown = Nothing
  /\ over = {}
  /\ faults = 0

---------------------------------------------------------------------------
\* The daemon.
Children(d) == {e \in Entries : Len(e) = Len(d) + 1 /\ Under(d, e)}

\* Slip: one result too many.
FullLate(s) == Cardinality(s.matches) > MaxResults

Full(s) == Cardinality(s.matches) >= MaxResults

\* What a recursive call on directory d will visit: nothing once the cap is
\* reached, which it does not report, or when d cannot be read.
Frame(s, d) == IF s.truncated \/ Full(s) \/ d \in Unreadable THEN {} ELSE Children(d)

\* The innermost call of walk_search is in the directory of these entries; it
\* returns when none of them is left.
Deepest(S) == {e \in S : \A f \in S : Len(f) <= Len(e)}

\* handle_search_start registers the search and starts its thread.
HandleStart(c) ==
  /\ post[c] = "sent"
  /\ LET s == [call |-> c, status |-> "running", matches |-> {}, truncated |-> FALSE] IN
       /\ searches' = [searches EXCEPT ![nextId] = s]
       /\ walk' = [walk EXCEPT ![nextId] = Frame(s, << >>)]
  /\ nextId' = nextId + 1
  /\ sid' = [sid EXCEPT ![c] = nextId]
  /\ post' = [post EXCEPT ![c] = "answered"]
  /\ UNCHANGED <<page, faults>>

\* Slip: a record that has become full counts as truncated.
FoundLast(s, e) ==
  IF e \in Matching[s.call]
    THEN [s EXCEPT !.matches = @ \cup {e}, !.truncated = Cardinality(s.matches) + 1 >= MaxResults]
    ELSE s

Found(s, e) == IF e \in Matching[s.call] THEN [s EXCEPT !.matches = @ \cup {e}] ELSE s

\* Slip: the walk does not come back from a directory to its siblings.
DescendOnly(s, e, pending) == IF e \in Dirs THEN Frame(s, e) ELSE pending \ {e}

\* Past entry e, and into it if it is a directory.
Descend(s, e, pending) == (pending \ {e}) \cup (IF e \in Dirs THEN Frame(s, e) ELSE {})

\* One entry: a match beyond the cap marks the record and ends this directory;
\* any other one is recorded, and a directory is entered.
Visit(i, e) ==
  LET s == searches[i]
      full == e \in Matching[s.call] /\ Full(s) IN
  /\ e \in Deepest(walk[i])
  /\ searches' = [searches EXCEPT ![i] = IF full THEN [s EXCEPT !.truncated = TRUE] ELSE Found(s, e)]
  /\ walk' = [walk EXCEPT ![i] = IF full THEN @ \ Deepest(@) ELSE Descend(Found(s, e), e, @)]

\* The end of run_search.
EndWalk(i) ==
  /\ searches[i].status = "running" /\ walk[i] = {}
  /\ searches' = [searches EXCEPT ![i].status = "done"]
  /\ UNCHANGED walk

Walk(i) ==
  /\ (\E e \in walk[i] : Visit(i, e)) \/ EndWalk(i)
  /\ UNCHANGED <<nextId, post, sid, page, faults>>

\* handle_search: a snapshot of the record, under the lock.
HandlePoll(c) ==
  LET i == sid[of[c]] IN
  /\ poll[c] = "asking"
  /\ reply' = [reply EXCEPT ![c] =
       IF searches[i] = NoSearch THEN Missing
       ELSE [call |-> searches[i].call, status |-> searches[i].status]]
  /\ poll' = [poll EXCEPT ![c] = "answered"]
  /\ UNCHANGED <<daemon, post, sid, active, of, lastTimer, shown, over, faults>>

\* The daemon restarts: the searches are gone, ids begin anew, and requests
\* it has not answered fail.
Restart ==
  /\ faults < MaxFaults /\ nextId > 1
  /\ faults' = faults + 1
  /\ searches' = [i \in Ids |-> NoSearch]
  /\ walk' = [i \in Ids |-> {}]
  /\ nextId' = 1
  /\ post' = [c \in Calls |-> IF post[c] = "sent" THEN "failed" ELSE post[c]]
  /\ poll' = [c \in Calls |-> IF poll[c] = "asking" THEN "answered" ELSE poll[c]]
  /\ reply' = [c \in Calls |-> IF poll[c] = "asking" THEN Missing ELSE reply[c]]
  /\ UNCHANGED <<sid, active, of, lastTimer, shown, over>>

---------------------------------------------------------------------------
\* The page.

\* clearTimeout(activeSearch.timer): that timer, if it has not fired.
Stopped ==
  [c \in Calls |->
     IF active # None /\ lastTimer[active] = c /\ poll[c] = "timer" THEN "ended" ELSE poll[c]]

\* doSearch, up to its request; calls are numbered in the order they are made.
DoSearch(c) ==
  /\ \A d \in Calls : d >= c => post[d] = "idle"
  /\ Cardinality({d \in Calls : post[d] # "idle"}) < MaxSearches
  /\ post' = [post EXCEPT ![c] = "sent"]
  /\ poll' = Stopped
  /\ over' = over \cup 1 .. c - 1
  /\ UNCHANGED <<daemon, sid, active, of, reply, lastTimer, shown, faults>>

\* The rest of doSearch, and the first pollSearch.
StartAnswered(c) ==
  /\ post[c] = "answered"
  /\ post' = [post EXCEPT ![c] = "done"]
  /\ active' = c
  /\ shown' = Nothing
  /\ poll' = [poll EXCEPT ![c] = "asking"]
  /\ UNCHANGED <<daemon, sid, of, reply, lastTimer, over, faults>>

\* The request or its answer is lost.
StartLost(c) ==
  /\ post[c] \in {"sent", "answered"} /\ faults < MaxFaults
  /\ faults' = faults + 1
  /\ post' = [post EXCEPT ![c] = "failed"]
  /\ UNCHANGED <<daemon, sid, page>>

\* Slip: polling goes on when the search is done.
FinishedNever(c) == FALSE

\* Slip: the first answer is taken for the last one.
FinishedAlways(c) == TRUE

Finished(c) == reply[c].status = "done"

\* pollSearch gets an answer: render it; when the search is done no search is
\* active, else set the timer of the object that was asked for.
PollAnswered(c) ==
  /\ poll[c] = "answered" /\ reply[c] # Missing
  /\ shown' = reply[c]
  /\ IF Finished(c)
       THEN /\ active' = None
            /\ poll' = [poll EXCEPT ![c] = "ended"]
            /\ UNCHANGED lastTimer
       ELSE /\ poll' = [poll EXCEPT ![c] = "timer"]
            /\ lastTimer' = [lastTimer EXCEPT ![of[c]] = c]
            /\ UNCHANGED active
  /\ reply' = [reply EXCEPT ![c] = Missing]
  /\ UNCHANGED <<daemon, post, sid, of, over, faults>>

\* pollSearch gets an error: no search is active.
PollFails(c) ==
  /\ poll[c] = "answered" /\ reply[c] = Missing
  /\ active' = None
  /\ over' = over \cup {of[c]}
  /\ poll' = [poll EXCEPT ![c] = "ended"]
  /\ reply' = [reply EXCEPT ![c] = Missing]
  /\ UNCHANGED <<daemon, post, sid, of, lastTimer, shown, faults>>

\* The request of a poll is lost.
PollLost(c) ==
  /\ poll[c] = "asking" /\ faults < MaxFaults
  /\ faults' = faults + 1
  /\ poll' = [poll EXCEPT ![c] = "answered"]
  /\ reply' = [reply EXCEPT ![c] = Missing]
  /\ UNCHANGED <<daemon, post, sid, active, of, lastTimer, shown, over>>

\* The timer calls pollSearch, which asks for whatever is active by now.
TimerFires(c) ==
  /\ poll[c] = "timer"
  /\ IF active = None
       THEN poll' = [poll EXCEPT ![c] = "ended"] /\ of' = [of EXCEPT ![c] = c]
       ELSE poll' = [poll EXCEPT ![c] = "asking"] /\ of' = [of EXCEPT ![c] = active]
  /\ lastTimer' = [lastTimer EXCEPT ![of[c]] = IF @ = c THEN None ELSE @]
  /\ UNCHANGED <<daemon, post, sid, active, reply, shown, over, faults>>

\* Escape, a click elsewhere, or a result being opened.
Hide ==
  /\ active # None \/ shown # Nothing
  /\ poll' = Stopped
  /\ over' = over \cup ({active, shown.call} \ {None})
  /\ active' = None
  /\ shown' = Nothing
  /\ UNCHANGED <<daemon, post, sid, of, reply, lastTimer, faults>>

---------------------------------------------------------------------------
\* What goes on by itself.
Running ==
  \/ \E i \in Ids : Walk(i)
  \/ \E c \in Calls : \/ HandleStart(c) \/ StartAnswered(c)
                      \/ HandlePoll(c) \/ PollAnswered(c) \/ PollFails(c) \/ TimerFires(c)

Disturbance ==
  \/ Hide \/ Restart
  \/ \E c \in Calls : StartLost(c) \/ PollLost(c)

User == \E c \in Calls : DoSearch(c)

Next == Running \/ Disturbance \/ User

Spec == Init /\ [][Next]_vars

\* Walks go on, requests are answered, answers are received and timers fire.
Fairness ==
  /\ \A i \in Ids : WF_vars(Walk(i))
  /\ \A c \in Calls : /\ WF_vars(HandleStart(c)) /\ WF_vars(StartAnswered(c))
                      /\ WF_vars(HandlePoll(c)) /\ WF_vars(PollAnswered(c))
                      /\ WF_vars(PollFails(c)) /\ WF_vars(TimerFires(c))

FairSpec == Spec /\ Fairness

---------------------------------------------------------------------------
Reachable(e) == \A n \in 0 .. Len(e) - 1 : SubSeq(e, 1, n) \notin Unreadable

Results(c) == {e \in Matching[c] : Reachable(e)}

\* A search records nothing but matches that can be reached, and a finished one
\* with fewer results than the cap has found every such match, wherever in the
\* tree it lies and whatever the order in which directories list their entries.
CompleteBelowCap ==
  \A i \in Ids : LET s == searches[i] IN
    s # NoSearch =>
      /\ s.matches \subseteq Results(s.call)
      /\ s.status = "done" /\ ~Full(s) => s.matches = Results(s.call)

\* `truncated`, the "+" of the result box, is true only when there are
\* results that are not listed.  (The converse does not hold: a directory
\* entered at the cap is skipped in silence.)
TruncatedMeansMore ==
  \A i \in Ids : LET s == searches[i] IN
    s.truncated => Results(s.call) \ s.matches # {}

\* However calls, polls, answers, failures and hidings interleave, the page
\* stops polling in the end: no chain outlives the searches it polls for.
PollingStops == <>[](\A c \in Calls : poll[c] \in {"none", "ended"})

\* No other poll chain and no earlier POST is under way.
Alone(c) ==
  \A d \in Calls \ {c} : /\ poll[d] \in {"none", "ended"}
                         /\ d < c => post[d] \in {"idle", "done", "failed"}

ShownDone(c) == shown = [call |-> c, status |-> "done"]

\* A search that has the page to itself is polled until its complete results
\* are shown, or it fails or the user turns away from it.
AloneShown == \A c \in Calls : active = c /\ Alone(c) ~> ShownDone(c) \/ c \in over
=============================================================================
