------------------------------ MODULE TmuxPanes ------------------------------
(* What is read from the panes of a tmux session (source/tmux.rs), and by      *)
(* whom: the daemon's poll, or the monitor of a wrapper, which runs in the     *)
(* process of `clawhip tmux watch` and registers the session as its own.  A    *)
(* watcher compares what a pane shows with what it showed at the last look;    *)
(* lines with a keyword that came since are collected for a window and told    *)
(* together, and a pane that shows the same for long is told as stale.         *)
(*                                                                             *)
(* A line is its text, and has a keyword or not: the many rules by which       *)
(* keyword_window.rs discounts a match are left out.  A pane only appends, as  *)
(* a shell does: programs that redraw their screen are left out.  Which        *)
(* sessions are watched is TmuxRegistry's; this one is configured, so that it  *)
(* is the daemon's whenever no wrapper has registered it.                      *)
EXTENDS Integers, SequencesExt, FiniteSetsExt

CONSTANTS
  Wrappers,    \* whether a wrapper may be started
  Panes,       \* panes of the session, in the order in which tmux lists them
  Plain, Keyed,\* texts without and with a keyword
  Depth,       \* lines of a pane that are captured
  Window,      \* keyword_window_secs
  StaleAfter,  \* stale_minutes
  MaxTime,     \* bound of the clock
  MaxPrints,   \* bound on the lines printed
  MaxTroubles  \* bound on panes that die or close, sessions that end, calls of tmux that fail

\* What a user of the module assumes of the constants.
PanesConstants ==
  /\ Wrappers \in BOOLEAN
  /\ Plain \cap Keyed = {}
  /\ Panes \subseteq Nat
  /\ {Depth, Window, StaleAfter} \subseteq Nat \ {0}
  /\ {MaxTime, MaxPrints, MaxTroubles} \subseteq Nat

Watchers == {"daemon", "wrapper"}
Texts == Plain \cup Keyed

VARIABLES
  clock,
  session,   \* it exists
  pane,      \* per pane, whether it is open, and what it has printed
  wrapped,   \* the registration says that a wrapper watches
  look,      \* per watcher, how far its look is
  known,     \* per watcher and pane, what it showed at the last look
  pending,   \* per watcher, the hits of its window
  prints, troubles,
  printed,   \* history: per text, how often it was printed on a pane that somebody knew
  told,      \* history: per text, how often it was told
  mark,      \* history: per watcher and pane, how much was printed at the last look
  owed,      \* history: per watcher, the texts with a keyword that came since and wait to be told
  said,      \* history: per watcher and pane, when it was told as stale, or Never
  hurried,   \* history: a pane was told as stale twice within StaleAfter
  both       \* history: the daemon watched again while the wrapper still did

panesVars == <<clock, session, pane, wrapped, look, known, pending, prints, troubles,
               printed, told, mark, owed, said, hurried, both>>

Unknown == [screen |-> <<>>, change |-> -1, stale |-> -1]
Never == -1
NoHits == [since |-> 0, hits |-> {}]
Away == [at |-> "away"]   \* the wrapper does not run
Resting == [at |-> "resting"]

Fresh == [state |-> "live", lines |-> <<>>]

PanesInit ==
  /\ clock = 0 /\ session = TRUE /\ wrapped = FALSE
  /\ pane = [p \in Panes |-> Fresh]
  /\ look = [w \in Watchers |-> IF w = "daemon" THEN Resting ELSE Away]
  /\ known = [w \in Watchers |-> [p \in Panes |-> Unknown]]
  /\ pending = [w \in Watchers |-> NoHits]
  /\ prints = 0 /\ troubles = 0
  /\ printed = [t \in Texts |-> 0] /\ told = [t \in Texts |-> 0]
  /\ mark = [w \in Watchers |-> [p \in Panes |-> 0]]
  /\ owed = [w \in Watchers |-> {}]
  /\ said = [w \in Watchers |-> [p \in Panes |-> Never]] /\ hurried = FALSE /\ both = FALSE

-----------------------------------------------------------------------------
(* The session.                                                                *)

Trouble == troubles < MaxTroubles /\ troubles' = troubles + 1
Watching == <<look, known, pending, told, owed, said, hurried, both>>

Tick == clock < MaxTime /\ clock' = clock + 1
        /\ UNCHANGED <<session, pane, wrapped, prints, troubles, printed, mark, Watching>>

Printed(p, t) ==
  /\ session /\ pane[p].state = "live" /\ prints < MaxPrints
  /\ prints' = prints + 1
  /\ pane' = [pane EXCEPT ![p].lines = Append(@, t)]
  /\ printed' = IF \E w \in Watchers : known[w][p] # Unknown THEN [printed EXCEPT ![t] = @ + 1] ELSE printed
  /\ UNCHANGED <<clock, session, wrapped, troubles, mark, Watching>>

\* Its program ends, and tmux keeps the pane or closes it.
PaneEnds(p) ==
  /\ session /\ pane[p].state = "live" /\ Trouble
  /\ \E s \in {"dead", "closed"} : pane' = [pane EXCEPT ![p].state = s]
  /\ UNCHANGED <<clock, session, wrapped, prints, printed, mark, Watching>>

SessionCloses ==
  /\ session /\ Trouble /\ session' = FALSE
  /\ UNCHANGED <<clock, pane, wrapped, prints, printed, mark, Watching>>

\* Under the same name and with the same ids, as after a restart of tmux.
SessionOpens ==
  /\ ~session /\ session' = TRUE
  /\ pane' = [p \in Panes |-> Fresh]
  /\ mark' = [w \in Watchers |-> [p \in Panes |-> 0]]
  /\ UNCHANGED <<clock, wrapped, prints, troubles, printed, Watching>>

-----------------------------------------------------------------------------
(* What a look finds (keyword_window.rs).                                      *)

Screen(p) == LET n == Len(pane[p].lines) IN SubSeq(pane[p].lines, Max({1, n - Depth + 1}), n)

\* The daemon asks for the time again for each pane.
Now(w) == IF w = "daemon" THEN clock ELSE look[w].now

\* overlapping_suffix_prefix_len: the longest end of the old that begins the new.
Joins(old, new, k) ==
  k <= Len(old) /\ k <= Len(new) /\ SubSeq(old, Len(old) - k + 1, Len(old)) = SubSeq(new, 1, k)
Overlap(old, new) == Max({k \in 0..Len(new) : Joins(old, new, k)})
\* Line 0, the line before the appended ones, is only their context.
AppendedAndContext(old, new) == ToSet(SubSeq(new, Max({1, Overlap(old, new)}), Len(new)))
Appended(old, new) == ToSet(SubSeq(new, Overlap(old, new) + 1, Len(new)))

\* collect_keyword_hits_with_provenance
Hits(old, new) == Appended(old, new) \cap Keyed

\* push_pending_keyword_hits, of the hits of several panes
Collected(w, window, hits) ==
  IF hits = {} THEN window
  ELSE IF window = NoHits THEN [since |-> Now(w), hits |-> hits]
  ELSE [window EXCEPT !.hits = @ \cup hits]

-----------------------------------------------------------------------------
(* A look: is the session there, are hits due, and what do the panes show.     *)

Goes(w, place) == look' = [look EXCEPT ![w] = place]
Drops(w) == pending' = [pending EXCEPT ![w] = NoHits] /\ owed' = [owed EXCEPT ![w] = {}]
Forgets(w) == known' = [known EXCEPT ![w] = [p \in Panes |-> Unknown]]
World == <<clock, session, pane, prints, printed, mark>>

\* The daemon reads the registry; the wrapper knows what it registered.
Begin(w) ==
  /\ look[w] = Resting
  /\ Goes(w, [at |-> "probe", watch |-> (w = "wrapper" \/ ~wrapped), now |-> clock])
  /\ UNCHANGED <<World, wrapped, known, pending, troubles, told, owed, said, hurried, both>>

\* has-session says no; the daemon takes the wrapper's registration out, if it
\* is the one it has read.
Absent(w) ==
  /\ look[w].at = "probe" /\ ~session
  /\ Drops(w) /\ Forgets(w) /\ Goes(w, IF w = "daemon" THEN Resting ELSE Away)
  /\ wrapped' = (wrapped /\ (w # "daemon" \/ look[w].watch))
  /\ both' = (both \/ (wrapped /\ ~wrapped' /\ look["wrapper"] # Away))
  /\ UNCHANGED <<World, troubles, told, said, hurried>>

\* A session that a wrapper watches is not the daemon's.
NotMine(w) ==
  /\ look[w].at = "probe" /\ session /\ ~look[w].watch
  /\ Drops(w) /\ Forgets(w) /\ Goes(w, Resting)
  /\ UNCHANGED <<World, wrapped, troubles, told, said, hurried, both>>

\* flush_pending_keyword_hits
ReadyToFlush(w) == pending[w] # NoHits /\ look[w].now - pending[w].since >= Window
Flush(w) ==
  /\ look[w].at = "probe" /\ session /\ look[w].watch
  /\ IF ReadyToFlush(w)
       THEN told' = [t \in Texts |-> told[t] + (IF t \in pending[w].hits THEN 1 ELSE 0)] /\ Drops(w)
       ELSE UNCHANGED <<told, pending, owed>>
  /\ Goes(w, [look[w] EXCEPT !.at = "panes"])
  /\ UNCHANGED <<World, wrapped, known, troubles, said, hurried, both>>

\* A call of tmux fails, or the session is gone meanwhile: the daemon has then
\* seen no pane of the session and forgets them all; the wrapper ends.
Fails(w) ==
  /\ \/ look[w].at \in {"probe", "panes"} /\ Trouble
     \/ look[w].at = "panes" /\ ~session /\ UNCHANGED troubles
  /\ Forgets(w)
  /\ IF w = "daemon" THEN Goes(w, Resting) /\ UNCHANGED <<pending, owed>> ELSE Goes(w, Away) /\ Drops(w)
  /\ UNCHANGED <<World, wrapped, told, said, hurried, both>>

\* should_emit_stale
IsStale(w, p) ==
  /\ pane[p].state = "live" /\ Now(w) - known[w][p].change >= StaleAfter
  /\ known[w][p].stale # Never => Now(w) - known[w][p].stale >= StaleAfter

Open(p) == pane[p].state # "closed"
Changed(w, p) == known[w][p] # Unknown /\ known[w][p].screen # Screen(p)
Stale(w, p) == known[w][p] # Unknown /\ ~Changed(w, p) /\ IsStale(w, p)
Seen(w, p) ==
  IF ~Open(p) THEN Unknown
  ELSE IF known[w][p] = Unknown \/ Changed(w, p) THEN [screen |-> Screen(p), change |-> Now(w), stale |-> Never]
  ELSE IF Stale(w, p) THEN [known[w][p] EXCEPT !.stale = Now(w)]
  ELSE known[w][p]

\* The lines that a pane has printed since the last look and still shows.
Since(w, p) ==
  LET n == Len(pane[p].lines) IN ToSet(SubSeq(pane[p].lines, Max({mark[w][p], n - Depth}) + 1, n))
Came(w, p) == (Since(w, p) \cap Keyed) \ ToSet(known[w][p].screen)

\* The panes, one after the other; one that is dead empties the window.
Dead == {p \in Panes : pane[p].state = "dead"}
Snapshot(w) ==
  /\ look[w].at = "panes" /\ session
  /\ LET kept == {p \in Panes : pane[p].state = "live" /\ known[w][p] # Unknown /\ \A q \in Dead : q < p}
         hits == UNION {Hits(known[w][p].screen, Screen(p)) : p \in {q \in kept : Changed(w, q)}}
         stale == {p \in Panes : Open(p) /\ Stale(w, p)}
     IN /\ pending' = [pending EXCEPT ![w] = Collected(w, IF Dead = {} THEN @ ELSE NoHits, hits)]
        /\ owed' = [owed EXCEPT ![w] = (IF Dead = {} THEN @ ELSE {}) \cup UNION {Came(w, p) : p \in kept}]
        /\ known' = [known EXCEPT ![w] = [p \in Panes |-> Seen(w, p)]]
        /\ mark' = [mark EXCEPT ![w] = [p \in Panes |-> Len(pane[p].lines)]]
        /\ hurried' = (hurried \/ \E p \in stale : said[w][p] # Never /\ Now(w) - said[w][p] < StaleAfter)
        /\ said' = [said EXCEPT ![w] = [p \in Panes |-> IF p \in stale THEN Now(w) ELSE @[p]]]
  /\ Goes(w, Resting)
  /\ UNCHANGED <<clock, session, pane, wrapped, prints, troubles, printed, told, both>>

-----------------------------------------------------------------------------
(* The wrapper.                                                                *)

Follow ==
  /\ Wrappers /\ session /\ look["wrapper"] = Away
  /\ wrapped' = TRUE /\ Goes("wrapper", Resting)
  /\ UNCHANGED <<World, known, pending, troubles, told, owed, said, hurried, both>>

\* Its user stops it.
Leave ==
  /\ look["wrapper"] # Away /\ Trouble
  /\ Goes("wrapper", Away) /\ Drops("wrapper") /\ Forgets("wrapper")
  /\ UNCHANGED <<World, wrapped, told, said, hurried, both>>

PanesNext ==
  \/ Tick \/ \E p \in Panes, t \in Texts : Printed(p, t)
  \/ (\E p \in Panes : PaneEnds(p)) \/ SessionCloses \/ SessionOpens
  \/ \E w \in Watchers : Begin(w) \/ Absent(w) \/ NotMine(w) \/ Flush(w) \/ Fails(w) \/ Snapshot(w)
  \/ Follow \/ Leave

PanesSpec == PanesInit /\ [][PanesNext]_panesVars

-----------------------------------------------------------------------------
(* Properties.                                                                 *)

PanesTypeOK ==
  /\ {session, wrapped, hurried, both} \subseteq BOOLEAN
  /\ \A w \in Watchers : look[w].at \in {"away", "resting", "probe", "panes"} /\ pending[w].hits \subseteq Keyed

\* A line is told once at most, and only if it was printed while somebody
\* watched: not because it scrolls or stays in sight, not by both watchers when
\* one gives way to the other, not when the daemon had forgotten the pane.  But
\* both tell it when a session ends and starts between two looks of the wrapper,
\* and the daemon looks in between.
ToldOnce == ~both => \A t \in Texts : told[t] <= printed[t]

\* A line that came into sight and was not there before waits to be told.
NothingOverlooked == \A w \in Watchers : owed[w] \subseteq pending[w].hits

\* What is told of the panes (source/tmux.rs, monitor_registered_session and
\* poll_tmux) is new and is not told twice, nothing new is passed over, and a
\* watcher leaves time between two reports of a stale pane, though the pane was
\* changed or forgotten in between.
PanesInv == PanesTypeOK /\ ToldOnce /\ NothingOverlooked /\ ~hurried
=============================================================================
