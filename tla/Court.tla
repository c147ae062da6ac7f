------------------------------- MODULE Court -------------------------------
(***************************************************************************)
(* The court of PA3/Court.h: threads enter(), play() and leave().  A match *)
(* begins when the last of player_count (+ referee) threads enters, and    *)
(* court_lock, a semaphore of one unit, stays taken until everybody left.  *)
(*                                                                         *)
(* A section of code under `mutex` is one action: the fields are only      *)
(* touched under it, and a post made inside a section only lets in threads *)
(* that need `mutex` next.  The messages are left out, but noMatch and     *)
(* refereeLeft count two of them.                                          *)
(***************************************************************************)
EXTENDS Integers, FiniteSets

CONSTANTS
  Threads, NoThread,
  PlayerCount, HasReferee,   \* the constructor's arguments
  Visits                     \* enter/play/leave rounds per thread (bound)

\* The constructor throws on anything else.
ASSUME ArgumentsAssumption == PlayerCount \in Nat \ {0} /\ HasReferee \in {0, 1}
ASSUME ThreadsAssumption == IsFiniteSet(Threads) /\ NoThread \notin Threads
ASSUME VisitsAssumption == Visits \in Nat

VARIABLES
  pc, visits,                \* per thread: where it is, the visits it has left
  court_lock, match_start,   \* semaphores
  match_in_progress, current_players, waiting_players, referee_thread,
  noMatch,                   \* calls of leave() that found no match
  refereeLeft                \* leave() calls of this match that announced the referee

fields == <<match_in_progress, current_players, waiting_players, referee_thread>>
messages == <<noMatch, refereeLeft>>
vars == <<pc, visits, court_lock, match_start, fields, messages>>

Init ==
  /\ pc = [t \in Threads |-> "out"]
  /\ visits = [t \in Threads |-> Visits]
  /\ court_lock = 1
  /\ match_start = 0
  /\ match_in_progress = FALSE
  /\ current_players = 0
  /\ waiting_players = 0
  /\ referee_thread = NoThread
  /\ noMatch = 0
  /\ refereeLeft = 0

Goto(t, from, to) == pc[t] = from /\ pc' = [pc EXCEPT ![t] = to]

-----------------------------------------------------------------------------
(* enter() *)

Arrive(t) ==
  /\ visits[t] > 0
  /\ Goto(t, "out", "arrived")
  /\ visits' = [visits EXCEPT ![t] = @ - 1]
  /\ UNCHANGED <<court_lock, match_start, fields, messages>>

\* sem_wait, on court_lock by an arriving thread and on match_start by one that
\* waits for a match to end.
SemWait(t) ==
  /\ pc[t] \in {"arrived", "waiting"}
  /\ IF pc[t] = "arrived"
       THEN /\ court_lock > 0
            /\ court_lock' = court_lock - 1
            /\ UNCHANGED match_start
       ELSE /\ match_start > 0
            /\ match_start' = match_start - 1
            /\ UNCHANGED court_lock
  /\ pc' = [pc EXCEPT ![t] = IF @ = "arrived" THEN "entering" ELSE "woken"]
  /\ UNCHANGED <<visits, fields, messages>>

Quorum == PlayerCount + HasReferee

NextReferee(t) == IF HasReferee = 1 THEN t ELSE referee_thread

\* Where a thread goes after the section, having started a match.
AfterStartPosts == "passing"     \* mutant of AfterStart: posts court_lock as well
AfterStart == "inside"

\* The section of enter(): wait for the match to end, or start one (and keep
\* court_lock), or pass some time.  A thread woken from match_start only takes
\* itself off waiting_players.
EnterSection(t) ==
  /\ pc[t] \in {"entering", "woken"}
  /\ CASE pc[t] = "woken" ->
            /\ waiting_players' = waiting_players - 1
            /\ pc' = [pc EXCEPT ![t] = "inside"]
            /\ UNCHANGED <<match_start, match_in_progress, current_players, referee_thread, refereeLeft>>
       [] pc[t] = "entering" /\ match_in_progress ->
            /\ waiting_players' = waiting_players + 1
            /\ pc' = [pc EXCEPT ![t] = "barred"]
            /\ UNCHANGED <<match_start, match_in_progress, current_players, referee_thread, refereeLeft>>
       [] pc[t] = "entering" /\ ~match_in_progress /\ current_players + 1 = Quorum ->
            /\ current_players' = current_players + 1
            /\ match_in_progress' = TRUE
            /\ referee_thread' = NextReferee(t)
            /\ match_start' = match_start + (current_players' - 1)
            /\ refereeLeft' = 0
            /\ pc' = [pc EXCEPT ![t] = AfterStart]
            /\ UNCHANGED waiting_players
       [] OTHER ->
            /\ current_players' = current_players + 1
            /\ pc' = [pc EXCEPT ![t] = "passing"]
            /\ UNCHANGED <<match_start, match_in_progress, waiting_players, referee_thread, refereeLeft>>
  /\ UNCHANGED <<visits, court_lock, noMatch>>

\* sem_post(&court_lock), by a thread that passes some time or has to wait.
PostCourtLock(t) ==
  /\ pc[t] \in {"passing", "barred"}
  /\ court_lock' = court_lock + 1
  /\ pc' = [pc EXCEPT ![t] = IF @ = "passing" THEN "inside" ELSE "waiting"]
  /\ UNCHANGED <<visits, match_start, fields, messages>>

-----------------------------------------------------------------------------
(* leave(), after play() *)

\* There is no match: the thread leaves as it came, current_players still
\* counting it.
LeaveWithoutMatch(t) ==
  /\ ~match_in_progress
  /\ Goto(t, "inside", "out")
  /\ noMatch' = noMatch + 1
  /\ UNCHANGED <<visits, court_lock, match_start, fields, refereeLeft>>

LastButOne == current_players = 2            \* mutant of LastToLeave: off by one
NoneBeforeLeaving == current_players = 0     \* mutant of LastToLeave: not decremented yet
LastToLeave == current_players = 1

RefereeNotTaken(t) ==      \* mutant of PlayersLeft: the referee is not taken off
  IF t = referee_thread THEN current_players ELSE current_players - 1
PlayersLeft(t) == current_players - 1

LeaveMatch(t) ==
  /\ match_in_progress
  /\ Goto(t, "inside", "out")
  /\ current_players' = PlayersLeft(t)
  /\ refereeLeft' = refereeLeft + (IF HasReferee = 1 /\ t = referee_thread THEN 1 ELSE 0)
  /\ IF LastToLeave
       THEN /\ match_in_progress' = FALSE
            /\ match_start' = match_start + waiting_players
            /\ court_lock' = court_lock + 1
       ELSE UNCHANGED <<match_in_progress, match_start, court_lock>>
  /\ UNCHANGED <<visits, waiting_players, referee_thread, noMatch>>

-----------------------------------------------------------------------------
Thread(t) == \/ Arrive(t) \/ SemWait(t) \/ EnterSection(t) \/ PostCourtLock(t)
             \/ LeaveWithoutMatch(t) \/ LeaveMatch(t)

Next == \E t \in Threads : Thread(t)

Spec == Init /\ [][Next]_vars

\* Every runnable thread is scheduled and every play() ends.  Which of the threads
\* waiting for a unit of court_lock gets it does not matter to the properties below.
FairSpec == Spec /\ \A t \in Threads : WF_vars(Thread(t))

-----------------------------------------------------------------------------
(* Properties *)

\* The type invariant.
TypeOK ==
  /\ pc \in [Threads -> {"out", "arrived", "entering", "passing", "inside",
                         "barred", "waiting", "woken"}]
  /\ visits \in [Threads -> 0 .. Visits]
  /\ court_lock \in Nat
  /\ match_start \in Nat
  /\ match_in_progress \in BOOLEAN
  /\ current_players \in Nat
  /\ waiting_players \in Int
  /\ referee_thread \in Threads \cup {NoThread}
  /\ noMatch \in Nat
  /\ refereeLeft \in Nat

InLock(t) == pc[t] \in {"entering", "passing"}

\* The unit of court_lock is in one place: in the semaphore, with a thread between
\* its sem_wait and its sem_post, or with the match, whose last leaver posts it.
\* So enter()'s branch for a match in progress never runs and nobody waits on
\* match_start, although every match posts it.
CourtLockToken ==
  /\ court_lock \in {0, 1}
  /\ \A t \in Threads : InLock(t) => court_lock = 0 /\ ~match_in_progress
  /\ \A t, u \in Threads : InLock(t) /\ InLock(u) => t = u
  /\ match_in_progress => court_lock = 0
  /\ waiting_players = 0
  /\ \A t \in Threads : pc[t] \notin {"barred", "waiting", "woken"}

Counted == {t \in Threads : pc[t] \in {"passing", "inside"}}

\* current_players is the number of threads on the court plus the number of those
\* that ever gave up: leave() without a match does not take itself off.
CountMatches == current_players = Cardinality(Counted) + noMatch

\* While a match is on, its referee is either on the court and has announced
\* nothing, or has left and announced the end once; nobody announces it without one.
RefereeAnnouncesOnce ==
  match_in_progress =>
    IF HasReferee = 1
    THEN /\ referee_thread \in Threads
         /\ refereeLeft = IF pc[referee_thread] = "inside" THEN 0 ELSE 1
    ELSE refereeLeft = 0

\* A match ends only when the court is empty, and by then its referee, if there is
\* one, has announced the end exactly once.
EndsEmptyStep ==
  match_in_progress /\ ~match_in_progress'
    => /\ \A t \in Threads : pc'[t] # "inside"
       /\ refereeLeft' = HasReferee

MatchEndsEmpty == [][EndsEmptyStep]_vars

\* A match that counted a thread which had given up never ends: court_lock is not
\* posted again.
ShortMatchNeverEnds ==
  [][match_in_progress /\ noMatch > 0 => match_in_progress']_vars

Finished(t) == pc[t] = "out" /\ visits[t] = 0

\* In the end every thread has returned from all of its calls, as main's joins expect
\* (court_test.cpp:40-42), or a match is on for good that somebody who left before
\* was counted for: there is no other way to hang.
HangsOnlyInShortMatch ==
  <>[]((\A t \in Threads : Finished(t)) \/ (match_in_progress /\ noMatch > 0))
=============================================================================
