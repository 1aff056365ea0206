------------------------------- MODULE Bisect -------------------------------
(***************************************************************************)
(* A bisect session (bisect.rs, and bisect_cmd and bisect_advance of       *)
(* main.rs): the marks kept in files beside the repository, and the search *)
(* over them.  A command is a series of file writes and may be killed      *)
(* after any of them: its parameter n is the number of writes that         *)
(* happened.                                                               *)
(*                                                                         *)
(* The environment is a user who looks for one commit, the culprit, that   *)
(* broke the world: every commit with the culprit in its history is        *)
(* broken, and no mark given says otherwise.  A new session may be about   *)
(* another culprit.  A worktree is bound, so each commit to test is checked *)
(* out (Repo.tla has checkout).  All of the history is in the store.       *)
(***************************************************************************)
EXTENDS Integers, FiniteSets

CONSTANTS
  MaxCommits,      \* the size of the history
  Branch,          \* HEAD on the branch
  Blank,           \* a file that exists and is empty
  None

Commits == 1 .. MaxCommits

ASSUME CommitsAssumption == MaxCommits \in Nat \ {0}
ASSUME MarksAssumption   == /\ None \notin Commits \cup {Branch, Blank}
                            /\ Blank \notin Commits \cup {Branch}
                            /\ Branch \notin Commits

VARIABLES
  parents,     \* the history
  tip,         \* the commit of the branch
  head,        \* Branch, or the commit HEAD is detached at
  original,    \* BISECT_START: what HEAD was, Blank when a kill left the file
               \* empty, None outside a session
  bad,         \* BISECT_BAD
  good,        \* BISECT_GOOD
  skip,        \* BISECT_SKIP
  verdict,     \* what the last command said: [is, at]
  culprit      \* ghost: the commit the user is after

history == <<parents, tip>>
vars    == <<history, head, original, bad, good, skip, verdict, culprit>>

Silent     == [is |-> "silent", at |-> None]
NeedMarks  == [is |-> "marks", at |-> None]
Done(c)    == [is |-> "done", at |-> c]
Testing(c) == [is |-> "step", at |-> c]

-----------------------------------------------------------------------------
(* compute                                                                 *)

\* ancestors_incl: c, its parents, their parents ...
ancestors_incl(c) ==
  LET from[d \in Commits] == {d} \cup UNION {from[p] : p \in parents[d]}
  IN  Commits \cap from[c]

Exonerated(gs) == UNION {ancestors_incl(g) : g \in gs}

Suspects(b, gs) == ancestors_incl(b) \ Exonerated(gs)

Candidates(b, gs, ss) == Suspects(b, gs) \ ({b} \cup ss)

\* How evenly a test of c would split the suspects.
Score(c, S) ==
  LET n == Cardinality(ancestors_incl(c) \cap S)
  IN  IF n <= Cardinality(S) - n THEN n ELSE Cardinality(S) - n

\* Mutant: the least even split is taken.
BestUneven(b, gs, ss) ==
  {c \in Candidates(b, gs, ss) : \A d \in Candidates(b, gs, ss) :
     Score(c, Suspects(b, gs)) <= Score(d, Suspects(b, gs))}

\* The code takes the first of these by hash.
Best(b, gs, ss) ==
  {c \in Candidates(b, gs, ss) : \A d \in Candidates(b, gs, ss) :
     Score(d, Suspects(b, gs)) <= Score(c, Suspects(b, gs))}

\* compute: the states it may return.
compute(b, gs, ss) ==
  IF b = None \/ gs = {} THEN {NeedMarks}
  ELSE IF Candidates(b, gs, ss) = {} THEN {Done(b)}
  ELSE {Testing(c) : c \in Best(b, gs, ss)}

\* bisect_advance: say where the search stands, and go to the commit to test.
\* A killed command says nothing.
Advance(done) ==
  IF done
  THEN /\ verdict' \in compute(bad', good', skip')
       /\ head' = IF verdict'.is = "step" THEN verdict'.at ELSE head
  ELSE /\ verdict' = Silent
       /\ UNCHANGED head

-----------------------------------------------------------------------------
HeadCommit == IF head = Branch THEN tip ELSE head

\* With culprit k, commit c is broken.
Broken(k, c) == k \in ancestors_incl(c)

\* A file rewritten with fs::write, after d of its two steps.
Rewritten(old, empty, new, d) == IF d <= 0 THEN old ELSE IF d = 1 THEN empty ELSE new

Init ==
  /\ parents \in [Commits -> SUBSET Commits]
  /\ \A c \in Commits : \A p \in parents[c] : p < c
  /\ \A c \in Commits : Cardinality(parents[c]) <= 2
  /\ tip \in Commits
  /\ head = Branch
  /\ original = None /\ bad = None /\ good = {} /\ skip = {}
  /\ verdict = Silent
  /\ culprit \in Commits

\* bisect start, killed while it removes the files of the last session.
StartKilled(n) ==
  /\ original' = None
  /\ bad' = IF n >= 2 THEN None ELSE bad
  /\ good' = IF n >= 3 THEN {} ELSE good
  /\ skip' = IF n >= 4 THEN {} ELSE skip
  /\ verdict' = Silent
  /\ UNCHANGED <<history, head, culprit>>

\* Mutant: the marks of the last session stay.
StartKeepsMarks(k, b, gs, n) ==
  /\ b # None => Broken(k, b)
  /\ \A g \in gs : ~Broken(k, g)
  /\ original' = IF n >= 1 THEN head ELSE Blank
  /\ culprit' = k
  /\ bad' = IF n >= 2 /\ b # None THEN b ELSE bad
  /\ good' = IF n >= 3 THEN good \cup gs ELSE good
  /\ UNCHANGED <<history, skip>>
  /\ Advance(n >= 4)

\* bisect start: the files of the last session are gone; write the new ones.
Start(k, b, gs, n) ==
  /\ b # None => Broken(k, b)
  /\ \A g \in gs : ~Broken(k, g)
  /\ original' = IF n >= 1 THEN head ELSE Blank
  /\ culprit' = k
  /\ bad' = IF n >= 2 THEN b ELSE None
  /\ good' = IF n >= 3 THEN gs ELSE {}
  /\ skip' = {}
  /\ UNCHANGED history
  /\ Advance(n >= 4)

\* bisect bad
MarkBad(c, n) ==
  /\ original # None
  /\ Broken(culprit, c)
  /\ bad' = Rewritten(bad, None, c, n)
  /\ UNCHANGED <<history, original, good, skip, culprit>>
  /\ Advance(n >= 3)

\* bisect good.  append_unique does not write what is there.
MarkGood(c, n) ==
  /\ original # None
  /\ ~Broken(culprit, c)
  /\ good' = IF c \in good THEN good ELSE Rewritten(good, {}, good \cup {c}, n)
  /\ UNCHANGED <<history, original, bad, skip, culprit>>
  /\ Advance(n >= 3)

\* bisect skip
MarkSkip(c, n) ==
  /\ original # None
  /\ skip' = IF c \in skip THEN skip ELSE Rewritten(skip, {}, skip \cup {c}, n)
  /\ UNCHANGED <<history, original, bad, good, culprit>>
  /\ Advance(n >= 3)

\* Mutant: the files go first, so there is nothing to go back to.
ResetClearsFirst(n) ==
  /\ original \notin {None, Blank}
  /\ original' = None
  /\ bad' = IF n >= 2 THEN None ELSE bad
  /\ good' = IF n >= 3 THEN {} ELSE good
  /\ skip' = IF n >= 4 THEN {} ELSE skip
  /\ head' = IF n >= 5 THEN None ELSE head
  /\ verdict' = Silent
  /\ UNCHANGED <<history, culprit>>

\* bisect reset: HEAD goes back, then the files go, BISECT_START first.  It
\* fails when BISECT_START is empty.
Reset(n) ==
  /\ original \notin {None, Blank}
  /\ head' = IF n >= 1 THEN original ELSE head
  /\ original' = IF n >= 2 THEN None ELSE original
  /\ bad' = IF n >= 3 THEN None ELSE bad
  /\ good' = IF n >= 4 THEN {} ELSE good
  /\ skip' = IF n >= 5 THEN {} ELSE skip
  /\ verdict' = Silent
  /\ UNCHANGED <<history, culprit>>

Next ==
  \/ \E n \in 1 .. 4 : StartKilled(n)
  \/ \E k \in Commits, b \in Commits \cup {None}, gs \in SUBSET Commits, n \in 0 .. 4 :
       Start(k, b, gs, n)
  \/ \E c \in Commits, n \in 1 .. 3 : MarkBad(c, n) \/ MarkGood(c, n) \/ MarkSkip(c, n)
  \/ \E n \in 1 .. 5 : Reset(n)

Spec == Init /\ [][Next]_vars

-----------------------------------------------------------------------------
(* Properties.                                                             *)

\* The type invariant: HEAD and every file of a session hold what is read from
\* them.
BisectTypeOK ==
  /\ parents \in [Commits -> SUBSET Commits]
  /\ tip \in Commits
  /\ head \in Commits \cup {Branch}
  /\ original \in Commits \cup {Branch, Blank, None}
  /\ bad \in Commits \cup {None}
  /\ good \subseteq Commits
  /\ skip \subseteq Commits
  /\ verdict \in [is : {"silent", "marks", "done", "step"}, at : Commits \cup {None}]
  /\ culprit \in Commits

\* The commit bisect names is the culprit, or the culprit is one of the
\* commits that were skipped; no commit of an earlier session, of a session
\* whose start or reset was killed, or of a mark that was lost when a file was
\* truncated, leads it astray.
BlameIsSound ==
  original # None /\ verdict.is = "done"
    => culprit = verdict.at \/ culprit \in skip

\* The history of c is a line.
Linear(c) == \A d \in ancestors_incl(c) : Cardinality(parents[d]) <= 1

\* The search halves: on a linear history, answering for the commit under
\* test leaves at most half of the suspects (rounded up), whatever the answer.
Halves ==
  [][ (/\ verdict.is = "step" /\ verdict'.is \in {"step", "done"}
       /\ original' = original /\ skip = {} /\ skip' = {} /\ Linear(bad)
       /\ MarkBad(verdict.at, 3) \/ MarkGood(verdict.at, 3))
      => 2 * Cardinality(Suspects(bad', good')) <= Cardinality(Suspects(bad, good)) + 1 ]_vars

=============================================================================
