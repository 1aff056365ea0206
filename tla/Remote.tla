------------------------------- MODULE Remote -------------------------------
(***************************************************************************)
(* Several clients and one server repository: clone (full, shallow and     *)
(* partial), push, fetch, pull and the on-demand backfill of remote.rs,    *)
(* transfer.rs and main.rs, against the per-repository operations of       *)
(* serve.rs.  The server handles one request at a time, so a request is    *)
(* one step, and between the requests of one command anything else may     *)
(* happen: requests of other clients, gc on the server, a kill.            *)
(*                                                                         *)
(* Each repository has one branch.  A commit has at most one parent and    *)
(* one leaf (its world).  gc is one step here (PackStore.tla has its       *)
(* steps).  refs/remotes is left out: no command reads it.                 *)
(***************************************************************************)
EXTENDS Integers, FiniteSets, FiniteSetsExt, Sequences

CONSTANTS
  Clients,
  Server,
  Leaves,
  MaxCommits,
  Modes,           \* the clones made: a subset of {"full", "shallow", "partial"}
  Depth            \* of a shallow clone

ASSUME RemoteAssumption ==
  /\ Server \notin Clients
  /\ MaxCommits \in Nat
  /\ Modes \subseteq {"full", "shallow", "partial"}
  /\ Depth \in Nat \ {0}

Repos == Clients \cup {Server}

Commit(n) == <<"commit", n>>
Tree(l)   == <<"tree", l>>
Leaf(l)   == <<"leaf", l>>
Objects   == {Leaf(l) : l \in Leaves} \cup {Tree(l) : l \in Leaves}
               \cup {Commit(n) : n \in 1 .. MaxCommits}

VARIABLES
  commits,     \* every commit made anywhere: parent (0 for none) and leaf
  store,       \* the objects each repository has
  branch,      \* the tip of its branch, 0 when unborn
  shallow,     \* its recorded shallow boundary
  partial,     \* whether it is recorded as a partial clone
  proc         \* the command each client runs

repos == <<store, branch, shallow, partial>>
vars  == <<commits, repos, proc>>

\* The states of a command, over the first n commits.
Commands(n) ==
  [pc   : {"none", "idle", "put", "get", "record", "mark"},
   mode : {"none", "full", "shallow", "partial", "fetch", "pull"},
   tip  : 0 .. n, todo : SUBSET Objects]

Idle == [pc |-> "idle", mode |-> "none", tip |-> 0, todo |-> {}]

\* No repository yet.
NoClone == [Idle EXCEPT !.pc = "none"]

Goto(c, l) == proc' = [proc EXCEPT ![c].pc = l]
Exit(c)    == proc' = [proc EXCEPT ![c] = Idle]

Init ==
  /\ commits = <<>>
  /\ store = [r \in Repos |-> {}]
  /\ branch = [r \in Repos |-> 0]
  /\ shallow = [r \in Repos |-> {}]
  /\ partial = [r \in Repos |-> FALSE]
  /\ proc = [c \in Clients |-> NoClone]

-----------------------------------------------------------------------------
(* Walks.                                                                  *)

\* parents_of: a commit on the shallow boundary has none.
ParentOf(r, n) == IF n \in shallow[r] THEN 0 ELSE commits[n].parent

\* The commits a walk in r meets from each commit, going on from those in on.
Walk(r, on) ==
  LET from[n \in 0 .. MaxCommits] ==
        IF n \notin DOMAIN commits THEN {}
        ELSE {n} \cup IF n \in on THEN from[ParentOf(r, n)] ELSE {}
  IN from

\* Going on from the commits that r has, and from all of them.
Met(r)     == Walk(r, {n \in DOMAIN commits : Commit(n) \in store[r]})
History(r) == Walk(r, DOMAIN commits)

TreeOf(n) == Tree(commits[n].leaf)
LeafOf(n) == Leaf(commits[n].leaf)

\* reachable: what r would send or keep.  Commits it lacks are passed over,
\* leaves are listed whether it has them or not.
Reachable(r, n) ==
  LET got == {m \in Met(r)[n] : Commit(m) \in store[r]} IN
    {Commit(m) : m \in got} \cup {TreeOf(m) : m \in got}
      \cup {LeafOf(m) : m \in {k \in got : TreeOf(k) \in store[r]}}

\* The d newest commits of a chain, all of it for d = 0.
Newest(d, S) == IF d = 0 THEN S
                ELSE {n \in S : Cardinality({m \in S : m >= n}) <= d}

\* The commits a fetch of client c visits.
Visited(c) ==
  Newest(IF proc[c].mode = "shallow" THEN Depth ELSE 0, Met(c)[proc[c].tip])

\* The commits and manifests it still has to get, and then the leaves.
WantSkeleton(c) ==
  ({Commit(n) : n \in Visited(c)}
     \cup {TreeOf(n) : n \in {m \in Visited(c) : Commit(m) \in store[c]}}) \ store[c]

\* Mutant: only the newest manifest's leaves are fetched.
WantLeavesOfTip(c) ==
  IF proc[c].mode = "partial" THEN {} ELSE {LeafOf(proc[c].tip)} \ store[c]

WantLeaves(c) ==
  IF proc[c].mode = "partial" THEN {}
  ELSE {LeafOf(n) : n \in Visited(c)} \ store[c]

\* verify_remote: the commits, manifests and leaves that a walk from the
\* server's branch asks for and does not get.
VerifyRemote ==
  LET met   == Met(Server)[branch[Server]]
      got   == {n \in met : Commit(n) \in store[Server]}
      trees == {n \in got : TreeOf(n) \in store[Server]}
  IN ({Commit(n) : n \in met} \cup {TreeOf(n) : n \in got}
        \cup {LeafOf(n) : n \in trees}) \ store[Server]

-----------------------------------------------------------------------------
(* The requests a server answers; writes are in the actions.               *)

\* The objects of a list that it lacks, an object, the objects of a list that
\* it has.
op_have(ids)     == ids \ store[Server]
op_get(o)        == o \in store[Server]
op_get_pack(ids) == ids \cap store[Server]

-----------------------------------------------------------------------------
(* Local commands.                                                         *)

\* init: a client that starts its own history.
InitRepo(c) ==
  /\ proc[c].pc = "none"
  /\ Exit(c)
  /\ UNCHANGED <<commits, repos>>

\* Mutant: the parent is read after the branch has moved.
MakeCommitSelf(c, l) ==
  /\ proc[c].pc = "idle"
  /\ Len(commits) < MaxCommits
  /\ commits' = Append(commits, [parent |-> Len(commits) + 1, leaf |-> l])
  /\ UNCHANGED <<repos, proc>>

MakeCommit(c, l) ==
  /\ proc[c].pc = "idle"
  /\ Len(commits) < MaxCommits
  /\ branch[c] # 0 => Commit(branch[c]) \in store[c] /\ commits[branch[c]].leaf # l
  /\ commits' = Append(commits, [parent |-> branch[c], leaf |-> l])
  /\ branch' = [branch EXCEPT ![c] = Len(commits) + 1]
  /\ store' = [store EXCEPT ![c] = @ \cup {Commit(Len(commits) + 1), Tree(l), Leaf(l)}]
  /\ UNCHANGED <<shallow, partial, proc>>

Collected(r) == store[r] \cap Reachable(r, branch[r])

\* An assumption on whoever runs gc on the server: no push is under way, and
\* nobody works in a shallow clone.  The code does not see to either.
Undisturbed ==
  \A c \in Clients :
    proc[c].pc # "put" /\ proc[c].mode # "shallow" /\ shallow[c] = {}

Gc(r) ==
  /\ IF r = Server THEN Undisturbed ELSE proc[r].pc = "idle"
  /\ store' = [store EXCEPT ![r] = Collected(r)]
  /\ UNCHANGED <<commits, branch, shallow, partial, proc>>

-----------------------------------------------------------------------------
(* push                                                                    *)

\* push: list what the branch reaches, ask which of it the server lacks
\* (op_have).
PushStart(c) ==
  /\ proc[c].pc = "idle"
  /\ branch[c] # 0
  /\ proc' = [proc EXCEPT ![c] = [pc |-> "put", mode |-> "none", tip |-> branch[c],
                todo |-> op_have(Reachable(c, branch[c]))]]
  /\ UNCHANGED <<commits, repos>>

\* op_put_pack: one batch; the push fails on an object it cannot read itself.
PutObjects(c, batch) ==
  /\ proc[c].pc = "put"
  /\ batch # {}
  /\ IF batch \subseteq store[c]
     THEN /\ store' = [store EXCEPT ![Server] = @ \cup batch]
          /\ proc' = [proc EXCEPT ![c].todo = @ \ batch]
     ELSE Exit(c) /\ UNCHANGED store
  /\ UNCHANGED <<commits, branch, shallow, partial>>

\* Mutant: the ref is set before the objects are sent.
SetRefFirst(c) ==
  /\ proc[c].pc = "put"
  /\ branch' = [branch EXCEPT ![Server] = proc[c].tip]
  /\ Goto(c, "put")
  /\ UNCHANGED <<commits, store, shallow, partial>>

\* op_set_ref, with the force the transports ask for: the ref moves whatever
\* it was, if the commit object is there.
SetRef(c) ==
  /\ proc[c].pc = "put"
  /\ proc[c].todo = {}
  /\ branch' = IF Commit(proc[c].tip) \in store[Server]
               THEN [branch EXCEPT ![Server] = proc[c].tip] ELSE branch
  /\ Exit(c)
  /\ UNCHANGED <<commits, store, shallow, partial>>

-----------------------------------------------------------------------------
(* fetch, pull, clone                                                      *)

\* list_refs (op_info_refs): the tip of the branch.
FetchStart(c, mode) ==
  /\ IF mode \in {"fetch", "pull"} THEN proc[c].pc = "idle"
     ELSE mode \in Modes /\ proc[c].pc = "none"
  /\ branch[Server] # 0
  /\ proc' = [proc EXCEPT ![c] = [pc |-> "get", mode |-> mode, tip |-> branch[Server],
                todo |-> {}]]
  /\ UNCHANGED <<commits, repos>>

\* A command fails or is killed, with some objects just arrived.  The directory
\* a clone leaves behind is thrown away by whoever runs it.
Abandon(c, got) ==
  IF proc[c].mode \in {"full", "shallow", "partial"}
  THEN /\ proc' = [proc EXCEPT ![c] = NoClone]
       /\ store' = [store EXCEPT ![c] = {}]
       /\ branch' = [branch EXCEPT ![c] = 0]
       /\ UNCHANGED <<commits, shallow, partial>>
  ELSE /\ Exit(c)
       /\ store' = [store EXCEPT ![c] = @ \cup got]
       /\ UNCHANGED <<commits, branch, shallow, partial>>

\* The walk of fetch_reachable, fetch_skeleton and fetch_tip: one commit or
\* manifest is fetched (op_get); the command fails if the server lacks it.
GetSkeleton(c) ==
  /\ proc[c].pc = "get"
  /\ \E o \in WantSkeleton(c) :
       IF op_get(o)
       THEN /\ store' = [store EXCEPT ![c] = @ \cup {o}]
            /\ UNCHANGED <<commits, branch, shallow, partial, proc>>
       ELSE Abandon(c, {})

\* fetch_leaves: what the server has of a batch of leaves arrives and is kept,
\* and the command fails if that is not all of the batch.
GetLeaves(c, batch) ==
  /\ proc[c].pc = "get"
  /\ WantSkeleton(c) = {}
  /\ batch # {} /\ batch \subseteq WantLeaves(c)
  /\ IF op_get_pack(batch) = batch
     THEN /\ store' = [store EXCEPT ![c] = @ \cup batch]
          /\ UNCHANGED <<commits, branch, shallow, partial, proc>>
     ELSE Abandon(c, op_get_pack(batch))

Fetched(c) ==
  /\ proc[c].pc = "get"
  /\ WantSkeleton(c) = {} /\ WantLeaves(c) = {}
  /\ Goto(c, "record")
  /\ UNCHANGED <<commits, repos>>

\* fetch is done; pull moves the branch to the tip, wherever it was; clone
\* writes the branch.
Record(c) ==
  /\ proc[c].pc = "record"
  /\ branch' = IF proc[c].mode = "fetch" THEN branch
               ELSE [branch EXCEPT ![c] = proc[c].tip]
  /\ IF proc[c].mode \in {"shallow", "partial"} THEN Goto(c, "mark") ELSE Exit(c)
  /\ UNCHANGED <<commits, store, shallow, partial>>

\* Mutant: the boundary recorded is the parent that was not fetched.
MarkParent(c) ==
  /\ proc[c].pc = "mark"
  /\ IF proc[c].mode = "partial"
     THEN /\ partial' = [partial EXCEPT ![c] = TRUE]
          /\ UNCHANGED shallow
     ELSE /\ shallow' = [shallow EXCEPT ![c] = {commits[Min(Visited(c))].parent} \ {0}]
          /\ UNCHANGED partial
  /\ Exit(c)
  /\ UNCHANGED <<commits, store, branch>>

\* clone_depth writes the boundary, clone_partial the promisor.
Mark(c) ==
  /\ proc[c].pc = "mark"
  /\ IF proc[c].mode = "partial"
     THEN /\ partial' = [partial EXCEPT ![c] = TRUE]
          /\ UNCHANGED shallow
     ELSE /\ shallow' = [shallow EXCEPT ![c] =
               LET last == Min(Visited(c)) IN
                 IF commits[last].parent = 0 THEN {} ELSE {last}]
          /\ UNCHANGED partial
  /\ Exit(c)
  /\ UNCHANGED <<commits, store, branch>>

\* checkout in a partial clone: backfill gets the leaves of one manifest.
Backfill(c, n) ==
  /\ proc[c].pc = "idle"
  /\ partial[c]
  /\ n \in History(c)[branch[c]]
  /\ TreeOf(n) \in store[c]
  /\ LeafOf(n) \notin store[c] /\ op_get_pack({LeafOf(n)}) # {}
  /\ store' = [store EXCEPT ![c] = @ \cup {LeafOf(n)}]
  /\ UNCHANGED <<commits, branch, shallow, partial, proc>>

Kill(c) ==
  /\ proc[c].pc \notin {"none", "idle"}
  /\ Abandon(c, {})

-----------------------------------------------------------------------------
Next ==
  \/ \E r \in Repos : Gc(r)
  \/ \E c \in Clients :
       \/ InitRepo(c) \/ \E l \in Leaves : MakeCommit(c, l)
       \/ PushStart(c) \/ \E batch \in SUBSET proc[c].todo : PutObjects(c, batch)
       \/ SetRef(c)
       \/ \E mode \in Modes \cup {"fetch", "pull"} : FetchStart(c, mode)
       \/ GetSkeleton(c) \/ \E batch \in SUBSET {Leaf(l) : l \in Leaves} : GetLeaves(c, batch)
       \/ Fetched(c) \/ Record(c) \/ Mark(c)
       \/ \E n \in 1 .. Len(commits) : Backfill(c, n)
       \/ Kill(c)

Spec == Init /\ [][Next]_vars

-----------------------------------------------------------------------------
(* Properties.                                                             *)

\* Parents come before their children.
RemoteTypeOK ==
  /\ commits \in Seq([parent : 0 .. MaxCommits, leaf : Leaves]) /\ Len(commits) <= MaxCommits
  /\ \A n \in DOMAIN commits : commits[n].parent < n
  /\ store \in [Repos -> SUBSET Objects]
  /\ branch \in [Repos -> 0 .. Len(commits)]
  /\ shallow \in [Repos -> SUBSET DOMAIN commits]
  /\ partial \in [Repos -> BOOLEAN]
  /\ proc \in [Clients -> Commands(Len(commits))]

\* Repository r has all of the history of commit n, down to its boundary;
\* the leaves too, unless they are promised.
Complete(r, n, promised) ==
  \A m \in History(r)[n] :
    /\ {Commit(m), TreeOf(m)} \subseteq store[r]
    /\ LeafOf(m) \in store[r] \/ promised

\* What the server publishes can be cloned, and verify_remote finds it so: its
\* branch never names a history that is not all there, though op_set_ref looks
\* for one object only, pushes overlap, overwrite each other and die, and the
\* list of missing objects was made before the other pushes arrived.
ServerComplete == VerifyRemote = {}

\* The branch of a client can be checked out at any of its commits (in a
\* partial clone, after a backfill).
BranchComplete ==
  \A c \in Clients : proc[c].pc # "mark" => Complete(c, branch[c], partial[c])

\* A fetch that says it is done has got everything, also where an earlier
\* fetch was killed half-way and left commits without their manifests, leaves
\* or parents behind.
FetchComplete ==
  \A c \in Clients : proc[c].pc = "record" /\ proc[c].mode \in {"full", "fetch", "pull"}
    => Complete(c, proc[c].tip, FALSE)

=============================================================================
