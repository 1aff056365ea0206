------------------------------ MODULE MCBucket ------------------------------
(***************************************************************************)
(* Bucket.tla for TLC: two clients whose histories share a root commit and *)
(* then diverge, with a bound on the commands each client runs.            *)
(***************************************************************************)
EXTENDS Bucket

CONSTANTS MaxCommands     \* bound on the commands of one client

VARIABLE ran              \* the commands each client has started

MCStart(c) ==
  /\ ran[c] < MaxCommands
  /\ Start(c)
  /\ ran' = [ran EXCEPT ![c] = @ + 1]

MCInit ==
  /\ Init
  /\ \A c \in Clients : has[c] \in {{}, Reach["x"], Reach["y"]}
  /\ ran = [c \in Clients |-> 0]

MCNext ==
  \E c \in Clients :
    \/ MCStart(c)
    \/ Step(c) /\ UNCHANGED ran
    \/ Fail(c) /\ UNCHANGED ran

MCSpec == MCInit /\ [][MCNext]_<<vars, ran>>

MCFairSpec ==
  MCSpec /\ \A c \in Clients : WF_<<vars, ran>>(Step(c) /\ UNCHANGED ran)

\* Root commit r with leaf a; x and y are two commits on it with a new leaf.
MCObjects == {"r", "x", "y"}
MCTips    == {"r", "x", "y"}
MCReach   == [t \in MCTips |-> IF t = "r" THEN {"r"} ELSE {"r", t}]

=============================================================================
