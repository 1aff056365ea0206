------------------------------- MODULE Bucket -------------------------------
(***************************************************************************)
(* The serverless remote (crates/repo/src/bucket.rs, driven by push and    *)
(* fetch of remote.rs): a repository kept in a dumb object-storage bucket. *)
(* There is no server, so clients that push and fetch at the same time     *)
(* meet only in the bucket's blobs.  Every bucket request is one step, and *)
(* any request may fail, which ends the command there.                     *)
(*                                                                         *)
(* Data.  A commit is an object; Reach[c] is everything transfer.rs        *)
(* reachable() lists for it: the commit, its manifest, their leaves, and   *)
(* the same for its ancestors.  A pack is named by the hash of its body,   *)
(* so a pack is the set of objects in it.  The manifest is the set of      *)
(* packs it lists (append_to_manifest never lists one twice).              *)
(***************************************************************************)
EXTENDS Integers, FiniteSets

CONSTANTS
  Clients,
  Objects,
  Tips,         \* the objects that are commits
  Reach,        \* the objects reachable from each commit
  Branches,
  MaxTries,     \* rounds of the append_to_manifest loop: 20 in the code
  None

ASSUME TipsAssumption  == Tips \subseteq Objects
ASSUME ReachAssumption ==
  /\ Reach \in [Tips -> SUBSET Objects]
  /\ \A c \in Tips : c \in Reach[c]
  /\ \A c \in Tips : \A d \in Reach[c] \cap Tips : Reach[d] \subseteq Reach[c]
ASSUME TriesAssumption == MaxTries \in Nat
ASSUME BucketNoneAssumption ==
  /\ None \notin Tips \cup Branches \cup Nat
  /\ None \notin [tip : Tips, etag : Nat]

Packs == SUBSET Objects

\* Where a client is in its command.
PushPCs  == {"missing", "send", "append", "cas", "ref", "head", "puthead"}
FetchPCs == {"index", "get"}
PCs      == {"idle"} \cup PushPCs \cup FetchPCs

VARIABLES
  packs,       \* packs/<id>: the pack blobs in the bucket
  manifest,    \* packs/manifest: the packs it lists
  mtag,        \* its ETag, None while the blob does not exist
  ref,         \* refs/heads/<b>: None, or [tip, etag]
  headBlob,    \* HEAD: None or a branch
  has,         \* the objects of each client's local repository
  pc,
  br,          \* the branch a client pushes or fetches
  tip,         \* the commit it pushes or fetches
  todo,        \* push: missing objects not sent yet
  pack,        \* push: the pack being sent
  seen,        \* push: the manifest as last read
  etag,        \* push: the ETag as last read (manifest or ref)
  tries,       \* push: rounds of the append loop so far
  index        \* fetch: the objects its index of the bucket lists

bucket == <<packs, manifest, mtag, ref, headBlob>>
client == <<br, tip, todo, pack, seen, etag, tries, index>>
vars   == <<bucket, has, pc, client>>

Indexed == UNION manifest

\* put_if_match: `expected` is the blob's ETag, None for "must not exist".
Matches(current, expected) == current = expected

\* Every write gives a blob a new ETag.
NextTag(t) == IF t = None THEN 1 ELSE t + 1

RefTag(b) == IF ref[b] = None THEN None ELSE ref[b].etag

Goto(c, l) == pc' = [pc EXCEPT ![c] = l]

\* The command goes on at l with its locals as they are.
Continues(c, l) == Goto(c, l) /\ UNCHANGED client

\* The command returns; its locals are gone.
Returns(c) ==
  /\ Goto(c, "idle")
  /\ br' = [br EXCEPT ![c] = None]
  /\ tip' = [tip EXCEPT ![c] = None]
  /\ todo' = [todo EXCEPT ![c] = {}]
  /\ pack' = [pack EXCEPT ![c] = {}]
  /\ seen' = [seen EXCEPT ![c] = {}]
  /\ etag' = [etag EXCEPT ![c] = None]
  /\ tries' = [tries EXCEPT ![c] = 0]
  /\ index' = [index EXCEPT ![c] = {}]

Init ==
  /\ packs = {} /\ manifest = {} /\ mtag = None
  /\ ref = [b \in Branches |-> None]
  /\ headBlob = None
  /\ has \in [Clients -> SUBSET Objects]
  /\ pc = [c \in Clients |-> "idle"]
  /\ br = [c \in Clients |-> None]
  /\ tip = [c \in Clients |-> None]
  /\ todo = [c \in Clients |-> {}]
  /\ pack = [c \in Clients |-> {}]
  /\ seen = [c \in Clients |-> {}]
  /\ etag = [c \in Clients |-> None]
  /\ tries = [c \in Clients |-> 0]
  /\ index = [c \in Clients |-> {}]

-----------------------------------------------------------------------------
(* push                                                                    *)

\* push: read the local branch, whose history is all in the local store.
Push(c, b, t) ==
  /\ pc[c] = "idle"
  /\ Reach[t] \subseteq has[c]
  /\ br' = [br EXCEPT ![c] = b]
  /\ tip' = [tip EXCEPT ![c] = t]
  /\ Goto(c, "missing")
  /\ UNCHANGED <<bucket, has, todo, pack, seen, etag, tries, index>>

\* missing: ensure_index reads the manifest and the packs it lists.
Missing(c) ==
  /\ pc[c] = "missing"
  /\ todo' = [todo EXCEPT ![c] = Reach[tip[c]] \ (UNION (manifest \cap packs))]
  /\ Goto(c, "send")
  /\ UNCHANGED <<bucket, has, br, tip, pack, seen, etag, tries, index>>

\* put_objects, its first request: upload one batch as a pack.
PutPack(c, batch) ==
  /\ pc[c] = "send"
  /\ batch # {} /\ batch \subseteq todo[c]
  /\ packs' = packs \cup {batch}
  /\ pack' = [pack EXCEPT ![c] = batch]
  /\ todo' = [todo EXCEPT ![c] = @ \ batch]
  /\ tries' = [tries EXCEPT ![c] = 0]
  /\ Goto(c, "append")
  /\ UNCHANGED <<manifest, mtag, ref, headBlob, has, br, tip, seen, etag, index>>

\* append_to_manifest: read the manifest; done if the pack is listed.
ReadManifest(c) ==
  /\ pc[c] = "append"
  /\ tries[c] < MaxTries
  /\ IF pack[c] \in manifest
     THEN /\ Goto(c, "send")
          /\ UNCHANGED <<seen, etag>>
     ELSE /\ Goto(c, "cas")
          /\ seen' = [seen EXCEPT ![c] = manifest]
          /\ etag' = [etag EXCEPT ![c] = mtag]
  /\ UNCHANGED <<bucket, has, br, tip, todo, pack, tries, index>>

\* Mutant: the manifest is written with an unconditional put.
CasManifestBlind(c) ==
  /\ pc[c] = "cas"
  /\ manifest' = seen[c] \cup {pack[c]}
  /\ mtag' = NextTag(mtag)
  /\ Continues(c, "send")
  /\ UNCHANGED <<packs, ref, headBlob, has>>

\* Mutant: a lost race is retried with the ETag already read.
CasManifestStale(c) ==
  /\ pc[c] = "cas"
  /\ Matches(mtag, etag[c])
  /\ manifest' = seen[c] \cup {pack[c]}
  /\ mtag' = NextTag(mtag)
  /\ Continues(c, "send")
  /\ UNCHANGED <<packs, ref, headBlob, has>>

\* append_to_manifest: write it back if nobody else has in between, else
\* another round.
CasManifest(c) ==
  /\ pc[c] = "cas"
  /\ IF Matches(mtag, etag[c])
     THEN /\ manifest' = seen[c] \cup {pack[c]}
          /\ mtag' = NextTag(mtag)
          /\ Goto(c, "send")
          /\ UNCHANGED tries
     ELSE /\ tries' = [tries EXCEPT ![c] = @ + 1]
          /\ Goto(c, "append")
          /\ UNCHANGED <<manifest, mtag>>
  /\ seen' = [seen EXCEPT ![c] = {}]
  /\ etag' = [etag EXCEPT ![c] = None]
  /\ UNCHANGED <<packs, ref, headBlob, has, br, tip, todo, pack, index>>

\* append_to_manifest: too contended, the push fails.
GiveUp(c) ==
  /\ pc[c] = "append"
  /\ tries[c] >= MaxTries
  /\ Returns(c)
  /\ UNCHANGED <<bucket, has>>

\* Mutant: the ref is read, and then written, while batches are still to be sent.
ReadRefEarly(c) ==
  /\ pc[c] = "send"
  /\ etag' = [etag EXCEPT ![c] = RefTag(br[c])]
  /\ Goto(c, "ref")
  /\ UNCHANGED <<bucket, has, br, tip, todo, pack, seen, tries, index>>

\* set_branch, when all batches are sent: read the ref's ETag.
ReadRef(c) ==
  /\ pc[c] = "send"
  /\ todo[c] = {}
  /\ etag' = [etag EXCEPT ![c] = RefTag(br[c])]
  /\ Goto(c, "ref")
  /\ UNCHANGED <<bucket, has, br, tip, todo, pack, seen, tries, index>>

\* set_branch: write the ref if it is still the one read, else fail.
CasRef(c) ==
  /\ pc[c] = "ref"
  /\ IF Matches(RefTag(br[c]), etag[c])
     THEN /\ ref' = [ref EXCEPT ![br[c]] =
                       [tip |-> tip[c], etag |-> NextTag(RefTag(br[c]))]]
          /\ Continues(c, "head")
     ELSE /\ UNCHANGED ref
          /\ Returns(c)
  /\ UNCHANGED <<packs, manifest, mtag, headBlob, has>>

\* Mutant: HEAD is written before the ref.
ReadHeadFirst(c) ==
  /\ pc[c] = "ref"
  /\ headBlob = None
  /\ Continues(c, "puthead")
  /\ UNCHANGED <<bucket, has>>

\* set_branch: done if there is a HEAD already.
ReadHead(c) ==
  /\ pc[c] = "head"
  /\ IF headBlob = None THEN Continues(c, "puthead") ELSE Returns(c)
  /\ UNCHANGED <<bucket, has>>

\* Mutant: HEAD gets the commit instead of the branch.
PutHeadTip(c) ==
  /\ pc[c] = "puthead"
  /\ headBlob' = tip[c]
  /\ Returns(c)
  /\ UNCHANGED <<packs, manifest, mtag, ref, has>>

PutHead(c) ==
  /\ pc[c] = "puthead"
  /\ headBlob' = br[c]
  /\ Returns(c)
  /\ UNCHANGED <<packs, manifest, mtag, ref, has>>

-----------------------------------------------------------------------------
(* fetch                                                                   *)

\* fetch: list_refs, and the tip of the branch wanted.
ListRefs(c, b) ==
  /\ pc[c] = "idle"
  /\ ref[b] # None
  /\ br' = [br EXCEPT ![c] = b]
  /\ tip' = [tip EXCEPT ![c] = ref[b].tip]
  /\ Goto(c, "index")
  /\ UNCHANGED <<bucket, has, todo, pack, seen, etag, tries, index>>

\* Mutant: the entries of each pack replace those of the pack before.
EnsureIndexLast(c) ==
  /\ pc[c] = "index"
  /\ \E k \in manifest \cap packs : index' = [index EXCEPT ![c] = k]
  /\ Goto(c, "get")
  /\ UNCHANGED <<bucket, has, br, tip, todo, pack, seen, etag, tries>>

\* The first get_object builds the index; it is kept for the whole command.
EnsureIndex(c) ==
  /\ pc[c] = "index"
  /\ index' = [index EXCEPT ![c] = UNION (manifest \cap packs)]
  /\ Goto(c, "get")
  /\ UNCHANGED <<bucket, has, br, tip, todo, pack, seen, etag, tries>>

\* fetch_reachable: one object of the walk that the local store lacks and the
\* index finds is copied; one that the index does not find fails the fetch.
GetObject(c, o) ==
  /\ pc[c] = "get"
  /\ o \in Reach[tip[c]] \ has[c]
  /\ IF o \in index[c]
     THEN has' = [has EXCEPT ![c] = @ \cup {o}] /\ UNCHANGED <<pc, client>>
     ELSE Returns(c) /\ UNCHANGED has
  /\ UNCHANGED bucket

FetchDone(c) ==
  /\ pc[c] = "get"
  /\ Reach[tip[c]] \subseteq has[c]
  /\ Returns(c)
  /\ UNCHANGED <<bucket, has>>

\* A request fails or the process is killed.
Fail(c) ==
  /\ pc[c] # "idle"
  /\ Returns(c)
  /\ UNCHANGED <<bucket, has>>

-----------------------------------------------------------------------------
\* The steps a running command takes by itself.
Step(c) ==
  \/ Missing(c)
  \/ \E batch \in SUBSET todo[c] : PutPack(c, batch)
  \/ ReadManifest(c) \/ CasManifest(c) \/ GiveUp(c)
  \/ ReadRef(c) \/ CasRef(c) \/ ReadHead(c) \/ PutHead(c)
  \/ EnsureIndex(c)
  \/ \E o \in Objects : GetObject(c, o)
  \/ FetchDone(c)

Start(c) ==
  \/ \E b \in Branches, t \in Tips : Push(c, b, t)
  \/ \E b \in Branches : ListRefs(c, b)

Next == \E c \in Clients : Start(c) \/ Step(c) \/ Fail(c)

Spec == Init /\ [][Next]_vars

\* A process that runs keeps running: it waits for nobody.
FairSpec == Spec /\ \A c \in Clients : WF_vars(Step(c))

-----------------------------------------------------------------------------
(* Properties.                                                             *)

BlobsOK ==
  /\ packs \subseteq Packs
  /\ manifest \subseteq Packs
  /\ mtag \in Nat \cup {None}
  /\ ref \in [Branches -> {None} \cup [tip : Tips, etag : Nat]]
  /\ headBlob \in Branches \cup {None}

ClientsOK ==
  /\ has \in [Clients -> SUBSET Objects]
  /\ pc \in [Clients -> PCs]
  /\ br \in [Clients -> Branches \cup {None}]
  /\ tip \in [Clients -> Tips \cup {None}]
  /\ todo \in [Clients -> SUBSET Objects]
  /\ pack \in [Clients -> Packs]
  /\ seen \in [Clients -> SUBSET Packs]
  /\ etag \in [Clients -> Nat \cup {None}]
  /\ tries \in [Clients -> 0 .. MaxTries]
  /\ index \in [Clients -> SUBSET Objects]

BucketTypeOK == BlobsOK /\ ClientsOK

\* A ref in the bucket never names a history that is not all there: every
\* object a clone of it needs is in a pack the manifest lists, however many
\* pushes race, lose the compare-and-swap, give up or die half-way.
PublishedComplete ==
  \A b \in Branches : ref[b] # None =>
    Reach[ref[b].tip] \subseteq UNION (manifest \cap packs)

\* A fetch that has listed the refs finds every object it will ask for in
\* the index it builds once and keeps, whatever is pushed meanwhile.
FetchFindsAll ==
  \A c \in Clients : pc[c] = "get" => Reach[tip[c]] \subseteq index[c]

\* The default branch the bucket records exists.
HeadNamesRef == headBlob # None => ref[headBlob] # None

\* To its readers the bucket is a store that only grows and branches that move,
\* in one step, to commits that are all there.
Readers == INSTANCE Published WITH
  stored <- UNION (manifest \cap packs),
  tips   <- [b \in Branches |-> IF ref[b] = None THEN None ELSE ref[b].tip]

ImplementsPublished == Readers!Spec

\* Every push and every fetch comes to an end, in success or in an error,
\* also when others keep winning the race for the manifest.
CommandsEnd == \A c \in Clients : pc[c] # "idle" ~> pc[c] = "idle"

=============================================================================
