---------------------------- MODULE BucketProofs ----------------------------
(***************************************************************************)
(* Proofs about Bucket.tla: whatever clients push, fetch, race and die, a  *)
(* ref in the bucket names a history that is all there.                    *)
(*                                                                         *)
(* The strengthening says what a push knows at each step (Sent): what it   *)
(* has yet to send, what is on its way, and that everything else of its    *)
(* history is listed; and what the ETag it read is worth (Fresh): as long  *)
(* as the manifest has that ETag, it has the content that was read.        *)
(***************************************************************************)
EXTENDS Bucket, TLAPS

\* Pack blobs are uploaded before the manifest lists them.
ListedStored == manifest \subseteq packs

\* What client c has sent and what it has yet to send.
Sent(c) ==
  /\ pc[c] \in PushPCs \cup FetchPCs => tip[c] \in Tips /\ br[c] \in Branches
  /\ pc[c] = "send" => Reach[tip[c]] \subseteq Indexed \cup todo[c]
  /\ pc[c] \in {"append", "cas"} =>
       pack[c] \in packs /\ Reach[tip[c]] \subseteq Indexed \cup todo[c] \cup pack[c]
  /\ pc[c] = "cas" => tries[c] < MaxTries
  /\ pc[c] \in {"ref", "index"} => Reach[tip[c]] \subseteq Indexed
  /\ pc[c] \in {"head", "puthead"} => ref[br[c]] # None
  /\ pc[c] = "get" => Reach[tip[c]] \subseteq index[c]

\* The manifest read under an ETag is the manifest while it has that ETag.
\* (No blob, no ETag; and ETags grow.)
TagBelow(s, t) == s = None \/ (s \in Nat /\ t \in Nat /\ s <= t)

Fresh(c) ==
  pc[c] = "cas" => TagBelow(etag[c], mtag) /\ (etag[c] = mtag => seen[c] = manifest)

BucketInv ==
  /\ BucketTypeOK
  /\ ListedStored
  /\ \A c \in Clients : Sent(c) /\ Fresh(c)
  /\ PublishedComplete
  /\ HeadNamesRef

-----------------------------------------------------------------------------
(* Lemmas.                                                                 *)

\* NextTag gives an ETag above the old one.
LEMMA NextTagLemma ==
  ASSUME NEW t \in Nat \cup {None}
  PROVE  NextTag(t) \in Nat /\ NextTag(t) # None /\ NextTag(t) # t
         /\ (\A s : TagBelow(s, t) => TagBelow(s, NextTag(t)) /\ s # NextTag(t))
BY BucketNoneAssumption DEF NextTag, TagBelow

\* A step of client c leaves the other clients' locals alone.
OthersSame(c) ==
  \A d \in Clients \ {c} :
    /\ pc'[d] = pc[d] /\ br'[d] = br[d] /\ tip'[d] = tip[d]
    /\ todo'[d] = todo[d] /\ pack'[d] = pack[d] /\ seen'[d] = seen[d]
    /\ etag'[d] = etag[d] /\ tries'[d] = tries[d] /\ index'[d] = index[d]

\* A command that returns leaves its client typed, and with nothing to prove.
LEMMA ReturnsLemma ==
  ASSUME ClientsOK, NEW c \in Clients, Returns(c), has' \in [Clients -> SUBSET Objects]
  PROVE  ClientsOK' /\ Sent(c)' /\ Fresh(c)' /\ OthersSame(c)
<1>1. /\ pc' \in [Clients -> PCs]
      /\ br' \in [Clients -> Branches \cup {None}]
      /\ tip' \in [Clients -> Tips \cup {None}]
  BY DEF ClientsOK, Returns, Goto, PCs
<1>2. /\ todo' \in [Clients -> SUBSET Objects]
      /\ pack' \in [Clients -> Packs]
      /\ seen' \in [Clients -> SUBSET Packs]
  BY DEF ClientsOK, Returns, Packs
<1>3. /\ etag' \in [Clients -> Nat \cup {None}]
      /\ tries' \in [Clients -> 0 .. MaxTries]
      /\ index' \in [Clients -> SUBSET Objects]
  BY TriesAssumption DEF ClientsOK, Returns
<1>4. pc'[c] = "idle"
  BY DEF ClientsOK, Returns, Goto
<1>5. Sent(c)' /\ Fresh(c)'
  BY <1>4 DEF Sent, Fresh, PushPCs, FetchPCs
<1>6. OthersSame(c)
  BY DEF ClientsOK, Returns, Goto, OthersSame
<1> QED
  BY <1>1, <1>2, <1>3, <1>5, <1>6 DEF ClientsOK

\* Other clients keep what they know when the bucket only grows: packs and
\* manifest lose nothing, refs are not removed, and a manifest that changes
\* changes its ETag.
LEMMA OthersKeep ==
  ASSUME BucketInv, NEW d \in Clients,
         pc'[d] = pc[d], br'[d] = br[d], tip'[d] = tip[d],
         todo'[d] = todo[d], pack'[d] = pack[d], seen'[d] = seen[d],
         etag'[d] = etag[d], tries'[d] = tries[d], index'[d] = index[d],
         packs \subseteq packs', manifest \subseteq manifest',
         \A b \in Branches : ref[b] # None => ref'[b] # None,
         (manifest' = manifest /\ mtag' = mtag) \/ mtag' = NextTag(mtag)
  PROVE  Sent(d)' /\ Fresh(d)'
<1>1. Sent(d) /\ Fresh(d) /\ mtag \in Nat \cup {None}
  BY DEF BucketInv, BucketTypeOK, BlobsOK
<1>2. Indexed \subseteq Indexed'
  BY DEF Indexed
<1>3. Sent(d)'
  BY <1>1, <1>2 DEF Sent, PushPCs
<1>4. Fresh(d)'
  <2>1. CASE manifest' = manifest /\ mtag' = mtag
    BY <1>1, <2>1 DEF Fresh, TagBelow
  <2>2. CASE mtag' = NextTag(mtag)
    BY <1>1, <2>2, NextTagLemma DEF Fresh
  <2> QED
    BY <2>1, <2>2
<1> QED
  BY <1>3, <1>4

\* Published histories stay complete when the manifest and the packs grow.
LEMMA PublishedKeeps ==
  ASSUME BucketInv, packs \subseteq packs', manifest \subseteq manifest', ref' = ref
  PROVE  PublishedComplete'
BY DEF BucketInv, PublishedComplete

\* The manifest lists only stored packs, so Indexed is what a reader finds.
LEMMA IndexedLemma == ListedStored => UNION (manifest \cap packs) = Indexed
BY DEF ListedStored, Indexed

\* A step of client c preserves BucketInv if it grows the bucket and c knows
\* what it must know afterwards.
LEMMA StepLemma ==
  ASSUME BucketInv, NEW c \in Clients, BucketTypeOK', ListedStored',
         Sent(c)', Fresh(c)', OthersSame(c),
         packs \subseteq packs', manifest \subseteq manifest',
         \A b \in Branches : ref[b] # None => ref'[b] # None,
         (manifest' = manifest /\ mtag' = mtag) \/ mtag' = NextTag(mtag),
         PublishedComplete', HeadNamesRef'
  PROVE  BucketInv'
<1>1. ASSUME NEW d \in Clients PROVE Sent(d)' /\ Fresh(d)'
  <2>1. CASE d = c
    BY <2>1
  <2>2. CASE d # c
    BY <2>2, OthersKeep DEF OthersSame
  <2> QED
    BY <2>1, <2>2
<1> QED
  BY <1>1 DEF BucketInv

\* A step that leaves the bucket alone.
LEMMA LocalLemma ==
  ASSUME BucketInv, NEW c \in Clients, ClientsOK', UNCHANGED bucket,
         Sent(c)', Fresh(c)', OthersSame(c)
  PROVE  BucketInv'
<1>1. BucketTypeOK' /\ ListedStored' /\ PublishedComplete' /\ HeadNamesRef'
  BY DEF BucketInv, BucketTypeOK, BlobsOK, bucket, ListedStored, PublishedComplete,
         HeadNamesRef
<1> QED
  BY <1>1, StepLemma DEF bucket

-----------------------------------------------------------------------------
(* One lemma per request.                                                  *)

\* Every command that returns without touching the bucket.
LEMMA ReturnInv ==
  ASSUME BucketInv, NEW c \in Clients, GiveUp(c) \/ FetchDone(c) \/ Fail(c)
  PROVE  BucketInv'
<1>1. ClientsOK
  BY DEF BucketInv, BucketTypeOK
<1>2. Returns(c) /\ UNCHANGED <<bucket, has>>
  BY DEF GiveUp, FetchDone, Fail
<1>3. ClientsOK' /\ Sent(c)' /\ Fresh(c)' /\ OthersSame(c)
  BY <1>1, <1>2, ReturnsLemma DEF ClientsOK
<1> QED
  BY <1>2, <1>3, LocalLemma

\* Starting a push changes nothing the other clients or the bucket can see.
LEMMA PushInv ==
  ASSUME BucketInv, NEW c \in Clients, NEW b \in Branches, NEW t \in Tips, Push(c, b, t)
  PROVE  BucketInv'
<1>1. ClientsOK
  BY DEF BucketInv, BucketTypeOK
<1>2. ClientsOK'
  BY <1>1 DEF Push, Goto, ClientsOK, PCs, PushPCs
<1>3. pc'[c] = "missing" /\ br'[c] = b /\ tip'[c] = t
  BY <1>1 DEF Push, Goto, ClientsOK
<1>4. Sent(c)' /\ Fresh(c)'
  BY <1>3 DEF Sent, Fresh
<1>5. OthersSame(c) /\ UNCHANGED bucket
  BY <1>1 DEF Push, Goto, ClientsOK, OthersSame
<1> QED
  BY <1>2, <1>4, <1>5, LocalLemma

\* What missing() leaves out is in the bucket.
LEMMA MissingInv ==
  ASSUME BucketInv, NEW c \in Clients, Missing(c)
  PROVE  BucketInv'
<1>1. ClientsOK /\ ListedStored /\ Sent(c)
  BY DEF BucketInv, BucketTypeOK
<1>2. tip[c] \in Tips /\ br[c] \in Branches
  BY <1>1 DEF Missing, Sent, PushPCs
<1>3. ClientsOK'
  BY <1>1, <1>2, ReachAssumption DEF Missing, Goto, ClientsOK, PCs, PushPCs
<1>4. /\ pc'[c] = "send" /\ tip'[c] = tip[c] /\ br'[c] = br[c]
      /\ todo'[c] = Reach[tip[c]] \ Indexed /\ UNCHANGED bucket
  BY <1>1, IndexedLemma DEF Missing, Goto, ClientsOK
<1>5. Sent(c)' /\ Fresh(c)'
  BY <1>2, <1>4 DEF Sent, Fresh, Indexed, bucket
<1>6. OthersSame(c)
  BY <1>1 DEF Missing, Goto, ClientsOK, OthersSame
<1> QED
  BY <1>3, <1>4, <1>5, <1>6, LocalLemma

\* The pack is in the bucket before the manifest can list it.
LEMMA PutPackInv ==
  ASSUME BucketInv, NEW c \in Clients, NEW batch \in SUBSET todo[c], PutPack(c, batch)
  PROVE  BucketInv'
<1>1. ClientsOK /\ BlobsOK /\ ListedStored /\ Sent(c) /\ PublishedComplete /\ HeadNamesRef
  BY DEF BucketInv, BucketTypeOK
<1>2. batch \in Packs
  BY <1>1 DEF ClientsOK, Packs
<1>3. ClientsOK'
  BY <1>1, <1>2, TriesAssumption DEF PutPack, Goto, ClientsOK, PCs, PushPCs
<1>4. /\ packs' = packs \cup {batch} /\ UNCHANGED <<manifest, mtag, ref, headBlob>>
      /\ pc[c] = "send" /\ pc'[c] = "append" /\ tip'[c] = tip[c] /\ br'[c] = br[c]
      /\ todo'[c] = todo[c] \ batch /\ pack'[c] = batch
  BY <1>1 DEF PutPack, Goto, ClientsOK
<1>5. BlobsOK' /\ ListedStored' /\ HeadNamesRef'
  BY <1>1, <1>2, <1>4 DEF BlobsOK, ListedStored, HeadNamesRef
<1>6. Sent(c)' /\ Fresh(c)'
  BY <1>1, <1>4 DEF Sent, Fresh, Indexed, PushPCs
<1>7. OthersSame(c)
  BY <1>1 DEF PutPack, Goto, ClientsOK, OthersSame
<1>8. PublishedComplete'
  BY <1>4, PublishedKeeps
<1> QED
  BY <1>3, <1>4, <1>5, <1>6, <1>7, <1>8, StepLemma DEF BucketTypeOK

\* Reading the manifest: seen is its content under the ETag read.
LEMMA ReadManifestInv ==
  ASSUME BucketInv, NEW c \in Clients, ReadManifest(c)
  PROVE  BucketInv'
<1>1. ClientsOK /\ BlobsOK /\ Sent(c)
  BY DEF BucketInv, BucketTypeOK
<1>2. ClientsOK'
  BY <1>1 DEF ReadManifest, Goto, ClientsOK, BlobsOK, PCs, PushPCs
<1>3. OthersSame(c) /\ UNCHANGED bucket
  BY <1>1 DEF ReadManifest, Goto, ClientsOK, OthersSame
<1>4. /\ pc[c] = "append" /\ tip'[c] = tip[c] /\ br'[c] = br[c]
      /\ todo'[c] = todo[c] /\ pack'[c] = pack[c]
      /\ tries'[c] = tries[c] /\ tries[c] < MaxTries
  BY <1>1 DEF ReadManifest, ClientsOK
<1>5. CASE pack[c] \in manifest
  <2>1. pc'[c] = "send" /\ pack[c] \subseteq Indexed
    BY <1>1, <1>5 DEF ReadManifest, Goto, ClientsOK, Indexed
  <2>2. Sent(c)' /\ Fresh(c)'
    BY <1>1, <1>3, <1>4, <2>1 DEF Sent, Fresh, Indexed, bucket, PushPCs
  <2> QED
    BY <1>2, <1>3, <2>2, LocalLemma
<1>6. CASE pack[c] \notin manifest
  <2>1. pc'[c] = "cas" /\ seen'[c] = manifest /\ etag'[c] = mtag
    BY <1>1, <1>6 DEF ReadManifest, Goto, ClientsOK
  <2>2. Sent(c)'
    BY <1>1, <1>3, <1>4, <2>1 DEF Sent, Indexed, bucket, PushPCs
  <2>3. Fresh(c)'
    BY <1>1, <1>3, <2>1 DEF Fresh, TagBelow, bucket, BlobsOK
  <2> QED
    BY <1>2, <1>3, <2>2, <2>3, LocalLemma
<1> QED
  BY <1>5, <1>6

\* The compare-and-swap: with the ETag unchanged the write only adds a line.
LEMMA CasManifestInv ==
  ASSUME BucketInv, NEW c \in Clients, CasManifest(c)
  PROVE  BucketInv'
<1>1. /\ ClientsOK /\ BlobsOK /\ ListedStored /\ Sent(c) /\ Fresh(c)
      /\ PublishedComplete /\ HeadNamesRef
  BY DEF BucketInv, BucketTypeOK
<1>2. /\ pc[c] = "cas" /\ tip'[c] = tip[c] /\ br'[c] = br[c]
      /\ todo'[c] = todo[c] /\ pack'[c] = pack[c]
      /\ UNCHANGED <<packs, ref, headBlob>>
  BY <1>1 DEF CasManifest, ClientsOK
<1>3. OthersSame(c)
  BY <1>1 DEF CasManifest, Goto, ClientsOK, OthersSame
<1>4. HeadNamesRef'
  BY <1>1, <1>2 DEF HeadNamesRef
<1>5. CASE mtag = etag[c]
  <2>1. /\ manifest' = manifest \cup {pack[c]} /\ mtag' = NextTag(mtag)
        /\ pc'[c] = "send" /\ tries' = tries
    BY <1>1, <1>2, <1>5 DEF CasManifest, Matches, Goto, ClientsOK, Fresh
  <2>2. ClientsOK'
    BY <1>1, <1>5 DEF CasManifest, Matches, Goto, ClientsOK, PCs, PushPCs
  <2>3. BlobsOK' /\ ListedStored'
    BY <1>1, <1>2, <2>1, NextTagLemma DEF BlobsOK, ListedStored, ClientsOK, Sent
  <2>4. Indexed' = Indexed \cup pack[c]
    BY <2>1 DEF Indexed
  <2>5. Sent(c)' /\ Fresh(c)'
    BY <1>1, <1>2, <2>1, <2>4 DEF Sent, Fresh, PushPCs
  <2>6. PublishedComplete'
    BY <1>2, <2>1, PublishedKeeps
  <2> QED
    BY <1>2, <1>3, <1>4, <2>1, <2>2, <2>3, <2>5, <2>6, StepLemma DEF BucketTypeOK
<1>6. CASE mtag # etag[c]
  <2>1. /\ UNCHANGED bucket /\ pc'[c] = "append"
        /\ tries' = [tries EXCEPT ![c] = tries[c] + 1]
    BY <1>1, <1>2, <1>6 DEF CasManifest, Matches, Goto, ClientsOK, bucket
  <2>2. tries[c] + 1 \in 0 .. MaxTries
    BY <1>1, <1>2, TriesAssumption DEF Sent, ClientsOK
  <2>3. ClientsOK'
    BY <1>1, <1>6, <2>1, <2>2 DEF CasManifest, Matches, Goto, ClientsOK, PCs, PushPCs
  <2>4. Sent(c)' /\ Fresh(c)'
    BY <1>1, <1>2, <2>1 DEF Sent, Fresh, PushPCs, Indexed, bucket
  <2> QED
    BY <1>3, <2>1, <2>3, <2>4, LocalLemma
<1> QED
  BY <1>5, <1>6

\* Nothing left to send: the whole history is listed.
LEMMA ReadRefInv ==
  ASSUME BucketInv, NEW c \in Clients, ReadRef(c)
  PROVE  BucketInv'
<1>1. ClientsOK /\ BlobsOK /\ Sent(c)
  BY DEF BucketInv, BucketTypeOK
<1>2. /\ pc[c] = "send" /\ todo[c] = {} /\ pc'[c] = "ref"
      /\ tip'[c] = tip[c] /\ br'[c] = br[c] /\ UNCHANGED bucket
  BY <1>1 DEF ReadRef, Goto, ClientsOK
<1>3. RefTag(br[c]) \in Nat \cup {None}
  BY <1>1, <1>2 DEF RefTag, BlobsOK, Sent, PushPCs
<1>4. ClientsOK'
  BY <1>1, <1>3 DEF ReadRef, Goto, ClientsOK, PCs, PushPCs
<1>5. Sent(c)' /\ Fresh(c)'
  BY <1>1, <1>2 DEF Sent, Fresh, PushPCs, Indexed, bucket
<1>6. OthersSame(c)
  BY <1>1 DEF ReadRef, Goto, ClientsOK, OthersSame
<1> QED
  BY <1>2, <1>4, <1>5, <1>6, LocalLemma

\* Publishing: the ref is written only when the history is listed.
LEMMA CasRefInv ==
  ASSUME BucketInv, NEW c \in Clients, CasRef(c)
  PROVE  BucketInv'
<1>1. /\ ClientsOK /\ BlobsOK /\ ListedStored /\ Sent(c)
      /\ PublishedComplete /\ HeadNamesRef
  BY DEF BucketInv, BucketTypeOK
<1>2. /\ pc[c] = "ref" /\ tip[c] \in Tips /\ br[c] \in Branches
      /\ Reach[tip[c]] \subseteq Indexed
      /\ UNCHANGED <<packs, manifest, mtag, headBlob, has>>
  BY <1>1 DEF CasRef, Sent, PushPCs
<1>3. CASE RefTag(br[c]) = etag[c]
  <2>1. /\ ref' = [ref EXCEPT ![br[c]] = [tip |-> tip[c], etag |-> NextTag(RefTag(br[c]))]]
        /\ Goto(c, "head") /\ UNCHANGED client
    BY <1>3 DEF CasRef, Matches, Continues
  <2>2. NextTag(RefTag(br[c])) \in Nat
    <3>1. RefTag(br[c]) \in Nat \cup {None}
      BY <1>1, <1>2 DEF RefTag, BlobsOK
    <3> QED
      BY <3>1, NextTagLemma
  <2>3. PICK new \in [tip : Tips, etag : Nat] :
          new.tip = tip[c] /\ ref' = [ref EXCEPT ![br[c]] = new]
    BY <1>2, <2>1, <2>2
  <2>4. ref' \in [Branches -> {None} \cup [tip : Tips, etag : Nat]]
    BY <1>1, <2>3 DEF BlobsOK
  <2>5. BlobsOK' /\ ListedStored'
    BY <1>1, <1>2, <2>4 DEF BlobsOK, ListedStored
  <2>6. ClientsOK' /\ OthersSame(c) /\ pc'[c] = "head"
    BY <1>1, <1>2, <2>1 DEF Goto, client, ClientsOK, OthersSame, PCs, PushPCs
  <2>7. ref'[br[c]] # None
    BY <1>1, <1>2, <2>3, BucketNoneAssumption DEF BlobsOK
  <2>8. \A b \in Branches : ref[b] # None => ref'[b] # None
    BY <1>1, <1>2, <2>1, <2>7 DEF BlobsOK
  <2>9. Sent(c)' /\ Fresh(c)'
    BY <1>2, <2>1, <2>6, <2>7 DEF Sent, Fresh, client
  <2>10. PublishedComplete'
    <3>1. Indexed = UNION (manifest \cap packs)
      BY <1>1, IndexedLemma
    <3>2. ASSUME NEW b \in Branches, ref'[b] # None
          PROVE  Reach[ref'[b].tip] \subseteq UNION (manifest' \cap packs')
      <4>1. CASE b = br[c]
        BY <1>1, <1>2, <2>3, <3>1, <4>1 DEF BlobsOK
      <4>2. CASE b # br[c]
        BY <1>1, <1>2, <2>3, <3>2, <4>2 DEF BlobsOK, PublishedComplete
      <4> QED
        BY <4>1, <4>2
    <3> QED
      BY <3>2 DEF PublishedComplete
  <2>11. HeadNamesRef'
    BY <1>1, <1>2, <2>8 DEF HeadNamesRef, BlobsOK
  <2> QED
    BY <1>2, <2>5, <2>6, <2>8, <2>9, <2>10, <2>11, StepLemma DEF BucketTypeOK
<1>4. CASE RefTag(br[c]) # etag[c]
  <2>1. Returns(c) /\ UNCHANGED <<bucket, has>>
    BY <1>2, <1>4 DEF CasRef, Matches, bucket
  <2>2. ClientsOK' /\ Sent(c)' /\ Fresh(c)' /\ OthersSame(c)
    BY <1>1, <2>1, ReturnsLemma DEF ClientsOK
  <2> QED
    BY <2>1, <2>2, LocalLemma
<1> QED
  BY <1>3, <1>4

\* HEAD is written only after the ref it names.
LEMMA HeadInv ==
  ASSUME BucketInv, NEW c \in Clients, ReadHead(c) \/ PutHead(c)
  PROVE  BucketInv'
<1>1. /\ ClientsOK /\ BlobsOK /\ ListedStored /\ Sent(c)
      /\ PublishedComplete /\ HeadNamesRef
  BY DEF BucketInv, BucketTypeOK
<1>2. ASSUME ReadHead(c), headBlob = None PROVE BucketInv'
  <2>1. /\ UNCHANGED bucket /\ UNCHANGED has /\ UNCHANGED client
        /\ pc[c] = "head" /\ Goto(c, "puthead")
    BY <1>2 DEF ReadHead, Continues
  <2>2. ClientsOK' /\ OthersSame(c) /\ pc'[c] = "puthead"
    BY <1>1, <2>1 DEF Goto, client, ClientsOK, OthersSame, PCs, PushPCs
  <2>3. Sent(c)' /\ Fresh(c)'
    BY <1>1, <2>1, <2>2 DEF Sent, Fresh, client, bucket, PushPCs
  <2> QED
    BY <2>1, <2>2, <2>3, LocalLemma
<1>3. ASSUME ReadHead(c), headBlob # None PROVE BucketInv'
  <2>1. Returns(c) /\ UNCHANGED <<bucket, has>>
    BY <1>3 DEF ReadHead
  <2>2. ClientsOK' /\ Sent(c)' /\ Fresh(c)' /\ OthersSame(c)
    BY <1>1, <2>1, ReturnsLemma DEF ClientsOK
  <2> QED
    BY <2>1, <2>2, LocalLemma
<1>4. ASSUME PutHead(c) PROVE BucketInv'
  <2>1. /\ Returns(c) /\ headBlob' = br[c] /\ pc[c] = "puthead"
        /\ UNCHANGED <<packs, manifest, mtag, ref, has>>
    BY <1>4 DEF PutHead
  <2>2. br[c] \in Branches /\ ref[br[c]] # None
    BY <1>1, <2>1 DEF Sent, PushPCs
  <2>3. ClientsOK' /\ Sent(c)' /\ Fresh(c)' /\ OthersSame(c)
    BY <1>1, <2>1, ReturnsLemma DEF ClientsOK
  <2>4. BlobsOK' /\ ListedStored' /\ HeadNamesRef' /\ PublishedComplete'
    BY <1>1, <2>1, <2>2 DEF BlobsOK, ListedStored, HeadNamesRef, PublishedComplete
  <2> QED
    BY <2>1, <2>3, <2>4, StepLemma DEF BucketTypeOK
<1> QED
  BY <1>2, <1>3, <1>4

\* fetch: the tip listed is complete, and stays so until the index is read.
LEMMA FetchInv ==
  ASSUME BucketInv, NEW c \in Clients,
         \/ \E b \in Branches : ListRefs(c, b)
         \/ EnsureIndex(c)
         \/ \E o \in Objects : GetObject(c, o)
  PROVE  BucketInv'
<1>1. /\ ClientsOK /\ BlobsOK /\ ListedStored /\ Sent(c)
      /\ PublishedComplete /\ HeadNamesRef
  BY DEF BucketInv, BucketTypeOK
<1>2. Indexed = UNION (manifest \cap packs)
  BY <1>1, IndexedLemma
<1>3. ASSUME NEW b \in Branches, ListRefs(c, b) PROVE BucketInv'
  <2>1. ref[b] # None /\ ref[b].tip \in Tips /\ Reach[ref[b].tip] \subseteq Indexed
    BY <1>1, <1>2, <1>3 DEF ListRefs, BlobsOK, PublishedComplete
  <2>2. /\ ClientsOK' /\ OthersSame(c) /\ UNCHANGED bucket
        /\ pc'[c] = "index" /\ tip'[c] = ref[b].tip /\ br'[c] = b
    BY <1>1, <1>3, <2>1 DEF ListRefs, Goto, ClientsOK, OthersSame, PCs, FetchPCs
  <2>3. Sent(c)' /\ Fresh(c)'
    BY <2>1, <2>2 DEF Sent, Fresh, Indexed, bucket
  <2> QED
    BY <2>2, <2>3, LocalLemma
<1>4. ASSUME EnsureIndex(c) PROVE BucketInv'
  <2>1. Indexed \subseteq Objects
    BY <1>1 DEF Indexed, BlobsOK, Packs
  <2>2. /\ ClientsOK' /\ OthersSame(c) /\ UNCHANGED bucket
        /\ pc[c] = "index" /\ pc'[c] = "get" /\ tip'[c] = tip[c] /\ br'[c] = br[c]
        /\ index'[c] = Indexed
    BY <1>1, <1>2, <1>4, <2>1 DEF EnsureIndex, Goto, ClientsOK, OthersSame, PCs, FetchPCs
  <2>3. Sent(c)' /\ Fresh(c)'
    BY <1>1, <2>2 DEF Sent, Fresh, FetchPCs
  <2> QED
    BY <2>2, <2>3, LocalLemma
<1>5. ASSUME NEW o \in Objects, GetObject(c, o) PROVE BucketInv'
  <2>1. UNCHANGED bucket /\ pc[c] = "get"
    BY <1>5 DEF GetObject
  <2>2. CASE o \in index[c]
    <3>1. UNCHANGED <<pc, client>> /\ has' = [has EXCEPT ![c] = @ \cup {o}]
      BY <1>5, <2>2 DEF GetObject
    <3>2. ClientsOK' /\ OthersSame(c)
      BY <1>1, <3>1 DEF ClientsOK, client, OthersSame
    <3>3. Sent(c)' /\ Fresh(c)'
      BY <1>1, <2>1, <3>1 DEF Sent, Fresh, client, FetchPCs
    <3> QED
      BY <2>1, <3>2, <3>3, LocalLemma
  <2>3. CASE o \notin index[c]
    <3>1. Returns(c) /\ UNCHANGED has
      BY <1>5, <2>3 DEF GetObject
    <3>2. ClientsOK' /\ Sent(c)' /\ Fresh(c)' /\ OthersSame(c)
      BY <1>1, <3>1, ReturnsLemma DEF ClientsOK
    <3> QED
      BY <2>1, <3>2, LocalLemma
  <2> QED
    BY <2>2, <2>3
<1> QED
  BY <1>3, <1>4, <1>5

-----------------------------------------------------------------------------
\* The invariant holds of an empty bucket, and every step preserves it.
THEOREM BucketInvHolds == Spec => []BucketInv
<1>1. Init => BucketInv
  <2> SUFFICES ASSUME Init PROVE BucketInv
    OBVIOUS
  <2>1. BlobsOK /\ ListedStored /\ PublishedComplete /\ HeadNamesRef
    BY DEF Init, BlobsOK, ListedStored, PublishedComplete, HeadNamesRef
  <2>2. ClientsOK
    BY TriesAssumption DEF Init, ClientsOK, PCs, Packs
  <2>3. \A c \in Clients : Sent(c) /\ Fresh(c)
    BY DEF Init, Sent, Fresh, PushPCs, FetchPCs
  <2> QED
    BY <2>1, <2>2, <2>3 DEF BucketInv, BucketTypeOK
<1>2. BucketInv /\ [Next]_vars => BucketInv'
  <2> SUFFICES ASSUME BucketInv, [Next]_vars PROVE BucketInv'
    OBVIOUS
  <2>1. ASSUME NEW c \in Clients, Start(c) PROVE BucketInv'
    BY <2>1, PushInv, FetchInv DEF Start
  <2>2. ASSUME NEW c \in Clients, Step(c) PROVE BucketInv'
    BY <2>2, MissingInv, PutPackInv, ReadManifestInv, CasManifestInv, ReturnInv,
       ReadRefInv, CasRefInv, HeadInv, FetchInv DEF Step
  <2>3. ASSUME NEW c \in Clients, Fail(c) PROVE BucketInv'
    BY <2>3, ReturnInv
  <2>4. CASE UNCHANGED vars
    BY <2>4 DEF vars, bucket, client, BucketInv, BucketTypeOK, BlobsOK, ClientsOK,
                ListedStored, Sent, Fresh, Indexed, PublishedComplete, HeadNamesRef
  <2> QED
    BY <2>1, <2>2, <2>3, <2>4 DEF Next
<1> QED
  BY <1>1, <1>2, PTL DEF Spec

\* The bucket's blobs and the clients' locals keep their types.
THEOREM BucketTyped == Spec => []BucketTypeOK
<1>1. BucketInv => BucketTypeOK
  BY DEF BucketInv
<1> QED
  BY <1>1, BucketInvHolds, PTL

\* For any number of clients, branches and commits, any history graph and any
\* bound on the retries: a published ref names a history that is all in packs
\* the manifest lists.
THEOREM PublishedStaysComplete == Spec => []PublishedComplete
<1>1. BucketInv => PublishedComplete
  BY DEF BucketInv
<1> QED
  BY <1>1, BucketInvHolds, PTL

\* A fetch finds every object of the tip it listed in the index it built.
THEOREM FetchesFindAll == Spec => []FetchFindsAll
<1>1. BucketInv => FetchFindsAll
  BY DEF BucketInv, Sent, FetchFindsAll
<1> QED
  BY <1>1, BucketInvHolds, PTL

\* The branch that the bucket's HEAD names has a ref.
THEOREM HeadStaysNamed == Spec => []HeadNamesRef
<1>1. BucketInv => HeadNamesRef
  BY DEF BucketInv
<1> QED
  BY <1>1, BucketInvHolds, PTL

-----------------------------------------------------------------------------
(* The bucket implements Published.                                        *)

\* A step that leaves manifest, packs and refs alone changes nothing to a reader.
LEMMA ReadersSame ==
  ASSUME manifest' = manifest, packs' = packs, ref' = ref
  PROVE  UNCHANGED Readers!vars
BY DEF Readers!vars

\* Uploading a pack shows nothing to a reader: the manifest lists only packs
\* that are there already.
LEMMA PutPackHidden ==
  ASSUME BucketInv, NEW c \in Clients, NEW batch, PutPack(c, batch)
  PROVE  UNCHANGED Readers!vars
<1>1. manifest' = manifest /\ ref' = ref /\ packs \subseteq packs' /\ manifest \subseteq packs
  BY DEF PutPack, BucketInv, ListedStored
<1>2. manifest' \cap packs' = manifest \cap packs
  BY <1>1
<1> QED
  BY <1>1, <1>2 DEF Readers!vars

\* The manifest written back under an unchanged ETag lists all it listed.
LEMMA CasManifestStores ==
  ASSUME BucketInv, NEW c \in Clients, CasManifest(c)
  PROVE  Readers!Store \/ UNCHANGED Readers!vars
<1>1. CASE Matches(mtag, etag[c])
  <2>1. packs' = packs /\ ref' = ref /\ pc[c] = "cas" /\ manifest' = seen[c] \cup {pack[c]}
    BY <1>1 DEF CasManifest
  <2>2. seen[c] = manifest /\ pack[c] \in packs
    BY <1>1, <2>1 DEF BucketInv, Fresh, Sent, Matches
  <2>3. pack[c] \subseteq Objects /\ UNION (manifest \cap packs) \subseteq Objects
    BY DEF BucketInv, BucketTypeOK, BlobsOK, ClientsOK, Packs
  <2>4. UNION (manifest' \cap packs') = (UNION (manifest \cap packs)) \cup pack[c]
    BY <2>1, <2>2
  <2> QED
    BY <2>1, <2>3, <2>4 DEF Readers!Store
<1>2. CASE ~Matches(mtag, etag[c])
  BY <1>2, ReadersSame DEF CasManifest
<1> QED
  BY <1>1, <1>2

\* A ref is moved when everything its commit needs is listed.
LEMMA CasRefPublishes ==
  ASSUME BucketInv, NEW c \in Clients, CasRef(c)
  PROVE  Readers!Next \/ UNCHANGED Readers!vars
<1>1. CASE Matches(RefTag(br[c]), etag[c])
  <2> DEFINE shown(r) == [b \in Branches |-> IF r[b] = None THEN None ELSE r[b].tip]
  <2>1. packs' = packs /\ manifest' = manifest /\ pc[c] = "ref"
        /\ ref' = [ref EXCEPT ![br[c]] = [tip |-> tip[c], etag |-> NextTag(RefTag(br[c]))]]
    BY <1>1 DEF CasRef
  <2>2. br[c] \in Branches /\ tip[c] \in Tips
    BY <2>1 DEF BucketInv, Sent, PushPCs
  <2>3. Reach[tip[c]] \subseteq UNION (manifest \cap packs)
    BY <2>1, IndexedLemma DEF BucketInv, Sent
  <2>4. [tip |-> tip[c], etag |-> NextTag(RefTag(br[c]))] # None
    <3>1. RefTag(br[c]) \in Nat \cup {None}
      BY <2>2 DEF RefTag, BucketInv, BucketTypeOK, BlobsOK
    <3>2. NextTag(RefTag(br[c])) \in Nat
      BY <3>1, NextTagLemma
    <3> QED
      BY <2>2, <3>2, BucketNoneAssumption
  <2>5. shown(ref') = [shown(ref) EXCEPT ![br[c]] = tip[c]]
    BY <2>1, <2>2, <2>4 DEF BucketInv, BucketTypeOK, BlobsOK
  <2> QED
    BY <2>1, <2>2, <2>3, <2>5 DEF Readers!Next, Readers!Publish
<1>2. CASE ~Matches(RefTag(br[c]), etag[c])
  BY <1>2, ReadersSame DEF CasRef
<1> QED
  BY <1>1, <1>2

\* For any clients, branches and history: the bucket implements Published.  All
\* a reader sees of a push are objects that are added and then one ref that
\* moves to a commit whose objects are all there.
THEOREM BucketImplementsPublished == Spec => ImplementsPublished
<1>1. Init => Readers!Init
  BY DEF Init, Readers!Init
<1>2. BucketInv /\ [Next]_vars => [Readers!Next]_Readers!vars
  <2> SUFFICES ASSUME BucketInv, [Next]_vars PROVE Readers!Next \/ UNCHANGED Readers!vars
    OBVIOUS
  <2>1. ASSUME NEW c \in Clients, Start(c) PROVE UNCHANGED Readers!vars
    BY <2>1, ReadersSame DEF Start, Push, ListRefs, bucket
  <2>2. ASSUME NEW c \in Clients, Step(c) PROVE Readers!Next \/ UNCHANGED Readers!vars
    <3>1. CASE \/ Missing(c) \/ ReadManifest(c) \/ GiveUp(c) \/ ReadRef(c)
               \/ ReadHead(c) \/ PutHead(c) \/ EnsureIndex(c) \/ FetchDone(c)
      BY <3>1, ReadersSame DEF Missing, ReadManifest, GiveUp, ReadRef, ReadHead, PutHead,
         EnsureIndex, FetchDone, bucket
    <3>2. CASE \E o \in Objects : GetObject(c, o)
      BY <3>2, ReadersSame DEF GetObject, bucket
    <3>3. CASE \E batch \in SUBSET todo[c] : PutPack(c, batch)
      BY <3>3, PutPackHidden
    <3>4. CASE CasManifest(c)
      BY <3>4, CasManifestStores DEF Readers!Next
    <3>5. CASE CasRef(c)
      BY <3>5, CasRefPublishes
    <3> QED
      BY <2>2, <3>1, <3>2, <3>3, <3>4, <3>5 DEF Step
  <2>3. ASSUME NEW c \in Clients, Fail(c) PROVE UNCHANGED Readers!vars
    BY <2>3, ReadersSame DEF Fail, bucket
  <2>4. CASE UNCHANGED vars
    BY <2>4, ReadersSame DEF vars, bucket
  <2> QED
    BY <2>1, <2>2, <2>3, <2>4 DEF Next
<1> QED
  BY <1>1, <1>2, BucketInvHolds, PTL DEF Spec, ImplementsPublished, Readers!Spec

=============================================================================
