---------------------------- MODULE CloudProofs ----------------------------
(***************************************************************************)
(* Proofs about Cloud.tla: an acknowledged addition stays in the blob, and *)
(* the clients keep the promise of trait Bucket (BlobStore.tla), for any   *)
(* number of clients, writes and days, over ETags that are hashes,         *)
(* versions or missing; and every request has the date of its day.         *)
(*                                                                         *)
(* The strengthening says what an ETag is worth (RightRead): as long as    *)
(* the service would accept it, the blob has the content it was read with; *)
(* that every write on its way was made from such a read (MadeFrom); that  *)
(* a client and a number make one write (OneWriteEach), which is nowhere   *)
(* before it begins (Begun, Known) and not both on its way and performed;  *)
(* and what an answer says of the write it answers (Tells).                *)
(*                                                                         *)
(* The dates: civil_from_days takes each day to the day after the one      *)
(* before it, through eras, years from March and months, so that it is     *)
(* the calendar's date of every day since 1970.                            *)
(***************************************************************************)
EXTENDS Cloud, FiniteSetTheorems, WellFoundedInduction, TLAPS

\* An addition whose write has begun.
Started(a) == \/ a[2] < calls[a[1]]
              \/ a[2] = calls[a[1]] /\ said[a[1]] = "busy"
Known(d)   == \A a \in d : Started(a)

RightRead(x) ==
  /\ Known(x.data)
  /\ \/ x.etag = None /\ x.data = {}
     \/ tags = "hash" /\ x.etag = <<"hash", x.data>>
     \/ /\ tags = "version" /\ blob # None
        /\ x.etag \in {"version"} \X Nat
        /\ x.etag[2] <= blob.version
        /\ x.etag[2] = blob.version => x.data = blob.data
     \/ tags = "none" /\ x.etag = Empty

\* The addition of a write.
Own(r) == Addition(r.by, r.n)

\* What the write r was made from.
ReadOf(r) == [data |-> r.data \ {Own(r)},
              etag |-> IF r.cond[1] = "absent" THEN None ELSE r.cond[2]]
MadeFrom(r) ==
  /\ r.cond[1] \in {"absent", "match"}
  /\ Own(r) \in r.data
  /\ RightRead(ReadOf(r))

IsPut(r) == r.op = "put"

\* A write that is on its way or performed belongs to a call that is over, or
\* is the call its client waits for.
Begun(r) == \/ r.n < calls[r.by]
            \/ r.n = calls[r.by] /\ call[r.by] = r /\ said[r.by] = "busy"

Writing ==
  /\ \A r \in served : IsPut(r)
  /\ \A r \in wire \cup served : IsPut(r) => Begun(r)
  /\ \A r \in wire : IsPut(r) => MadeFrom(r)
  /\ wire \cap served = {}

OneWriteEach ==
  \A r, q \in wire \cup served :
    IsPut(r) /\ IsPut(q) /\ r.by = q.by /\ r.n = q.n => r = q

\* What a client knows of the request it waits for.
Tells(c) ==
  /\ call[c] # None =>
       /\ call[c].by = c /\ call[c].n = calls[c] /\ calls[c] < MaxCalls /\ read[c] = None
  /\ call[c] # None /\ IsPut(call[c]) =>
       /\ put[c] = call[c]
       /\ answer[c] # None =>
            /\ call[c] \notin wire
            /\ answer[c].status = 200 => call[c] \in served
            /\ answer[c].status \in {409, 412} => call[c] \notin served
  /\ call[c] # None /\ ~IsPut(call[c]) /\ answer[c] # None /\ answer[c].status = 200 =>
       answer[c].body \in Reads /\ RightRead(answer[c].body)
  /\ read[c] # None => RightRead(read[c]) /\ calls[c] < MaxCalls

\* What the blob holds.
Holding ==
  /\ blob # None => Known(blob.data)
  /\ \A r \in served : blob # None /\ Own(r) \in blob.data
  /\ acked \subseteq {Own(r) : r \in served}

CloudInv ==
  /\ CloudTypeOK /\ Writing /\ OneWriteEach /\ Holding
  /\ \A c \in Clients : Tells(c)

-----------------------------------------------------------------------------
(* Lemmas.                                                                 *)

\* What no step undoes: calls are counted up, a write that is waited for ends
\* when its call is counted, and a write of the blob changes its version.
Grows ==
  /\ tags' = tags
  /\ \A c \in Clients :
       \/ calls'[c] = calls[c] /\ (said[c] = "busy" => said'[c] = "busy")
       \/ calls'[c] = calls[c] + 1
  /\ \/ blob' = blob
     \/ /\ blob' \in Blobs
        /\ blob # None => blob'.version = blob.version + 1

LEMMA BlobLemma == \A b \in Blobs : b # None /\ b.data \in Contents /\ b.version \in Nat
BY CloudNoneAssumption DEF Blobs

LEMMA ReadLemma ==
  \A x \in Reads : x # None /\ x.data \in Contents /\ x.etag \in ETags \cup {None}
BY CloudNoneAssumption DEF Reads

LEMMA AnswerLemma ==
  \A x \in Answers : x # None /\ x.status \in Statuses /\ x.body \in Reads \cup {None}
BY CloudNoneAssumption DEF Answers

LEMMA RequestsLemma ==
  \A r \in Requests :
    /\ r # None /\ r.by \in Clients /\ r.n \in 0 .. MaxCalls - 1 /\ r.n \in Nat
    /\ r.op \in {"get", "put"} /\ r.data \in Contents /\ r.cond \in Conditions
BY CloudAssumption, NoRequestAssumption DEF Requests

LEMMA AdditionsLemma ==
  /\ \A a \in Additions : a[1] \in Clients /\ a[2] \in Nat
  /\ \A c \in Clients, n \in 0 .. MaxCalls - 1 :
       Addition(c, n) \in Additions /\ Addition(c, n)[1] = c /\ Addition(c, n)[2] = n
BY CloudAssumption DEF Additions, Addition

\* What a client sends.
LEMMA RequestLemma ==
  ASSUME CloudTypeOK, NEW c \in Clients, calls[c] < MaxCalls, NEW op \in {"get", "put"},
         NEW d \in Contents, NEW k \in Conditions
  PROVE  LET r == Request(c, op, d, k) IN
           /\ r \in Requests
           /\ r.by = c /\ r.n = calls[c] /\ r.op = op /\ r.data = d /\ r.cond = k
<1>1. calls[c] \in 0 .. MaxCalls - 1 /\ day \in Days
  BY CloudAssumption DEF CloudTypeOK
<1> QED
  BY <1>1 DEF Request, Requests

\* Additions stay known.
LEMMA KnownKeeps ==
  ASSUME CloudTypeOK, Grows, NEW d \in Contents, Known(d)
  PROVE  Known(d)'
<1> SUFFICES ASSUME NEW a \in d PROVE Started(a)'
  BY DEF Known
<1>1. Started(a) /\ a[1] \in Clients /\ a[2] \in Nat
  BY AdditionsLemma DEF Known, Contents
<1>2. calls[a[1]] \in Nat
  BY <1>1, CloudAssumption DEF CloudTypeOK
<1>3. \/ calls'[a[1]] = calls[a[1]] /\ (said[a[1]] = "busy" => said'[a[1]] = "busy")
      \/ calls'[a[1]] = calls[a[1]] + 1
  BY <1>1 DEF Grows
<1> QED
  BY <1>1, <1>2, <1>3 DEF Started

\* A right read stays right: another write of the blob gives it another version.
LEMMA RightReadKeeps ==
  ASSUME CloudTypeOK, Grows, NEW x, x.data \in Contents, RightRead(x)
  PROVE  RightRead(x)'
<1>1. Known(x.data)'
  BY KnownKeeps DEF RightRead
<1>2. CASE x.etag = None /\ x.data = {}
  BY <1>1, <1>2 DEF RightRead
<1>3. CASE tags = "hash" /\ x.etag = <<"hash", x.data>>
  BY <1>1, <1>3 DEF RightRead, Grows
<1>4. CASE /\ tags = "version" /\ blob # None
           /\ x.etag \in {"version"} \X Nat
           /\ x.etag[2] <= blob.version
           /\ x.etag[2] = blob.version => x.data = blob.data
  <2>1. x.etag[2] \in Nat
    BY <1>4
  <2>2. blob.version \in Nat
    BY <1>4, BlobLemma DEF CloudTypeOK
  <2>3. /\ tags' = "version" /\ blob' # None
        /\ x.etag[2] <= blob'.version
        /\ x.etag[2] = blob'.version => x.data = blob'.data
    BY <1>4, <2>1, <2>2, BlobLemma DEF Grows
  <2> QED
    BY <1>1, <1>4, <2>3 DEF RightRead
<1>5. CASE tags = "none" /\ x.etag = Empty
  BY <1>1, <1>5 DEF RightRead, Grows
<1> QED
  BY <1>2, <1>3, <1>4, <1>5 DEF RightRead

\* So does what a write on its way was made from.
LEMMA MadeFromKeeps ==
  ASSUME CloudTypeOK, Grows, NEW r \in Requests, MadeFrom(r)
  PROVE  MadeFrom(r)'
<1>1. ReadOf(r).data \in Contents
  BY RequestsLemma DEF ReadOf, Contents
<1> QED
  BY <1>1, RightReadKeeps DEF MadeFrom, ReadOf

\* A client that does nothing keeps what it knows of its request.
LEMMA TellsKeeps ==
  ASSUME CloudInv, Grows, NEW d \in Clients,
         call'[d] = call[d], answer'[d] = answer[d], read'[d] = read[d],
         put'[d] = put[d], calls'[d] = calls[d],
         \A q \in wire' : q \in wire \/ q.by # d,
         served \subseteq served', \A q \in served' : q \in served \cup wire
  PROVE  Tells(d)'
<1>1. CloudTypeOK /\ Tells(d)
  BY DEF CloudInv
<1>2. \A x \in Reads : RightRead(x) => RightRead(x)'
  BY <1>1, ReadLemma, RightReadKeeps
<1>3. read[d] # None => read[d] \in Reads
  BY <1>1 DEF CloudTypeOK
<1>4. call[d] # None => /\ call[d].by = d
                        /\ call[d] \notin wire => call[d] \notin wire'
                        /\ call[d] \notin wire /\ call[d] \notin served => call[d] \notin served'
                        /\ call[d] \in served => call[d] \in served'
  BY <1>1 DEF Tells
<1>5. /\ call[d] # None =>
           /\ call[d].by = d /\ call[d].n = calls[d] /\ calls[d] < MaxCalls /\ read[d] = None
      /\ read[d] # None => RightRead(read[d])' /\ calls[d] < MaxCalls
  BY <1>1, <1>2, <1>3 DEF Tells
<1>6. call[d] # None /\ IsPut(call[d]) =>
       /\ put[d] = call[d]
       /\ answer[d] # None =>
            /\ call[d] \notin wire'
            /\ answer[d].status = 200 => call[d] \in served'
            /\ answer[d].status \in {409, 412} => call[d] \notin served'
  BY <1>1, <1>4 DEF Tells
<1>7. call[d] # None /\ ~IsPut(call[d]) /\ answer[d] # None /\ answer[d].status = 200 =>
       answer[d].body \in Reads /\ RightRead(answer[d].body)'
  BY <1>1, <1>2 DEF Tells
<1> QED
  BY <1>5, <1>6, <1>7 DEF Tells, IsPut

\* What the blob holds stays so while it is not written.
LEMMA HoldingKeeps ==
  ASSUME CloudInv, Grows, blob' = blob, served' = served, acked' = acked
  PROVE  Holding'
<1>1. CloudTypeOK /\ Holding
  BY DEF CloudInv
<1>2. blob # None => Known(blob.data)'
  <2> SUFFICES ASSUME blob # None PROVE Known(blob.data)'
    OBVIOUS
  <2>1. blob.data \in Contents /\ Known(blob.data)
    BY <1>1, BlobLemma DEF Holding, CloudTypeOK
  <2>2. PICK d \in Contents : d = blob.data
    BY <2>1
  <2>3. Known(d)'
    BY <1>1, <2>1, <2>2, KnownKeeps
  <2> QED
    BY <2>2, <2>3 DEF Known
<1> QED
  BY <1>1, <1>2 DEF Holding

\* Bucket::get begins.
LEMMA GetLemma ==
  ASSUME CloudInv, NEW c \in Clients, Get(c)
  PROVE  CloudInv'
<1> DEFINE r == Request(c, "get", {}, <<"any">>)
<1> HIDE DEF r
<1>1. CloudTypeOK /\ Writing /\ OneWriteEach /\ Tells(c)
  BY DEF CloudInv
<1>2. r \in Requests /\ r.by = c /\ r.n = calls[c] /\ r.op = "get"
  BY <1>1, RequestLemma DEF Get, Contents, Conditions, r
<1>3. /\ call' = [call EXCEPT ![c] = r] /\ wire' = wire \cup {r}
      /\ call[c] = None /\ read[c] = None /\ calls[c] < MaxCalls /\ r # None
      /\ UNCHANGED <<tags, blob, answer, read, put, said, calls, acked, served, day>>
  BY <1>2, RequestsLemma DEF Get, Send, r
<1>4. Grows
  BY <1>3 DEF Grows
<1>5. CloudTypeOK'
  BY <1>1, <1>2, <1>3, CloudAssumption DEF CloudTypeOK
<1>6. Writing'
  <2>1. ASSUME NEW q \in wire \cup served, IsPut(q) PROVE Begun(q)'
    <3>1. Begun(q) /\ q \in Requests
      BY <1>1, <2>1 DEF Writing, CloudTypeOK
    <3>2. q # None /\ q.by \in Clients
      BY <3>1, RequestsLemma
    <3> QED
      BY <1>1, <1>3, <3>1, <3>2 DEF Begun, CloudTypeOK
  <2>2. ASSUME NEW q \in wire, IsPut(q) PROVE MadeFrom(q)'
    BY <1>1, <1>4, <2>2, MadeFromKeeps DEF Writing, CloudTypeOK
  <2>3. ~IsPut(r) /\ r \notin served
    BY <1>1, <1>2 DEF Writing, IsPut
  <2> QED
    BY <1>1, <1>3, <2>1, <2>2, <2>3 DEF Writing
<1>7. OneWriteEach'
  BY <1>1, <1>2, <1>3 DEF OneWriteEach, IsPut
<1>8. Holding'
  BY <1>3, <1>4, HoldingKeeps
<1>9. ASSUME NEW d \in Clients PROVE Tells(d)'
  <2>1. CASE d # c
    BY <1>1, <1>2, <1>3, <1>4, <2>1, TellsKeeps DEF CloudTypeOK
  <2>2. CASE d = c
    <3>1. call'[c] = r /\ read'[c] = None /\ calls'[c] = calls[c] /\ answer'[c] = None
      BY <1>1, <1>3 DEF CloudTypeOK
    <3> QED
      BY <1>2, <1>3, <2>2, <3>1 DEF Tells, IsPut
  <2> QED
    BY <2>1, <2>2
<1> QED
  BY <1>5, <1>6, <1>7, <1>8, <1>9 DEF CloudInv

\* A get ends, or breaks off: the client has what the answer brought, if anything.
LEMMA GotLemma ==
  ASSUME CloudInv, NEW c \in Clients, EndGet(c) \/ GetFails(c)
  PROVE  CloudInv'
<1>1. CloudTypeOK /\ Writing /\ OneWriteEach /\ Tells(c)
  BY DEF CloudInv
<1>2. /\ call' = [call EXCEPT ![c] = None] /\ answer' = [answer EXCEPT ![c] = None]
      /\ call[c] # None /\ call[c].op = "get"
      /\ UNCHANGED <<tags, blob, wire, put, said, calls, acked, served, day>>
  BY DEF EndGet, GetFails, Finished
<1>3. Grows
  BY <1>2 DEF Grows
<1>4. NoBlob \in Reads /\ RightRead(NoBlob)
  BY DEF NoBlob, Reads, Contents, RightRead, Known
<1>5. \/ read' = read
      \/ \E x \in Reads \cup {None} :
           read' = [read EXCEPT ![c] = x] /\ (x # None => x \in Reads /\ RightRead(x))
  <2>1. CASE GetFails(c)
    BY <2>1 DEF GetFails
  <2>2. CASE EndGet(c)
    <3> DEFINE x == Got(answer[c])
    <3>1. x # None => x \in Reads /\ RightRead(x)
      <4>1. CASE answer[c].status = 200
        BY <1>1, <1>2, <2>2, <4>1 DEF EndGet, Tells, IsPut, Got
      <4>2. CASE answer[c].status # 200
        BY <1>4, <4>2 DEF Got
      <4> QED
        BY <4>1, <4>2
    <3> QED
      BY <2>2, <3>1 DEF EndGet
  <2> QED
    BY <2>1, <2>2
<1>6. read' \in [Clients -> Reads \cup {None}]
  BY <1>1, <1>5 DEF CloudTypeOK
<1>7. CloudTypeOK'
  <2>1. call' \in [Clients -> Requests \cup {None}] /\ answer' \in [Clients -> Answers \cup {None}]
    BY <1>1, <1>2 DEF CloudTypeOK
  <2>2. \A d \in Clients : /\ answer'[d] # None => call'[d] # None
                           /\ said[d] = "busy" <=> call'[d] # None /\ call'[d].op = "put"
    BY <1>1, <1>2 DEF CloudTypeOK
  <2> QED
    BY <1>1, <1>2, <1>6, <2>1, <2>2 DEF CloudTypeOK
<1>8. Writing'
  <2>1. ASSUME NEW q \in wire \cup served, IsPut(q) PROVE Begun(q)'
    <3>1. Begun(q) /\ q \in Requests
      BY <1>1, <2>1 DEF Writing, CloudTypeOK
    <3>2. q # None /\ q.by \in Clients
      BY <3>1, RequestsLemma
    <3> QED
      BY <1>1, <1>2, <2>1, <3>1, <3>2 DEF Begun, CloudTypeOK, IsPut
  <2>2. ASSUME NEW q \in wire, IsPut(q) PROVE MadeFrom(q)'
    BY <1>1, <1>3, <2>2, MadeFromKeeps DEF Writing, CloudTypeOK
  <2> QED
    BY <1>1, <1>2, <2>1, <2>2 DEF Writing
<1>9. OneWriteEach'
  BY <1>1, <1>2 DEF OneWriteEach
<1>10. Holding'
  BY <1>2, <1>3, HoldingKeeps
<1>11. ASSUME NEW d \in Clients PROVE Tells(d)'
  <2>1. CASE d # c
    <3>1. call'[d] = call[d] /\ answer'[d] = answer[d] /\ read'[d] = read[d]
      BY <1>1, <1>2, <1>5, <2>1 DEF CloudTypeOK
    <3> QED
      BY <1>2, <1>3, <3>1, TellsKeeps
  <2>2. CASE d = c
    <3>1. call'[c] = None /\ calls'[c] < MaxCalls
      BY <1>1, <1>2 DEF CloudTypeOK, Tells
    <3>2. read'[c] # None => RightRead(read[c])'
      <4> SUFFICES ASSUME read'[c] # None PROVE RightRead(read[c])'
        OBVIOUS
      <4>1. PICK x \in Reads : read'[c] = x /\ RightRead(x)
        BY <1>1, <1>2, <1>5 DEF CloudTypeOK, Tells
      <4>2. RightRead(x)'
        BY <1>1, <1>3, <4>1, ReadLemma, RightReadKeeps
      <4> QED
        BY <4>1, <4>2
    <3> QED
      BY <2>2, <3>1, <3>2 DEF Tells
  <2> QED
    BY <2>1, <2>2
<1> QED
  BY <1>7, <1>8, <1>9, <1>10, <1>11 DEF CloudInv

\* The condition of a write, and what it was made from.
LEMMA ConditionLemma ==
  ASSUME NEW x \in Reads
  PROVE  /\ Condition(x) \in Conditions /\ Condition(x)[1] \in {"absent", "match"}
         /\ (IF Condition(x)[1] = "absent" THEN None ELSE Condition(x)[2]) = x.etag
BY ReadLemma DEF Condition, Conditions

\* put_if_match begins.
LEMMA PutLemma ==
  ASSUME CloudInv, NEW c \in Clients, PutIfMatch(c)
  PROVE  CloudInv'
<1>a. PICK x : x = read[c]
  OBVIOUS
<1>b. PICK r : r = Request(c, "put", x.data \cup {Addition(c, calls[c])}, Condition(x))
  OBVIOUS
<1>1. CloudTypeOK /\ Writing /\ OneWriteEach /\ Tells(c) /\ Holding
  BY DEF CloudInv
<1>2. /\ call[c] = None /\ x \in Reads /\ calls[c] < MaxCalls /\ RightRead(x)
      /\ said[c] # "busy"
  BY <1>1, <1>a DEF PutIfMatch, CloudTypeOK, Tells
<1>3. /\ calls[c] \in 0 .. MaxCalls - 1 /\ x.data \in Contents
      /\ Addition(c, calls[c]) \in Additions
  BY <1>1, <1>2, AdditionsLemma, ReadLemma, CloudAssumption DEF CloudTypeOK
<1>4. /\ r \in Requests /\ r.by = c /\ r.n = calls[c] /\ r.op = "put"
      /\ r.data = x.data \cup {Addition(c, calls[c])} /\ r.cond = Condition(x)
  <2>1. x.data \cup {Addition(c, calls[c])} \in Contents
    BY <1>3 DEF Contents
  <2>2. Condition(x) \in Conditions
    BY <1>2, ConditionLemma
  <2>3. day \in Days
    BY <1>1 DEF CloudTypeOK
  <2> QED
    BY <1>3, <1>b, <2>1, <2>2, <2>3 DEF Request, Requests
<1>5. /\ call' = [call EXCEPT ![c] = r] /\ wire' = wire \cup {r}
      /\ put' = [put EXCEPT ![c] = r] /\ read' = [read EXCEPT ![c] = None]
      /\ said' = [said EXCEPT ![c] = "busy"] /\ r # None
      /\ UNCHANGED <<tags, blob, answer, calls, acked, served, day>>
  BY <1>4, <1>a, <1>b, RequestsLemma DEF PutIfMatch, Send
<1>6. Grows
  BY <1>1, <1>5 DEF Grows, CloudTypeOK
<1>7. Addition(c, calls[c]) \notin x.data
  <2>1. ~Started(Addition(c, calls[c]))
    BY <1>2, <1>3, AdditionsLemma DEF Started
  <2> QED
    BY <1>2, <2>1 DEF RightRead, Known
<1>8. \A q \in wire \cup served : IsPut(q) /\ q.by = c => q.n # r.n
  BY <1>1, <1>2, <1>4, RequestsLemma DEF Writing, Begun, CloudTypeOK
<1>9. CloudTypeOK'
  <2>1. /\ call' \in [Clients -> Requests \cup {None}]
        /\ read' \in [Clients -> Reads \cup {None}]
        /\ put' \in [Clients -> Requests \cup {None}]
    BY <1>1, <1>4, <1>5 DEF CloudTypeOK
  <2>2. said' \in [Clients -> {"nothing", "busy", "written", "conflict", "error"}]
    BY <1>1, <1>5 DEF CloudTypeOK
  <2>3. wire' \subseteq Requests /\ \A q \in wire' \cup served : q.n <= calls[q.by]
    <3>1. \A q \in wire \cup served : q.by \in Clients
      BY <1>1, RequestsLemma DEF CloudTypeOK
    <3>2. r.n <= calls[r.by]
      BY <1>3, <1>4
    <3> QED
      BY <1>1, <1>4, <1>5, <3>1, <3>2 DEF CloudTypeOK
  <2>4. \A d \in Clients : /\ answer[d] # None => call'[d] # None
                           /\ said'[d] = "busy" <=> call'[d] # None /\ call'[d].op = "put"
    BY <1>1, <1>4, <1>5 DEF CloudTypeOK
  <2> QED
    BY <1>1, <1>5, <2>1, <2>2, <2>3, <2>4 DEF CloudTypeOK
<1>10. Writing'
  <2>1. ASSUME NEW q \in wire \cup served, IsPut(q) PROVE Begun(q)'
    <3>1. Begun(q) /\ q \in Requests
      BY <1>1, <2>1 DEF Writing, CloudTypeOK
    <3>2. q # None /\ q.by \in Clients
      BY <3>1, RequestsLemma
    <3> QED
      BY <1>1, <1>2, <1>5, <3>1, <3>2 DEF Begun, CloudTypeOK
  <2>2. ASSUME NEW q \in wire, IsPut(q) PROVE MadeFrom(q)'
    BY <1>1, <1>6, <2>2, MadeFromKeeps DEF Writing, CloudTypeOK
  <2>3. Begun(r)'
    BY <1>1, <1>4, <1>5 DEF Begun, CloudTypeOK
  <2>4. MadeFrom(r)'
    <3>1. Own(r) \notin x.data /\ r.data = x.data \cup {Own(r)}
      BY <1>4, <1>7 DEF Own
    <3>2. ReadOf(r).data = x.data /\ ReadOf(r).etag = x.etag
      BY <1>2, <1>4, <3>1, ConditionLemma DEF ReadOf
    <3>3. RightRead(ReadOf(r))
      BY <1>2, <3>2 DEF RightRead
    <3>4. MadeFrom(r)
      BY <1>2, <1>4, <3>1, <3>3, ConditionLemma DEF MadeFrom
    <3> QED
      BY <1>1, <1>4, <1>6, <3>4, MadeFromKeeps
  <2>5. r \notin served
    BY <1>1, <1>4, <1>8 DEF Writing
  <2> QED
    BY <1>1, <1>5, <2>1, <2>2, <2>3, <2>4, <2>5 DEF Writing
<1>11. OneWriteEach'
  BY <1>1, <1>4, <1>5, <1>8 DEF OneWriteEach, IsPut
<1>12. Holding'
  BY <1>5, <1>6, HoldingKeeps
<1>13. ASSUME NEW d \in Clients PROVE Tells(d)'
  <2>1. CASE d # c
    <3>1. /\ call'[d] = call[d] /\ answer'[d] = answer[d] /\ read'[d] = read[d]
          /\ put'[d] = put[d]
      BY <1>1, <1>5, <2>1 DEF CloudTypeOK
    <3> QED
      BY <1>4, <1>5, <1>6, <2>1, <3>1, TellsKeeps
  <2>2. CASE d = c
    <3>1. /\ call'[c] = r /\ read'[c] = None /\ calls'[c] = calls[c] /\ answer'[c] = None
          /\ put'[c] = r
      BY <1>1, <1>2, <1>5 DEF CloudTypeOK
    <3> QED
      BY <1>2, <1>4, <1>5, <2>2, <3>1 DEF Tells, IsPut
  <2> QED
    BY <2>1, <2>2
<1> QED
  BY <1>9, <1>10, <1>11, <1>12, <1>13 DEF CloudInv

\* put_if_match returns: a status of 200 comes only from a write performed.
LEMMA EndPutLemma ==
  ASSUME CloudInv, NEW c \in Clients, NEW status, EndPut(c, status)
  PROVE  CloudInv'
<1>1. CloudTypeOK /\ Writing /\ OneWriteEach /\ Tells(c) /\ Holding
  BY DEF CloudInv
<1>2. /\ call' = [call EXCEPT ![c] = None] /\ answer' = [answer EXCEPT ![c] = None]
      /\ call[c] # None /\ call[c].op = "put"
      /\ said' = [said EXCEPT ![c] = Meaning(status)]
      /\ calls' = [calls EXCEPT ![c] = @ + 1]
      /\ UNCHANGED <<tags, blob, wire, read, put, served, day>>
  BY DEF EndPut, Finished
<1>3. Meaning(status) \in {"written", "conflict", "error"}
  BY DEF Meaning
<1>4. /\ calls[c] \in 0 .. MaxCalls - 1 /\ call[c].n = calls[c] /\ call[c].by = c
      /\ \A d \in Clients : calls[d] \in Nat
      /\ calls'[c] = calls[c] + 1 /\ \A d \in Clients \ {c} : calls'[d] = calls[d]
  BY <1>1, <1>2, CloudAssumption DEF CloudTypeOK, Tells
<1>5. Grows
  BY <1>1, <1>2, <1>4 DEF Grows, CloudTypeOK
<1>6. acked' \subseteq {Own(r) : r \in served}
  <2>1. CASE Meaning(status) = "written"
    <3>1. status = 200
      BY <2>1 DEF Meaning
    <3>2. answer[c] # None /\ answer[c].status = 200
      BY <3>1 DEF EndPut
    <3>3. call[c] \in served
      BY <1>1, <1>2, <3>2 DEF Tells, IsPut
    <3> QED
      BY <1>1, <1>4, <2>1, <3>3 DEF EndPut, Own, Holding
  <2>2. CASE Meaning(status) # "written"
    BY <1>1, <2>2 DEF EndPut, Holding
  <2> QED
    BY <2>1, <2>2
<1>7. CloudTypeOK'
  <2>1. /\ call' \in [Clients -> Requests \cup {None}]
        /\ answer' \in [Clients -> Answers \cup {None}]
    BY <1>1, <1>2 DEF CloudTypeOK
  <2>2. said' \in [Clients -> {"nothing", "busy", "written", "conflict", "error"}]
    BY <1>1, <1>2, <1>3 DEF CloudTypeOK
  <2>3. calls' \in [Clients -> 0 .. MaxCalls]
    BY <1>1, <1>2, <1>4, CloudAssumption DEF CloudTypeOK
  <2>4. acked' \subseteq Additions
    BY <1>1, <1>6, RequestsLemma, AdditionsLemma DEF CloudTypeOK, Own
  <2>5. \A d \in Clients : /\ answer'[d] # None => call'[d] # None
                           /\ said'[d] = "busy" <=> call'[d] # None /\ call'[d].op = "put"
    BY <1>1, <1>2, <1>3 DEF CloudTypeOK
  <2>6. \A d \in Clients : \A r \in wire \cup served : r.by = d => r.n <= calls'[d]
    BY <1>1, <1>4, RequestsLemma DEF CloudTypeOK
  <2> QED
    BY <1>1, <1>2, <2>1, <2>2, <2>3, <2>4, <2>5, <2>6 DEF CloudTypeOK
<1>8. Writing'
  <2>1. ASSUME NEW q \in wire \cup served, IsPut(q) PROVE Begun(q)'
    <3>1. Begun(q) /\ q \in Requests
      BY <1>1, <2>1 DEF Writing, CloudTypeOK
    <3>2. q # None /\ q.by \in Clients /\ q.n \in Nat
      BY <3>1, RequestsLemma
    <3>3. CASE q.by = c
      BY <1>4, <3>1, <3>2, <3>3 DEF Begun
    <3>4. CASE q.by # c
      BY <1>1, <1>2, <1>4, <3>1, <3>2, <3>4 DEF Begun, CloudTypeOK
    <3> QED
      BY <3>3, <3>4
  <2>2. ASSUME NEW q \in wire, IsPut(q) PROVE MadeFrom(q)'
    BY <1>1, <1>5, <2>2, MadeFromKeeps DEF Writing, CloudTypeOK
  <2> QED
    BY <1>1, <1>2, <2>1, <2>2 DEF Writing
<1>9. OneWriteEach'
  BY <1>1, <1>2 DEF OneWriteEach
<1>10. Holding'
  <2>1. blob # None => Known(blob.data)'
    <3> SUFFICES ASSUME blob # None PROVE Known(blob.data)'
      OBVIOUS
    <3>1. PICK d \in Contents : d = blob.data /\ Known(d)
      BY <1>1, BlobLemma DEF Holding, CloudTypeOK
    <3>2. Known(d)'
      BY <1>1, <1>5, <3>1, KnownKeeps
    <3> QED
      BY <1>2, <3>1, <3>2 DEF Known
  <2> QED
    BY <1>1, <1>2, <1>6, <2>1 DEF Holding
<1>11. ASSUME NEW d \in Clients PROVE Tells(d)'
  <2>1. CASE d # c
    <3>1. /\ call'[d] = call[d] /\ answer'[d] = answer[d] /\ calls'[d] = calls[d]
      BY <1>1, <1>2, <1>4, <2>1 DEF CloudTypeOK
    <3> QED
      BY <1>2, <1>5, <3>1, TellsKeeps
  <2>2. CASE d = c
    <3>1. call'[c] = None /\ read'[c] = None
      BY <1>1, <1>2 DEF CloudTypeOK, Tells
    <3> QED
      BY <2>2, <3>1 DEF Tells
  <2> QED
    BY <2>1, <2>2
<1> QED
  BY <1>7, <1>8, <1>9, <1>10, <1>11 DEF CloudInv

\* A request is gone and its sender may get the answer.
AnswerStep(r, status, body) ==
  /\ wire' = wire \ {r}
  /\ Answered(r, status, body)
  /\ UNCHANGED <<tags, call, read, put, said, calls, acked, day>>

\* The state stays typed, and the other clients' requests as they were.
LEMMA AnswerLemmaType ==
  ASSUME CloudInv, NEW r \in wire, NEW status \in Statuses, NEW body \in Reads \cup {None},
         AnswerStep(r, status, body), blob' \in Blobs \cup {None},
         blob' # None => blob'.data # {}, served' \subseteq served \cup {r}
  PROVE  CloudTypeOK' /\ \A d \in Clients : d # r.by => answer'[d] = answer[d]
<1>1. CloudTypeOK /\ r \in Requests
  BY DEF CloudInv, CloudTypeOK
<1>2. r.by \in Clients /\ r # None
  BY <1>1, RequestsLemma
<1>3. [status |-> status, body |-> body] \in Answers
  BY DEF Answers
<1>4. /\ answer' \in [Clients -> Answers \cup {None}]
      /\ \A d \in Clients : answer'[d] # None => call[d] # None
      /\ \A d \in Clients : d # r.by => answer'[d] = answer[d]
  BY <1>1, <1>2, <1>3 DEF AnswerStep, Answered, CloudTypeOK
<1>5. wire' \subseteq Requests /\ served' \subseteq Requests
  BY <1>1 DEF AnswerStep, CloudTypeOK
<1>6. \A d \in Clients : \A q \in wire' \cup served' : q.by = d => q.n <= calls[d]
  BY <1>1 DEF AnswerStep, CloudTypeOK
<1> QED
  BY <1>1, <1>4, <1>5, <1>6 DEF AnswerStep, CloudTypeOK

\* A request that does not write the blob: a get, a write whose condition does
\* not hold or that is refused, a request that is lost.
LEMMA NoWriteLemma ==
  ASSUME CloudInv, NEW r \in wire, NEW status \in Statuses, NEW body \in Reads \cup {None},
         AnswerStep(r, status, body), UNCHANGED <<blob, served>>,
         IsPut(r) => status # 200,
         ~IsPut(r) /\ status = 200 => body \in Reads /\ RightRead(body)
  PROVE  CloudInv'
<1>1. CloudTypeOK /\ Writing /\ OneWriteEach /\ r \in Requests
  BY DEF CloudInv, CloudTypeOK
<1>2. r.by \in Clients /\ r # None /\ Tells(r.by)
  BY <1>1, RequestsLemma DEF CloudInv
<1>3. Grows
  BY DEF AnswerStep, Grows
<1>4. CloudTypeOK' /\ \A d \in Clients : d # r.by => answer'[d] = answer[d]
  BY <1>1, AnswerLemmaType DEF CloudTypeOK
<1>5. Writing'
  <2>1. \A q \in wire \cup served : IsPut(q) => Begun(q)'
    BY <1>1 DEF Writing, Begun, AnswerStep
  <2>2. \A q \in wire : IsPut(q) => MadeFrom(q)'
    BY <1>1, <1>3, MadeFromKeeps DEF Writing, CloudTypeOK
  <2> QED
    BY <1>1, <2>1, <2>2 DEF Writing, AnswerStep
<1>6. OneWriteEach'
  BY <1>1 DEF OneWriteEach, AnswerStep
<1>7. Holding'
  BY <1>3, HoldingKeeps DEF AnswerStep
<1>8. ASSUME NEW d \in Clients PROVE Tells(d)'
  <2>1. CASE answer'[d] = answer[d]
    BY <1>3, <2>1, TellsKeeps DEF AnswerStep
  <2>2. CASE answer'[d] # answer[d]
    <3>1. d = r.by
      BY <1>4, <2>2
    <3>2. call[d] = r /\ answer'[d] = [status |-> status, body |-> body]
      BY <1>1, <1>2, <2>2, <3>1 DEF AnswerStep, Answered, CloudTypeOK
    <3>3. /\ call[d].by = d /\ call[d].n = calls[d] /\ calls[d] < MaxCalls /\ read[d] = None
          /\ IsPut(call[d]) => put[d] = call[d]
      BY <1>2, <3>1, <3>2 DEF Tells
    <3>4. call[d] \notin wire' /\ (IsPut(call[d]) => call[d] \notin served')
      BY <1>1, <3>2 DEF Writing, AnswerStep
    <3>5. IsPut(call[d]) => answer'[d].status # 200
      BY <3>2
    <3>6. ~IsPut(call[d]) /\ answer'[d].status = 200 =>
            answer'[d].body \in Reads /\ RightRead(answer[d].body)'
      <4> SUFFICES ASSUME ~IsPut(call[d]), answer'[d].status = 200
                   PROVE  answer'[d].body \in Reads /\ RightRead(answer[d].body)'
        OBVIOUS
      <4>1. answer'[d].body = body /\ body \in Reads /\ RightRead(body)
        BY <3>2
      <4>2. RightRead(body)'
        BY <1>1, <1>3, <4>1, ReadLemma, RightReadKeeps
      <4> QED
        BY <4>1, <4>2
    <3> QED
      BY <3>3, <3>4, <3>5, <3>6 DEF Tells, IsPut, AnswerStep
  <2> QED
    BY <2>1, <2>2
<1> QED
  BY <1>4, <1>5, <1>6, <1>7, <1>8 DEF CloudInv

\* The service performs a write only on the content it was made from.
LEMMA HoldsLemma ==
  ASSUME CloudInv, NEW r \in wire, IsPut(r), Holds(r.cond)
  PROVE  /\ Own(r) \in r.data
         /\ blob = None => r.data \ {Own(r)} = {}
         /\ blob # None => r.data \ {Own(r)} = blob.data
<1>1. MadeFrom(r) /\ CloudTypeOK
  BY DEF CloudInv, Writing
<1>2. r.cond \in Conditions
  BY <1>1, RequestsLemma DEF CloudTypeOK
<1> DEFINE x == ReadOf(r)
<1>3. /\ x.data = r.data \ {Own(r)}
      /\ r.cond[1] = "absent" => x.etag = None
      /\ r.cond[1] = "match" => x.etag = r.cond[2] /\ x.etag # None
  BY <1>1, <1>2, CloudNoneAssumption DEF ReadOf, Conditions
<1>4. r.cond[1] \in {"absent", "match"} /\ RightRead(x) /\ Own(r) \in r.data
  BY <1>1 DEF MadeFrom
<1> HIDE DEF x
<1>5. CASE r.cond[1] = "absent"
  <2>1. blob = None /\ x.etag = None
    BY <1>3, <1>5 DEF Holds
  <2>2. \A v : None # <<"hash", v>> \/ v \notin Contents
    BY CloudNoneAssumption DEF ETags
  <2>3. x.data \in Contents
    BY <1>1, <1>3, RequestsLemma DEF Contents, CloudTypeOK
  <2>4. None \notin ({"version"} \X Nat) \cup {Empty}
    BY CloudNoneAssumption DEF ETags
  <2>5. x.data = {}
    BY <1>4, <2>1, <2>2, <2>3, <2>4 DEF RightRead
  <2> QED
    BY <1>3, <1>4, <2>1, <2>5
<1>6. CASE r.cond[1] = "match"
  <2>1. blob # None /\ tags # "none" /\ x.etag = EtagOf(blob) /\ x.etag # None
    BY <1>3, <1>6 DEF Holds
  <2>2. x.data = blob.data
    <3>1. CASE tags = "hash"
      BY <1>4, <2>1, <3>1 DEF RightRead, EtagOf
    <3>2. CASE tags = "version"
      BY <1>4, <2>1, <3>2 DEF RightRead, EtagOf
    <3> QED
      BY <1>1, <2>1, <3>1, <3>2 DEF CloudTypeOK
  <2> QED
    BY <1>3, <1>4, <2>1, <2>2
<1> QED
  BY <1>4, <1>5, <1>6

\* A write is performed: the blob keeps what it had and gets the addition.
LEMMA WriteLemma ==
  ASSUME CloudInv, NEW r \in wire, IsPut(r), Holds(r.cond), AnswerStep(r, 200, None),
         blob' = [data |-> r.data, version |-> IF blob = None THEN 1 ELSE blob.version + 1],
         served' = served \cup {r}
  PROVE  CloudInv'
<1>1. CloudTypeOK /\ Writing /\ OneWriteEach /\ Holding /\ r \in Requests
  BY DEF CloudInv, CloudTypeOK
<1>2. /\ r.by \in Clients /\ r # None /\ r.data \in Contents /\ r.n \in Nat /\ Tells(r.by)
      /\ Own(r)[1] = r.by /\ Own(r)[2] = r.n
  BY <1>1, RequestsLemma, AdditionsLemma DEF CloudInv, Own
<1>3. /\ Own(r) \in r.data
      /\ blob = None => r.data \ {Own(r)} = {}
      /\ blob # None => r.data \ {Own(r)} = blob.data
  BY HoldsLemma
<1>4. blob # None => blob.version \in Nat
  BY <1>1, BlobLemma DEF CloudTypeOK
<1>5. blob' \in Blobs /\ blob' # None /\ blob'.data = r.data
  BY <1>2, <1>4, BlobLemma DEF Blobs
<1>6. Grows
  BY <1>5 DEF AnswerStep, Grows
<1>7. CloudTypeOK' /\ \A d \in Clients : d # r.by => answer'[d] = answer[d]
  BY <1>3, <1>5, AnswerLemmaType DEF Statuses
<1>8. Writing'
  <2>1. \A q \in wire \cup served : IsPut(q) => Begun(q)'
    BY <1>1 DEF Writing, Begun, AnswerStep
  <2>2. \A q \in wire : IsPut(q) => MadeFrom(q)'
    BY <1>1, <1>6, MadeFromKeeps DEF Writing, CloudTypeOK
  <2> QED
    BY <1>1, <2>1, <2>2 DEF Writing, AnswerStep
<1>9. OneWriteEach'
  BY <1>1 DEF OneWriteEach, AnswerStep
<1>10. Holding'
  <2>1. Started(Own(r))
    BY <1>1, <1>2 DEF Writing, Begun, Started
  <2>2. Known(r.data)
    BY <1>1, <1>3, <2>1 DEF Known, Holding
  <2>3. Known(r.data)'
    BY <1>1, <1>2, <1>6, <2>2, KnownKeeps
  <2>4. Known(blob.data)'
    BY <1>5, <2>3 DEF Known
  <2> QED
    BY <1>1, <1>3, <1>5, <2>4 DEF Holding, AnswerStep, Own
<1>11. ASSUME NEW d \in Clients PROVE Tells(d)'
  <2>1. CASE answer'[d] = answer[d]
    BY <1>6, <2>1, TellsKeeps DEF AnswerStep
  <2>2. CASE answer'[d] # answer[d]
    <3>1. d = r.by
      BY <1>7, <2>2
    <3>2. call[d] = r /\ answer'[d] = [status |-> 200, body |-> None]
      BY <1>1, <1>2, <2>2, <3>1 DEF AnswerStep, Answered, CloudTypeOK
    <3>3. /\ call[d].by = d /\ call[d].n = calls[d] /\ calls[d] < MaxCalls /\ read[d] = None
          /\ put[d] = call[d]
      BY <1>2, <3>1, <3>2 DEF Tells
    <3>4. call[d] \notin wire' /\ call[d] \in served' /\ answer'[d].status \notin {409, 412}
      BY <3>2 DEF AnswerStep
    <3> QED
      BY <3>2, <3>3, <3>4 DEF Tells, IsPut, AnswerStep
  <2> QED
    BY <2>1, <2>2
<1> QED
  BY <1>7, <1>8, <1>9, <1>10, <1>11 DEF CloudInv

\* What a get finds is a right read.
LEMMA FoundLemma ==
  ASSUME CloudInv, blob # None
  PROVE  LET x == [data |-> blob.data, etag |-> EtagOf(blob)] IN x \in Reads /\ RightRead(x)
<1>1. /\ blob.data \in Contents /\ blob.version \in Nat /\ Known(blob.data)
      /\ tags \in {"hash", "version", "none"}
  BY BlobLemma DEF CloudInv, CloudTypeOK, Holding
<1>2. EtagOf(blob) \in ETags
  BY <1>1 DEF EtagOf, ETags
<1>3. [data |-> blob.data, etag |-> EtagOf(blob)] \in Reads
  BY <1>1, <1>2 DEF Reads
<1> QED
  BY <1>1, <1>3 DEF RightRead, EtagOf

\* A request is served.
LEMMA ServeLemma ==
  ASSUME CloudInv, NEW r \in wire, Serve(r)
  PROVE  CloudInv'
<1>1. CASE r.op = "get" /\ blob = None
  <2>1. AnswerStep(r, 404, None) /\ UNCHANGED <<blob, served>>
    BY <1>1 DEF Serve, AnswerStep
  <2> QED
    BY <1>1, <2>1, NoWriteLemma DEF IsPut, Statuses
<1>2. CASE r.op = "get" /\ blob # None
  <2> DEFINE x == [data |-> blob.data, etag |-> EtagOf(blob)]
  <2>1. AnswerStep(r, 200, x) /\ UNCHANGED <<blob, served>>
    BY <1>2 DEF Serve, AnswerStep
  <2>2. x \in Reads /\ RightRead(x)
    BY <1>2, FoundLemma
  <2> HIDE DEF x
  <2>3. 200 \in Statuses /\ ~IsPut(r)
    BY <1>2 DEF Statuses, IsPut
  <2> QED
    BY <2>1, <2>2, <2>3, NoWriteLemma
<1>3. CASE r.op = "put" /\ Holds(r.cond)
  <2>1. /\ AnswerStep(r, 200, None)
        /\ blob' = [data |-> r.data, version |-> IF blob = None THEN 1 ELSE blob.version + 1]
        /\ served' = served \cup {r}
    BY <1>3 DEF Serve, AnswerStep
  <2> QED
    BY <1>3, <2>1, WriteLemma DEF IsPut
<1>4. CASE r.op = "put" /\ ~Holds(r.cond)
  <2>1. AnswerStep(r, 412, None) /\ UNCHANGED <<blob, served>>
    BY <1>4 DEF Serve, AnswerStep
  <2> QED
    BY <1>4, <2>1, NoWriteLemma DEF IsPut, Statuses
<1> QED
  BY <1>1, <1>2, <1>3, <1>4 DEF Serve

\* It is refused, or lost.
LEMMA RefuseLemma ==
  ASSUME CloudInv, NEW r \in wire, NEW status \in {403, 409, 503}, Refuse(r, status)
  PROVE  CloudInv'
<1>1. AnswerStep(r, status, None) /\ UNCHANGED <<blob, served>>
  BY DEF Refuse, AnswerStep
<1> QED
  BY <1>1, NoWriteLemma DEF Statuses

LEMMA LoseLemma ==
  ASSUME CloudInv, NEW r \in wire, Lose(r)
  PROVE  CloudInv'
<1>1. AnswerStep(r, 503, None) /\ UNCHANGED <<blob, served>>
  BY DEF Lose, AnswerStep, Answered
<1> QED
  BY <1>1, NoWriteLemma DEF Statuses

-----------------------------------------------------------------------------
(* Theorems.                                                               *)

LEMMA CloudInitLemma == Init => CloudInv
<1> SUFFICES ASSUME Init PROVE CloudInv
  OBVIOUS
<1>1. CloudTypeOK
  BY CloudAssumption DEF Init, CloudTypeOK
<1>2. Writing /\ OneWriteEach /\ Holding /\ \A c \in Clients : Tells(c)
  BY DEF Init, Writing, OneWriteEach, Holding, Tells
<1> QED
  BY <1>1, <1>2 DEF CloudInv

LEMMA CloudStutterLemma == CloudInv /\ UNCHANGED vars => CloudInv'
BY DEF CloudInv, vars, CloudTypeOK, Writing, OneWriteEach, Holding, Tells, MadeFrom, RightRead,
       Known, Started, Begun

LEMMA CloudStepLemma == CloudInv /\ [Next]_vars => CloudInv'
<1> SUFFICES ASSUME CloudInv, [Next]_vars PROVE CloudInv'
  OBVIOUS
<1>1. ASSUME NEW c \in Clients, Get(c) PROVE CloudInv'
  BY <1>1, GetLemma
<1>2. ASSUME NEW c \in Clients, PutIfMatch(c) PROVE CloudInv'
  BY <1>2, PutLemma
<1>3. ASSUME NEW c \in Clients, EndGet(c) \/ GetFails(c) PROVE CloudInv'
  BY <1>3, GotLemma
<1>4. ASSUME NEW c \in Clients, NEW status, EndPut(c, status) PROVE CloudInv'
  BY <1>4, EndPutLemma
<1>5. ASSUME NEW r \in wire, Serve(r) PROVE CloudInv'
  BY <1>5, ServeLemma
<1>6. ASSUME NEW r \in wire, Lose(r) PROVE CloudInv'
  BY <1>6, LoseLemma
<1>7. ASSUME NEW r \in wire, NEW status \in {403, 409, 503}, Refuse(r, status) PROVE CloudInv'
  BY <1>7, RefuseLemma
<1>8. CASE UNCHANGED vars
  BY <1>8, CloudStutterLemma
<1> QED
  BY <1>1, <1>2, <1>3, <1>4, <1>5, <1>6, <1>7, <1>8 DEF Next

LEMMA CloudInvariance == Spec => []CloudInv
BY CloudInitLemma, CloudStepLemma, PTL DEF Spec

\* The requests, answers, ETags and calls of the cloud clients are well formed,
\* and an answer is only there for the request that its client waits for.
THEOREM CloudTyped == Spec => []CloudTypeOK
<1>1. CloudInv => CloudTypeOK
  BY DEF CloudInv
<1> QED
  BY <1>1, CloudInvariance, PTL

\* An addition whose put_if_match returned true stays in the blob, for any
\* number of clients, whatever is lost, refused or answered late, and whatever
\* the service's ETags are.
THEOREM AckedStaysTheorem == Spec => []AckedStays
<1>1. CloudInv => AckedStays
  BY DEF CloudInv, Holding, AckedStays
<1> QED
  BY <1>1, CloudInvariance, PTL

-----------------------------------------------------------------------------
(* The clients implement BlobStore.                                        *)

\* The state of BlobStore.
PromiseBlob == IF blob = None THEN {} ELSE blob.data
Waiting     == {AsWrite(r) : r \in {q \in wire : q.op = "put"}}
Effective   == {AsWrite(r) : r \in served}
Last        == [c \in Clients |-> IF put[c] = None THEN None ELSE AsWrite(put[c])]

\* A write of the trait tells which request it is.
LEMMA AsWriteLemma ==
  ASSUME CloudInv, NEW r \in wire \cup served, NEW q \in wire \cup served,
         IsPut(r), IsPut(q), AsWrite(r) = AsWrite(q)
  PROVE  r = q
<1>1. AsWrite(r).id = AsWrite(q).id
  OBVIOUS
<1>2. r.by = q.by /\ r.n = q.n
  BY <1>1 DEF AsWrite, Addition
<1> QED
  BY <1>2 DEF CloudInv, OneWriteEach

LEMMA AsWriteFields ==
  ASSUME NEW r
  PROVE  /\ AsWrite(r).by = r.by /\ AsWrite(r).data = r.data
         /\ AsWrite(r).from = r.data \ {Own(r)}
         /\ AsWrite(r).id = Own(r)
         /\ AsWrite(r).conditional = (r.cond # <<"any">>)
BY DEF AsWrite, Own

\* The waiting writes without one that is gone.
LEMMA WaitingLemma ==
  ASSUME CloudInv, NEW r \in wire, wire' = wire \ {r}
  PROVE  IF IsPut(r) THEN AsWrite(r) \in Waiting /\ Waiting' = Waiting \ {AsWrite(r)}
                     ELSE Waiting' = Waiting
<1>1. CASE IsPut(r)
  <2>1. AsWrite(r) \in Waiting
    BY <1>1 DEF Waiting, IsPut
  <2>2. \A q \in wire : q.op = "put" /\ AsWrite(q) = AsWrite(r) => q = r
    BY <1>1, AsWriteLemma DEF IsPut
  <2>3. Waiting' = Waiting \ {AsWrite(r)}
    BY <1>1, <2>2 DEF Waiting, IsPut, AsWrite
  <2> QED
    BY <1>1, <2>1, <2>3
<1>2. CASE ~IsPut(r)
  BY <1>2 DEF Waiting, IsPut, AsWrite
<1> QED
  BY <1>1, <1>2

\* A request that does not write the blob is, for the trait, a write that never
\* takes effect, or nothing.
LEMMA DropLemma ==
  ASSUME CloudInv, NEW r \in wire, wire' = wire \ {r}, UNCHANGED <<blob, served, put, said>>
  PROVE  Promise!Next \/ UNCHANGED Promise!vars
<1>1. PromiseBlob' = PromiseBlob /\ Effective' = Effective /\ Last' = Last
  BY DEF PromiseBlob, Effective, Last, AsWrite
<1>2. CASE IsPut(r)
  <2>1. AsWrite(r) \in Waiting /\ Waiting' = Waiting \ {AsWrite(r)}
    BY <1>2, WaitingLemma
  <2>2. Promise!Drop(AsWrite(r))
    BY <1>1, <2>1 DEF Promise!Drop, PromiseBlob, Waiting, Effective, Last
  <2> QED
    BY <2>1, <2>2 DEF Promise!Next, Waiting
<1>3. CASE ~IsPut(r)
  BY <1>1, <1>3, WaitingLemma DEF Promise!vars, PromiseBlob, Waiting, Effective, Last
<1> QED
  BY <1>2, <1>3

\* A write that is performed takes effect on the content it was made from.
LEMMA TakeEffectLemma ==
  ASSUME CloudInv, NEW r \in wire, IsPut(r), Holds(r.cond), wire' = wire \ {r},
         blob' = [data |-> r.data, version |-> IF blob = None THEN 1 ELSE blob.version + 1],
         served' = served \cup {r}, UNCHANGED <<put, said>>
  PROVE  Promise!Next
<1>1. AsWrite(r) \in Waiting /\ Waiting' = Waiting \ {AsWrite(r)}
  BY WaitingLemma
<1>2. AsWrite(r).conditional => PromiseBlob = AsWrite(r).from
  BY HoldsLemma, AsWriteFields DEF PromiseBlob
<1>3. PromiseBlob' = AsWrite(r).data
  <2>1. r.data \in Contents
    BY RequestsLemma DEF CloudInv, CloudTypeOK
  <2>2. blob' \in Blobs
    BY <2>1, BlobLemma DEF Blobs, CloudInv, CloudTypeOK
  <2> QED
    BY <2>2, BlobLemma, AsWriteFields DEF PromiseBlob
<1>4. Effective' = Effective \cup {AsWrite(r)}
  BY DEF Effective, AsWrite
<1>5. Last' = Last
  BY DEF Last, AsWrite
<1>6. Promise!TakeEffect(AsWrite(r))
  BY <1>1, <1>2, <1>3, <1>4, <1>5
  DEF Promise!TakeEffect, PromiseBlob, Waiting, Effective, Last
<1> QED
  BY <1>1, <1>6 DEF Promise!Next, Waiting

\* put_if_match begins a write that the trait has not seen.
LEMMA BeginLemma ==
  ASSUME CloudInv, NEW c \in Clients, PutIfMatch(c)
  PROVE  Promise!Next
<1>a. PICK x : x = read[c]
  OBVIOUS
<1>b. PICK r : r = Request(c, "put", x.data \cup {Addition(c, calls[c])}, Condition(x))
  OBVIOUS
<1>1. CloudTypeOK /\ Writing /\ Tells(c)
  BY DEF CloudInv
<1>2. call[c] = None /\ x \in Reads /\ calls[c] < MaxCalls /\ said[c] # "busy"
  BY <1>1, <1>a DEF PutIfMatch, CloudTypeOK, Tells
<1>3. /\ calls[c] \in 0 .. MaxCalls - 1 /\ x.data \subseteq Additions
      /\ Addition(c, calls[c]) \in Additions
  BY <1>1, <1>2, AdditionsLemma, ReadLemma, CloudAssumption DEF CloudTypeOK, Contents
<1>4. /\ r.by = c /\ r.n = calls[c] /\ r.op = "put"
      /\ r.data = x.data \cup {Addition(c, calls[c])}
  BY <1>b DEF Request
<1>5. /\ wire' = wire \cup {r} /\ put' = [put EXCEPT ![c] = r]
      /\ said' = [said EXCEPT ![c] = "busy"] /\ UNCHANGED <<blob, served>>
  BY <1>a, <1>b DEF PutIfMatch, Send
<1>6. r # None
  <2>1. Condition(x) \in Conditions /\ day \in Days /\ x.data \cup {Addition(c, calls[c])} \in Contents
    BY <1>1, <1>2, <1>3, ConditionLemma DEF CloudTypeOK, Contents
  <2>2. r \in Requests
    BY <1>3, <1>b, <2>1 DEF Request, Requests
  <2> QED
    BY <2>2, RequestsLemma
<1> DEFINE w == AsWrite(r)
<1>7. /\ w.by = c /\ w.id = Own(r) /\ Own(r) = Addition(c, calls[c])
  BY <1>4, AsWriteFields DEF Own
<1>8. w \notin Waiting \cup Effective
  <2> SUFFICES ASSUME NEW q \in wire \cup served, IsPut(q), w = AsWrite(q) PROVE FALSE
    BY <1>1 DEF Waiting, Effective, Writing, IsPut
  <2>1. AsWrite(q).id = AsWrite(r).id
    OBVIOUS
  <2>2. q.by = c /\ q.n = calls[c]
    BY <1>4, <2>1 DEF AsWrite, Addition
  <2>3. Begun(q) /\ q \in Requests /\ q # None /\ q.n \in Nat
    BY <1>1, RequestsLemma DEF Writing, CloudTypeOK
  <2> QED
    BY <1>2, <2>2, <2>3 DEF Begun
<1>9. w \in Writes
  <2>1. PICK a, b, d : a = Own(r) /\ b = (r.cond # <<"any">>) /\ d = r.data \ {Own(r)}
    OBVIOUS
  <2>2. a \in Additions /\ b \in BOOLEAN /\ d \in Contents
    BY <1>3, <1>4, <1>7, <2>1 DEF Contents
  <2>3. w = Write(a, b, d)
    <3>1. a[1] = c /\ r.data = d \cup {a}
      BY <1>4, <1>7, <2>1 DEF Addition
    <3> QED
      BY <1>4, <2>1, <3>1 DEF AsWrite, Write, Own
  <2>4. Write(a, b, d) \in Writes
    <3> DEFINE p == <<a, b, d>>
    <3>1. p \in Additions \X BOOLEAN \X Contents
      BY <2>2, Zenon
    <3>2. Write(a, b, d) = Write(p[1], p[2], p[3])
      BY Zenon
    <3> HIDE DEF p
    <3> QED
      BY <3>1, <3>2, Zenon DEF Writes
  <2> QED
    BY <2>3, <2>4
<1>10. Waiting' = Waiting \cup {w}
  BY <1>4, <1>5 DEF Waiting, AsWrite
<1>11. Last' = [Last EXCEPT ![c] = w]
  BY <1>1, <1>5, <1>6 DEF Last, AsWrite, CloudTypeOK
<1>12. PromiseBlob' = PromiseBlob /\ Effective' = Effective
  BY <1>5 DEF PromiseBlob, Effective, AsWrite
<1> HIDE DEF w
<1>13. Promise!Begin(w)
  BY <1>2, <1>5, <1>7, <1>8, <1>10, <1>11, <1>12
  DEF Promise!Begin, PromiseBlob, Waiting, Effective, Last
<1> QED
  BY <1>9, <1>13 DEF Promise!Next

\* put_if_match reports what has become of the write.
LEMMA TellLemma ==
  ASSUME CloudInv, NEW c \in Clients, NEW status, EndPut(c, status)
  PROVE  Promise!Next
<1>1. CloudTypeOK /\ Writing /\ Tells(c)
  BY DEF CloudInv
<1>2. /\ call[c] # None /\ call[c].op = "put"
      /\ said' = [said EXCEPT ![c] = Meaning(status)]
      /\ UNCHANGED <<blob, wire, put, served>>
  BY DEF EndPut, Finished
<1>3. said[c] = "busy" /\ put[c] = call[c] /\ call[c] \in Requests
  BY <1>1, <1>2 DEF CloudTypeOK, Tells, IsPut
<1>4. Last[c] = AsWrite(call[c])
  BY <1>2, <1>3 DEF Last
<1>5. Meaning(status) \in {"written", "conflict", "error"}
  BY DEF Meaning
<1>6. Meaning(status) = "written" => Last[c] \in Effective
  <2> SUFFICES ASSUME Meaning(status) = "written" PROVE Last[c] \in Effective
    OBVIOUS
  <2>1. status = 200
    BY DEF Meaning
  <2>2. answer[c] # None /\ answer[c].status = 200
    BY <2>1 DEF EndPut
  <2> QED
    BY <1>1, <1>2, <1>4, <2>2 DEF Tells, IsPut, Effective
<1>7. Meaning(status) = "conflict" => Last[c] \notin Effective \cup Waiting
  <2> SUFFICES ASSUME Meaning(status) = "conflict", NEW q \in wire \cup served, IsPut(q),
                      AsWrite(q) = AsWrite(call[c])
               PROVE  FALSE
    BY <1>1, <1>4 DEF Waiting, Effective, Writing, IsPut
  <2>1. status \in {409, 412}
    BY DEF Meaning
  <2>2. answer[c] # None /\ answer[c].status \in {409, 412}
    BY <2>1 DEF EndPut
  <2>3. call[c] \notin wire \cup served
    BY <1>1, <1>2, <2>2 DEF Tells, IsPut
  <2>4. AsWrite(q).id = AsWrite(call[c]).id
    OBVIOUS
  <2>5. q.by = c /\ q.n = calls[c]
    BY <1>1, <1>2, <2>4 DEF AsWrite, Addition, Tells
  <2>6. Begun(q) /\ q.n \in Nat
    BY <1>1, RequestsLemma DEF Writing, CloudTypeOK
  <2> QED
    BY <2>3, <2>5, <2>6 DEF Begun
<1>8. Waiting' = Waiting /\ Effective' = Effective /\ Last' = Last /\ PromiseBlob' = PromiseBlob
  BY <1>2 DEF PromiseBlob, Waiting, Effective, Last, AsWrite
<1>9. Promise!Tell(c, Meaning(status))
  BY <1>2, <1>3, <1>6, <1>7, <1>8 DEF Promise!Tell, PromiseBlob, Waiting, Effective, Last
<1> QED
  BY <1>5, <1>9 DEF Promise!Next

\* A get that begins or ends is nothing to the trait.
LEMMA GetIsNothing ==
  ASSUME CloudInv, NEW c \in Clients, Get(c) \/ EndGet(c) \/ GetFails(c)
  PROVE  UNCHANGED Promise!vars
<1>1. UNCHANGED <<blob, served, put, said>>
  BY DEF Get, EndGet, GetFails
<1>2. Waiting' = Waiting
  <2>1. CASE Get(c)
    <3> DEFINE r == Request(c, "get", {}, <<"any">>)
    <3>1. wire' = wire \cup {r}
      BY <2>1 DEF Get, Send
    <3>2. r.op # "put"
      BY DEF Request
    <3> HIDE DEF r
    <3> QED
      BY <3>1, <3>2 DEF Waiting, AsWrite
  <2>2. CASE EndGet(c) \/ GetFails(c)
    BY <2>2 DEF EndGet, GetFails, Waiting, AsWrite
  <2> QED
    BY <2>1, <2>2
<1>3. PromiseBlob' = PromiseBlob /\ Effective' = Effective /\ Last' = Last
  BY <1>1 DEF PromiseBlob, Effective, Last, AsWrite
<1> QED
  BY <1>1, <1>2, <1>3 DEF Promise!vars, PromiseBlob, Waiting, Effective, Last

\* The clients of S3, GCS and Azure implement trait Bucket's promise: a write
\* takes effect at most once and only on the content it was made from, true is
\* returned only for a write that has taken effect, and false only for one that
\* has not and never will.
THEOREM KeepsPromiseTheorem == Spec => KeepsPromise
<1>1. Init => Promise!Init
  BY DEF Init, Promise!Init
<1>2. CloudInv /\ [Next]_vars => [Promise!Next]_Promise!vars
  <2> SUFFICES ASSUME CloudInv, [Next]_vars PROVE Promise!Next \/ UNCHANGED Promise!vars
    OBVIOUS
  <2>1. ASSUME NEW c \in Clients, Get(c) \/ EndGet(c) \/ GetFails(c)
        PROVE  UNCHANGED Promise!vars
    BY <2>1, GetIsNothing
  <2>2. ASSUME NEW c \in Clients, PutIfMatch(c) PROVE Promise!Next
    BY <2>2, BeginLemma
  <2>3. ASSUME NEW c \in Clients, NEW status, EndPut(c, status) PROVE Promise!Next
    BY <2>3, TellLemma
  <2>4. ASSUME NEW r \in wire, Serve(r) PROVE Promise!Next \/ UNCHANGED Promise!vars
    <3>1. CASE r.op = "put" /\ Holds(r.cond)
      BY <2>4, <3>1, TakeEffectLemma DEF Serve, IsPut
    <3>2. CASE ~(r.op = "put" /\ Holds(r.cond))
      BY <2>4, <3>2, DropLemma DEF Serve
    <3> QED
      BY <3>1, <3>2
  <2>5. ASSUME NEW r \in wire, Lose(r) PROVE Promise!Next \/ UNCHANGED Promise!vars
    BY <2>5, DropLemma DEF Lose
  <2>6. ASSUME NEW r \in wire, NEW status, Refuse(r, status)
        PROVE  Promise!Next \/ UNCHANGED Promise!vars
    BY <2>6, DropLemma DEF Refuse
  <2>7. CASE UNCHANGED vars
    BY <2>7 DEF vars, Promise!vars, AsWrite
  <2> QED
    BY <2>1, <2>2, <2>3, <2>4, <2>5, <2>6, <2>7 DEF Next
<1> QED
  BY <1>1, <1>2, CloudInvariance, PTL DEF Spec, KeepsPromise, Promise!Spec

-----------------------------------------------------------------------------
(* The dates. Divisions are replaced by their inequalities (Floor) before   *)
(* Z3 is asked: every leaf is then linear.                                  *)

\* Floor division, as inequalities.
LEMMA DivLemma ==
  ASSUME NEW a \in Int, NEW b \in Nat \ {0}
  PROVE  /\ a \div b \in Int /\ b * (a \div b) <= a /\ a < b * (a \div b) + b
         /\ a % b = a - b * (a \div b)
BY Z3

\* The calendar repeats every 400 years.
LEMMA LeapLemma ==
  ASSUME NEW e \in Int, NEW k \in Int
  PROVE  Leap(k + e * 400) <=> Leap(k)
<1> DEFINE y == k + e * 400
<1>1. \A n \in {4, 100, 400} : y \div n \in Int /\ k \div n \in Int
  BY DivLemma, Z3
<1>2. y % 4 = k % 4
  <2>1. /\ 4 * (y \div 4) <= y /\ y < 4 * (y \div 4) + 4 /\ y % 4 = y - 4 * (y \div 4)
        /\ 4 * (k \div 4) <= k /\ k < 4 * (k \div 4) + 4 /\ k % 4 = k - 4 * (k \div 4)
    BY DivLemma, Z3
  <2> QED
    BY <1>1, <2>1, Z3
<1>3. y % 100 = k % 100
  <2>1. /\ 100 * (y \div 100) <= y /\ y < 100 * (y \div 100) + 100 /\ y % 100 = y - 100 * (y \div 100)
        /\ 100 * (k \div 100) <= k /\ k < 100 * (k \div 100) + 100 /\ k % 100 = k - 100 * (k \div 100)
    BY DivLemma, Z3
  <2> QED
    BY <1>1, <2>1, Z3
<1>4. y % 400 = k % 400
  <2>1. /\ 400 * (y \div 400) <= y /\ y < 400 * (y \div 400) + 400 /\ y % 400 = y - 400 * (y \div 400)
        /\ 400 * (k \div 400) <= k /\ k < 400 * (k \div 400) + 400 /\ k % 400 = k - 400 * (k \div 400)
    BY DivLemma, Z3
  <2> QED
    BY <1>1, <2>1, Z3
<1> QED
  BY <1>2, <1>3, <1>4, Z3 DEF Leap

\* q is the floor of a / b.
Floor(q, a, b) == q \in Int /\ b * q <= a /\ a < b * q + b

LEMMA FloorLemma ==
  ASSUME NEW a \in Int, NEW b \in Nat \ {0}
  PROVE  Floor(a \div b, a, b)
BY DivLemma, Z3 DEF Floor

\* The years of an era (from March to February) and the days of its years.
YearOfEra(doe) == (doe - doe \div 1460 + doe \div 36524 - doe \div 146096) \div 365
DayOfYear(doe) ==
  doe - (365 * YearOfEra(doe) + YearOfEra(doe) \div 4 - YearOfEra(doe) \div 100)

\* What they are, without divisions.
YearFacts(doe, y, d, a, b, c, p, q) ==
  /\ doe \in Int /\ 0 <= doe /\ doe <= 146096 /\ y \in Int /\ d \in Int
  /\ Floor(a, doe, 1460) /\ Floor(b, doe, 36524) /\ Floor(c, doe, 146096)
  /\ Floor(y, doe - a + b - c, 365)
  /\ Floor(p, y, 4) /\ Floor(q, y, 100)
  /\ d = doe - (365 * y + p - q)

LEMMA YearFactsLemma ==
  ASSUME NEW doe \in Int, 0 <= doe, doe <= 146096
  PROVE  \E a, b, c, p, q : YearFacts(doe, YearOfEra(doe), DayOfYear(doe), a, b, c, p, q)
<1> DEFINE a == doe \div 1460
           b == doe \div 36524
           c == doe \div 146096
           y == YearOfEra(doe)
           p == y \div 4
           q == y \div 100
<1>1. Floor(a, doe, 1460) /\ Floor(b, doe, 36524) /\ Floor(c, doe, 146096)
  BY FloorLemma, Z3
<1>2. y = (doe - a + b - c) \div 365 /\ DayOfYear(doe) = doe - (365 * y + p - q)
  BY Z3 DEF YearOfEra, DayOfYear
<1> HIDE DEF a, b, c
<1>3. doe - a + b - c \in Int
  BY <1>1, Z3 DEF Floor
<1> HIDE DEF y
<1>4. Floor(y, doe - a + b - c, 365)
  BY <1>2, <1>3, FloorLemma, Z3
<1>5. y \in Int
  BY <1>4, Z3 DEF Floor
<1>6. Floor(p, y, 4) /\ Floor(q, y, 100)
  BY <1>5, FloorLemma, Z3
<1> HIDE DEF p, q
<1>7. YearFacts(doe, y, DayOfYear(doe), a, b, c, p, q)
  BY <1>1, <1>2, <1>4, <1>5, <1>6, Z3 DEF YearFacts, Floor
<1> QED
  BY <1>7, Z3 DEF y

\* A leap year, without remainders.
LeapFacts(y, p, q, s) ==
  /\ Floor(p, y, 4) /\ Floor(q, y, 100) /\ Floor(s, y, 400)
  /\ Leap(y) <=> y = 4 * p /\ (y # 100 * q \/ y = 400 * s)

LEMMA LeapFactsLemma ==
  ASSUME NEW y \in Int
  PROVE  \E p, q, s : LeapFacts(y, p, q, s)
<1> DEFINE p == y \div 4
           q == y \div 100
           s == y \div 400
<1>a. Floor(p, y, 4) /\ Floor(q, y, 100) /\ Floor(s, y, 400)
  BY FloorLemma, Z3
<1>b. y % 4 = y - 4 * p /\ y % 100 = y - 100 * q /\ y % 400 = y - 400 * s
  BY DivLemma, Z3
<1> HIDE DEF p, q, s
<1>2. Leap(y) <=> y = 4 * p /\ (y # 100 * q \/ y = 400 * s)
  BY <1>a, <1>b, Z3 DEF Leap, Floor
<1>3. LeapFacts(y, p, q, s)
  BY <1>a, <1>2, Z3 DEF LeapFacts
<1> QED
  BY <1>3, Z3

\* A day of the era is a day of one of its 400 years; only leap years have the
\* 366th.
LEMMA YearLemma ==
  ASSUME NEW doe \in Int, 0 <= doe, doe <= 146096
  PROVE  /\ YearOfEra(doe) \in 0 .. 399 /\ DayOfYear(doe) \in 0 .. 365
         /\ DayOfYear(doe) = 365 => Leap(YearOfEra(doe) + 1)
<1>1. PICK y, d : y = YearOfEra(doe) /\ d = DayOfYear(doe)
  BY Z3
<1>2. PICK a, b, c, p, q : YearFacts(doe, y, d, a, b, c, p, q)
  BY <1>1, YearFactsLemma, Z3
<1>3. y \in 0 .. 399 /\ d \in 0 .. 365
  BY <1>2, Z3 DEF YearFacts, Floor
<1>4. PICK p1, q1, s1 : LeapFacts(y + 1, p1, q1, s1)
  BY <1>3, LeapFactsLemma, Z3
<1>5. d = 365 => Leap(y + 1)
  BY <1>2, <1>3, <1>4, Z3 DEF YearFacts, LeapFacts, Floor
<1> QED
  BY <1>1, <1>3, <1>5, Z3

\* The next day is the next day of the year, or the first of the next year.
LEMMA NextInEra ==
  ASSUME NEW doe \in Int, 0 <= doe, doe < 146096
  PROVE  \/ YearOfEra(doe + 1) = YearOfEra(doe) /\ DayOfYear(doe + 1) = DayOfYear(doe) + 1
         \/ /\ YearOfEra(doe + 1) = YearOfEra(doe) + 1 /\ DayOfYear(doe + 1) = 0
            /\ DayOfYear(doe) = IF Leap(YearOfEra(doe) + 1) THEN 365 ELSE 364
<1>0. PICK e : e = doe + 1 /\ e \in Int /\ 0 <= e /\ e <= 146096
  BY Z3
<1>1. PICK y, d, Y, D : /\ y = YearOfEra(doe) /\ d = DayOfYear(doe)
                        /\ Y = YearOfEra(e) /\ D = DayOfYear(e)
  BY Z3
<1>2. PICK a, b, c, p, q : YearFacts(doe, y, d, a, b, c, p, q)
  BY <1>1, YearFactsLemma, Z3
<1>3. PICK A, B, C, P, Q : YearFacts(e, Y, D, A, B, C, P, Q)
  BY <1>0, <1>1, YearFactsLemma, Z3
<1>4. /\ y \in 0 .. 399 /\ d \in 0 .. 365 /\ Y \in 0 .. 399 /\ D \in 0 .. 365
      /\ d = 365 => Leap(y + 1)
  BY <1>0, <1>1, YearLemma, Z3
<1>5. PICK p1, q1, s1 : LeapFacts(y + 1, p1, q1, s1)
  BY <1>4, LeapFactsLemma, Z3
<1>6. Y = y \/ Y = y + 1
  BY <1>0, <1>2, <1>3, <1>4, Z3 DEF YearFacts, Floor
<1>7. CASE Y = y
  <2>1. D = d + 1
    BY <1>0, <1>2, <1>3, <1>7, Z3 DEF YearFacts, Floor
  <2> QED
    BY <1>0, <1>1, <1>7, <2>1, Z3
<1>8. CASE Y = y + 1
  <2>1. D = 0 /\ (Leap(y + 1) => d = 365) /\ (~Leap(y + 1) => d = 364)
    BY <1>0, <1>2, <1>3, <1>4, <1>5, <1>8, Z3 DEF YearFacts, LeapFacts, Floor
  <2> QED
    BY <1>0, <1>1, <1>8, <2>1, Z3
<1> QED
  BY <1>6, <1>7, <1>8, Z3

\* The months from March on, and their days.
MonthOf(doy) == (5 * doy + 2) \div 153
DayOf(doy)   == doy - (153 * MonthOf(doy) + 2) \div 5 + 1

MonthFacts(doy, mp, d, g) ==
  /\ doy \in Int /\ 0 <= doy /\ doy <= 365 /\ d \in Int
  /\ Floor(mp, 5 * doy + 2, 153) /\ Floor(g, 153 * mp + 2, 5)
  /\ d = doy - g + 1

LEMMA MonthFactsLemma ==
  ASSUME NEW doy \in Int, 0 <= doy, doy <= 365
  PROVE  \E g : MonthFacts(doy, MonthOf(doy), DayOf(doy), g)
<1> DEFINE mp == MonthOf(doy)
           g  == (153 * mp + 2) \div 5
<1>1. Floor(mp, 5 * doy + 2, 153)
  BY FloorLemma, Z3 DEF MonthOf
<1>2. DayOf(doy) = doy - g + 1
  BY Z3 DEF DayOf
<1> HIDE DEF mp
<1>3. PICK h \in Int : h = 153 * mp + 2
  BY <1>1, Z3 DEF Floor
<1>4. Floor(g, 153 * mp + 2, 5)
  BY <1>3, FloorLemma, Z3
<1> HIDE DEF g
<1>5. MonthFacts(doy, mp, DayOf(doy), g)
  BY <1>1, <1>2, <1>4, Z3 DEF MonthFacts, Floor
<1> QED
  BY <1>5, Z3 DEF mp

\* The length of a month counted from March, February's in a leap year.
MarchLength(mp) == IF mp = 11 THEN 29 ELSE IF mp \in {1, 3, 6, 8} THEN 30 ELSE 31

LEMMA MonthLemma ==
  ASSUME NEW doy \in Int, 0 <= doy, doy <= 365
  PROVE  /\ MonthOf(doy) \in 0 .. 11 /\ DayOf(doy) \in 1 .. MarchLength(MonthOf(doy))
         /\ MonthOf(doy) = 11 => DayOf(doy) = doy - 336
         /\ MonthOf(doy) < 11 => doy < 337
         /\ doy = (153 * MonthOf(doy) + 2) \div 5 + DayOf(doy) - 1
<1>1. PICK mp, d : mp = MonthOf(doy) /\ d = DayOf(doy)
  BY Z3
<1>2. PICK g : MonthFacts(doy, mp, d, g)
  BY <1>1, MonthFactsLemma, Z3
<1>3. mp \in 0 .. 11
  BY <1>2, Z3 DEF MonthFacts, Floor
<1>4. d \in 1 .. MarchLength(mp) /\ (mp = 11 => d = doy - 336) /\ (mp < 11 => doy < 337)
  BY <1>2, <1>3, Z3 DEF MonthFacts, Floor, MarchLength
<1>5. (153 * mp + 2) \div 5 \in Int
  BY <1>3, DivLemma, Z3
<1>6. doy = (153 * mp + 2) \div 5 + d - 1
  BY <1>1, <1>2, <1>3, <1>5, Z3 DEF DayOf, MonthFacts
<1> QED
  BY <1>1, <1>3, <1>4, <1>6, Z3

\* The next day of a year is the next day of the month, or the first of the next.
LEMMA NextInYear ==
  ASSUME NEW doy \in Int, 0 <= doy, doy < 365
  PROVE  \/ MonthOf(doy + 1) = MonthOf(doy) /\ DayOf(doy + 1) = DayOf(doy) + 1
         \/ /\ MonthOf(doy + 1) = MonthOf(doy) + 1 /\ DayOf(doy + 1) = 1
            /\ DayOf(doy) = MarchLength(MonthOf(doy)) /\ MonthOf(doy) < 11
<1>0. PICK e : e = doy + 1 /\ e \in Int /\ 0 <= e /\ e <= 365
  BY Z3
<1>1. PICK m, d, M, D : /\ m = MonthOf(doy) /\ d = DayOf(doy)
                        /\ M = MonthOf(e) /\ D = DayOf(e)
  BY Z3
<1>2. PICK g : MonthFacts(doy, m, d, g)
  BY <1>1, MonthFactsLemma, Z3
<1>3. PICK G : MonthFacts(e, M, D, G)
  BY <1>0, <1>1, MonthFactsLemma, Z3
<1>4. m \in 0 .. 11 /\ M \in 0 .. 11
  BY <1>2, <1>3, Z3 DEF MonthFacts, Floor
<1>5. M = m \/ M = m + 1
  BY <1>0, <1>2, <1>3, Z3 DEF MonthFacts, Floor
<1>6. CASE M = m
  <2>1. D = d + 1
    BY <1>0, <1>2, <1>3, <1>6, Z3 DEF MonthFacts, Floor
  <2> QED
    BY <1>0, <1>1, <1>6, <2>1, Z3
<1>7. CASE M = m + 1
  <2>1. D = 1 /\ m < 11 /\ d = MarchLength(m)
    BY <1>0, <1>2, <1>3, <1>4, <1>7, Z3 DEF MonthFacts, Floor, MarchLength
  <2> QED
    BY <1>0, <1>1, <1>7, <2>1, Z3
<1> QED
  BY <1>5, <1>6, <1>7, Z3

\* Eras of 400 years: Trunc is made to be the floor here.
EraOf(z) == Trunc(IF z >= 0 THEN z ELSE z - 146096, 146097)

LEMMA EraLemma ==
  ASSUME NEW z \in Int
  PROVE  Floor(EraOf(z), z, 146097)
<1>1. CASE z >= 0
  BY <1>1, FloorLemma, Z3 DEF EraOf, Trunc
<1>2. CASE z < 0
  <2> DEFINE w == 146096 - z
             q == w \div 146097
  <2>1. w \in Int /\ -(z - 146096) = w /\ z - 146096 < 0
    BY <1>2, Z3
  <2>2. EraOf(z) = -q
    BY <1>2, <2>1, Z3 DEF EraOf, Trunc
  <2>3. Floor(q, w, 146097)
    BY <2>1, FloorLemma, Z3
  <2> HIDE DEF q
  <2> QED
    BY <1>2, <2>2, <2>3, Z3 DEF Floor
<1> QED
  BY <1>1, <1>2, Z3

\* The same for the years.
EraOfYear(y) == Trunc(IF y >= 0 THEN y ELSE y - 399, 400)

LEMMA EraOfYearLemma ==
  ASSUME NEW y \in Int
  PROVE  Floor(EraOfYear(y), y, 400)
<1>1. CASE y >= 0
  BY <1>1, FloorLemma, Z3 DEF EraOfYear, Trunc
<1>2. CASE y < 0
  <2> DEFINE w == 399 - y
             q == w \div 400
  <2>1. w \in Int /\ -(y - 399) = w /\ y - 399 < 0
    BY <1>2, Z3
  <2>2. EraOfYear(y) = -q
    BY <1>2, <2>1, Z3 DEF EraOfYear, Trunc
  <2>3. Floor(q, w, 400)
    BY <2>1, FloorLemma, Z3
  <2> HIDE DEF q
  <2> QED
    BY <1>2, <2>2, <2>3, Z3 DEF Floor
<1> QED
  BY <1>1, <1>2, Z3

\* The date of the day doe of an era.
DateOf(era, doe) ==
  LET mp == MonthOf(DayOfYear(doe))
      m  == IF mp < 10 THEN mp + 3 ELSE mp - 9
  IN  <<YearOfEra(doe) + era * 400 + (IF m <= 2 THEN 1 ELSE 0), m, DayOf(DayOfYear(doe))>>

\* civil_from_days is the date of a day of an era.
LEMMA CivilLemma ==
  ASSUME NEW n \in Int
  PROVE  \E era, doe \in Int : /\ 0 <= doe /\ doe <= 146096
                               /\ n + 719468 = era * 146097 + doe
                               /\ civil_from_days(n) = DateOf(era, doe)
<1>1. PICK z \in Int : z = n + 719468
  BY Z3
<1>2. PICK era : era = EraOf(z) /\ era \in Int /\ 146097 * era <= z /\ z < 146097 * era + 146097
  BY EraLemma, Z3 DEF Floor
<1>3. PICK doe \in Int : doe = z - era * 146097 /\ 0 <= doe /\ doe <= 146096
  BY <1>2, Z3
<1>4. civil_from_days(n) = DateOf(era, doe)
  BY <1>1, <1>2, <1>3, Z3 DEF civil_from_days, DateOf, EraOf, YearOfEra, DayOfYear, MonthOf, DayOf
<1> QED
  BY <1>1, <1>2, <1>3, <1>4, Z3

\* A date of the calendar, and the one after it.
IsCalendarDate(t) == t[2] \in 1 .. 12 /\ t[3] \in 1 .. Length(t[1], t[2])
NextDate(t) ==
  IF t[3] < Length(t[1], t[2]) THEN <<t[1], t[2], t[3] + 1>>
  ELSE IF t[2] < 12 THEN <<t[1], t[2] + 1, 1>> ELSE <<t[1] + 1, 1, 1>>

\* The parts of a date.
DateFacts(era, doe, y, d, mp, k) ==
  /\ y = YearOfEra(doe) /\ d = DayOfYear(doe) /\ mp = MonthOf(d) /\ k = DayOf(d)
  /\ y \in 0 .. 399 /\ d \in 0 .. 365 /\ (d = 365 => Leap(y + 1))
  /\ mp \in 0 .. 11 /\ k \in 1 .. MarchLength(mp)
  /\ mp = 11 => k = d - 336
  /\ mp < 11 => d < 337
  /\ DateOf(era, doe) = IF mp < 10 THEN <<y + era * 400, mp + 3, k>>
                        ELSE <<y + 1 + era * 400, mp - 9, k>>
  /\ mp < 10 => Length(y + era * 400, mp + 3) = MarchLength(mp)
  /\ mp = 10 => Length(y + 1 + era * 400, 1) = 31
  /\ mp = 11 => Length(y + 1 + era * 400, 2) = IF Leap(y + 1) THEN 29 ELSE 28

LEMMA DateOfLemma ==
  ASSUME NEW era \in Int, NEW doe \in Int, 0 <= doe, doe <= 146096
  PROVE  \E y, d, mp, k : DateFacts(era, doe, y, d, mp, k)
<1>1. PICK y, d : y = YearOfEra(doe) /\ d = DayOfYear(doe)
  BY Z3
<1>2. y \in 0 .. 399 /\ d \in 0 .. 365 /\ (d = 365 => Leap(y + 1))
  BY <1>1, YearLemma, Z3
<1>3. PICK mp, k : mp = MonthOf(d) /\ k = DayOf(d)
  BY Z3
<1>4. /\ mp \in 0 .. 11 /\ k \in 1 .. MarchLength(mp)
      /\ (mp = 11 => k = d - 336) /\ (mp < 11 => d < 337)
  BY <1>2, <1>3, MonthLemma, Z3
<1>5. DateOf(era, doe) = IF mp < 10 THEN <<y + era * 400, mp + 3, k>>
                         ELSE <<y + 1 + era * 400, mp - 9, k>>
  <2>1. CASE mp < 10
    BY <1>1, <1>2, <1>3, <1>4, <2>1, Z3 DEF DateOf
  <2>2. CASE mp >= 10
    BY <1>1, <1>2, <1>3, <1>4, <2>2, Z3 DEF DateOf
  <2> QED
    BY <1>4, <2>1, <2>2, Z3
<1>6. mp < 10 => Length(y + era * 400, mp + 3) = MarchLength(mp)
  BY <1>4, Z3 DEF Length, MarchLength
<1>7. Leap(y + 1 + era * 400) <=> Leap(y + 1)
  <2>1. PICK h \in Int : h = y + 1
    BY <1>2, Z3
  <2> QED
    BY <2>1, LeapLemma, Z3
<1>8. /\ mp = 10 => Length(y + 1 + era * 400, 1) = 31
      /\ mp = 11 => Length(y + 1 + era * 400, 2) = IF Leap(y + 1) THEN 29 ELSE 28
  BY <1>7, Z3 DEF Length
<1>9. DateFacts(era, doe, y, d, mp, k)
  BY <1>1, <1>2, <1>3, <1>4, <1>5, <1>6, <1>8, Z3 DEF DateFacts
<1> QED
  BY <1>9, Z3

\* days_from_civil undoes civil_from_days.
LEMMA RoundTripLemma ==
  ASSUME NEW n \in Int
  PROVE  days_from_civil(civil_from_days(n)) = n
<1>1. PICK era, doe \in Int : /\ 0 <= doe /\ doe <= 146096
                              /\ n + 719468 = era * 146097 + doe
                              /\ civil_from_days(n) = DateOf(era, doe)
  BY CivilLemma, Z3
<1>2. PICK y, d, mp, k : DateFacts(era, doe, y, d, mp, k)
  BY <1>1, DateOfLemma, Z3
<1>3. PICK t : t = civil_from_days(n)
  BY Z3
<1>4. PICK Y \in Int : Y = y + era * 400
  BY <1>2, Z3 DEF DateFacts
<1>5. /\ (IF t[2] <= 2 THEN t[1] - 1 ELSE t[1]) = Y
      /\ (IF t[2] > 2 THEN t[2] - 3 ELSE t[2] + 9) = mp
      /\ t[3] = k
  <2>1. CASE mp < 10
    BY <1>1, <1>2, <1>3, <1>4, <2>1, Z3 DEF DateFacts
  <2>2. CASE mp >= 10
    BY <1>1, <1>2, <1>3, <1>4, <2>2, Z3 DEF DateFacts
  <2> QED
    BY <1>2, <2>1, <2>2, Z3 DEF DateFacts
<1>6. EraOfYear(Y) = era
  <2>1. PICK q : q = EraOfYear(Y) /\ q \in Int /\ 400 * q <= Y /\ Y < 400 * q + 400
    BY EraOfYearLemma, Z3 DEF Floor
  <2>2. y \in 0 .. 399
    BY <1>2, Z3 DEF DateFacts
  <2> QED
    BY <1>4, <2>1, <2>2, Z3
<1>7. /\ y \in Int /\ d \in Int /\ 0 <= d /\ d <= 365
      /\ y = YearOfEra(doe) /\ d = DayOfYear(doe) /\ mp = MonthOf(d) /\ k = DayOf(d)
  BY <1>2, Z3 DEF DateFacts
<1>8. d = (153 * mp + 2) \div 5 + k - 1
  BY <1>7, MonthLemma, Z3
<1>9. days_from_civil(t) = era * 146097 + (Y - era * 400) * 365 + (Y - era * 400) \div 4
                             - (Y - era * 400) \div 100 + d - 719468
  BY <1>5, <1>6, <1>8, Z3 DEF days_from_civil, EraOfYear
<1>10. Y - era * 400 = y
  BY <1>4, <1>7, Z3
<1>11. y \in Int /\ d \in Int
  BY <1>7, Z3
<1>12. PICK p, q \in Int : p = y \div 4 /\ q = y \div 100
  BY <1>11, DivLemma, Z3
<1>13. days_from_civil(t) = era * 146097 + y * 365 + p - q + d - 719468
  BY <1>9, <1>10, <1>11, <1>12, Z3
<1>14. d = doe - (365 * y + p - q)
  BY <1>7, <1>12, Z3 DEF DayOfYear
<1> QED
  BY <1>1, <1>3, <1>11, <1>13, <1>14, Z3

\* The weekday of a request is the weekday of its day.
THEOREM WeekdayTheorem == \A n \in Int : signed_date(n)[2] = (n + 4) % 7
<1> SUFFICES ASSUME NEW n \in Int PROVE signed_date(n)[2] = (n + 4) % 7
  BY Z3
<1>1. signed_date(n)[2] = ((n % 7) + 4) % 7
  BY RoundTripLemma, Z3 DEF signed_date
<1>2. PICK q : q = n \div 7 /\ Floor(q, n, 7) /\ n % 7 = n - 7 * q
  BY FloorLemma, DivLemma, Z3
<1>3. PICK h \in Int : h = (n % 7) + 4 /\ h = n + 4 - 7 * q
  BY <1>2, Z3 DEF Floor
<1>4. PICK u : u = h \div 7 /\ Floor(u, h, 7) /\ h % 7 = h - 7 * u
  BY FloorLemma, DivLemma, Z3
<1>5. PICK g \in Int : g = n + 4
  BY Z3
<1>6. PICK v : v = g \div 7 /\ Floor(v, g, 7) /\ g % 7 = g - 7 * v
  BY FloorLemma, DivLemma, Z3
<1>7. h % 7 = g % 7
  BY <1>2, <1>3, <1>4, <1>5, <1>6, Z3 DEF Floor
<1> QED
  BY <1>1, <1>3, <1>5, <1>7, Z3

\* The dates of the requests run through the calendar: the first day is the 1st
\* of January 1970, every date is one, and the day after has the next date.
THEOREM CalendarTheorem ==
  /\ civil_from_days(0) = <<1970, 1, 1>>
  /\ \A n \in Int : /\ IsCalendarDate(civil_from_days(n))
                    /\ civil_from_days(n + 1) = NextDate(civil_from_days(n))
<1>1. civil_from_days(0) = <<1970, 1, 1>>
  BY Z3T(30) DEF civil_from_days, Trunc
<1>2. ASSUME NEW n \in Int PROVE IsCalendarDate(civil_from_days(n))
  <2>1. PICK era, doe \in Int : /\ 0 <= doe /\ doe <= 146096
                                /\ civil_from_days(n) = DateOf(era, doe)
    BY CivilLemma, Z3
  <2>2. PICK y, d, mp, k : DateFacts(era, doe, y, d, mp, k)
    BY <2>1, DateOfLemma, Z3
  <2>3. CASE mp < 10
    BY <2>1, <2>2, <2>3, Z3 DEF DateFacts, IsCalendarDate
  <2>4. CASE mp = 10
    BY <2>1, <2>2, <2>4, Z3 DEF DateFacts, IsCalendarDate, MarchLength
  <2>5. CASE mp = 11
    BY <2>1, <2>2, <2>5, Z3 DEF DateFacts, IsCalendarDate, MarchLength
  <2> QED
    BY <2>2, <2>3, <2>4, <2>5, Z3 DEF DateFacts
<1>3. ASSUME NEW n \in Int PROVE civil_from_days(n + 1) = NextDate(civil_from_days(n))
  <2>1. PICK era, doe \in Int : /\ 0 <= doe /\ doe <= 146096
                                /\ n + 719468 = era * 146097 + doe
                                /\ civil_from_days(n) = DateOf(era, doe)
    BY CivilLemma, Z3
  <2>2. PICK i \in Int : i = n + 1
    BY Z3
  <2>3. PICK Era, Doe \in Int : /\ 0 <= Doe /\ Doe <= 146096
                                /\ i + 719468 = Era * 146097 + Doe
                                /\ civil_from_days(i) = DateOf(Era, Doe)
    BY CivilLemma, Z3
  <2>4. \/ Era = era /\ Doe = doe + 1
        \/ Era = era + 1 /\ Doe = 0 /\ doe = 146096
    BY <2>1, <2>2, <2>3, Z3
  <2>5. PICK y, d, mp, k : DateFacts(era, doe, y, d, mp, k)
    BY <2>1, DateOfLemma, Z3
  <2>6. PICK Y, D, M, K : DateFacts(Era, Doe, Y, D, M, K)
    BY <2>3, DateOfLemma, Z3
  <2>7. \/ Era = era /\ Y = y /\ D = d + 1
        \/ /\ D = 0 /\ Y + Era * 400 = y + 1 + era * 400
           /\ d = IF Leap(y + 1) THEN 365 ELSE 364
    <3>1. CASE Era = era /\ Doe = doe + 1
      BY <2>1, <2>3, <2>5, <2>6, <3>1, NextInEra, Z3 DEF DateFacts
    <3>2. CASE Era = era + 1 /\ Doe = 0 /\ doe = 146096
      <4>1. YearOfEra(0) = 0 /\ DayOfYear(0) = 0
        BY Z3 DEF YearOfEra, DayOfYear
      <4>2. YearOfEra(146096) = 399 /\ DayOfYear(146096) = 365
        BY Z3 DEF YearOfEra, DayOfYear
      <4>3. Y = 0 /\ D = 0 /\ y = 399 /\ d = 365 /\ Leap(y + 1)
        BY <2>5, <2>6, <3>2, <4>1, <4>2, Z3 DEF DateFacts
      <4> QED
        BY <2>1, <3>2, <4>3, Z3
    <3> QED
      BY <2>4, <3>1, <3>2, Z3
  <2>8. CASE Era = era /\ Y = y /\ D = d + 1
    <3>1. \/ M = mp /\ K = k + 1
          \/ M = mp + 1 /\ K = 1 /\ k = MarchLength(mp) /\ mp < 11
      BY <2>5, <2>6, <2>8, NextInYear, Z3T(60) DEF DateFacts
    <3>2. CASE mp < 10
      BY <2>1, <2>2, <2>3, <2>5, <2>6, <2>8, <3>1, <3>2, Z3 DEF DateFacts, NextDate, MarchLength
    <3>3. CASE mp = 10
      BY <2>1, <2>2, <2>3, <2>5, <2>6, <2>8, <3>1, <3>3, Z3 DEF DateFacts, NextDate, MarchLength
    <3>4. CASE mp = 11
      BY <2>1, <2>2, <2>3, <2>5, <2>6, <2>8, <3>1, <3>4, Z3 DEF DateFacts, NextDate, MarchLength
    <3> QED
      BY <2>5, <3>2, <3>3, <3>4, Z3 DEF DateFacts
  <2>9. CASE /\ D = 0 /\ Y + Era * 400 = y + 1 + era * 400
             /\ d = IF Leap(y + 1) THEN 365 ELSE 364
    <3>1. MonthOf(0) = 0 /\ DayOf(0) = 1
      BY Z3 DEF MonthOf, DayOf
    <3>2. M = 0 /\ K = 1 /\ mp = 11 /\ k = IF Leap(y + 1) THEN 29 ELSE 28
      BY <2>5, <2>6, <2>9, <3>1, Z3 DEF DateFacts
    <3>3. /\ civil_from_days(n) = <<y + 1 + era * 400, 2, k>>
          /\ civil_from_days(i) = <<y + 1 + era * 400, 3, 1>>
          /\ Length(y + 1 + era * 400, 2) = k
      BY <2>1, <2>3, <2>5, <2>6, <2>9, <3>2, Z3 DEF DateFacts
    <3>4. k \in Int
      BY <3>2, Z3
    <3> QED
      BY <2>2, <3>3, <3>4, Z3 DEF NextDate
  <2> QED
    BY <2>7, <2>8, <2>9, Z3
<1> QED
  BY <1>1, <1>2, <1>3, Z3

-----------------------------------------------------------------------------
(* The dates are the right ones: by the least day whose date is wrong.      *)

Below == {p \in Nat \X Nat : p[1] < p[2]}

\* A property of days that one of them lacks has a first one that lacks it.
LEMMA LeastLemma ==
  ASSUME NEW T, T \subseteq Nat, NEW x \in T
  PROVE  \E n \in T : \A m \in T : n <= m
<1>1. Below = OpToRel(<, Nat)
  BY DEF Below, OpToRel
<1>2. IsWellFoundedOn(Below, Nat)
  BY <1>1, NatLessThanWellFounded, Zenon
<1>3. PICK n \in T : \A m \in T : ~(<<m, n>> \in Below)
  BY <1>2, WFMin
<1>4. ASSUME NEW m \in T PROVE n <= m
  <2>1. m \in Nat /\ n \in Nat
    OBVIOUS
  <2>2. ~(m < n)
    BY <1>3, <2>1 DEF Below
  <2> QED
    BY <2>1, <2>2
<1> QED
  BY <1>4

\* The leap years since 1970.
LeapSince(y) == {x \in 1970 .. y - 1 : Leap(x)}
LeapYears(y) == Cardinality(LeapSince(y))

LEMMA LeapYearsLemma ==
  /\ LeapYears(1970) = 0
  /\ \A y \in Nat : y >= 1970 =>
       /\ LeapYears(y) \in Nat
       /\ LeapYears(y + 1) = LeapYears(y) + (IF Leap(y) THEN 1 ELSE 0)
<1>1. LeapSince(1970) = {}
  BY Z3 DEF LeapSince
<1>2. LeapYears(1970) = 0
  <2>1. Cardinality({}) = 0
    BY FS_EmptySet, Zenon
  <2> QED
    BY <1>1, <2>1, Z3 DEF LeapYears
<1>3. ASSUME NEW y \in Nat, y >= 1970
      PROVE  /\ LeapYears(y) \in Nat
             /\ LeapYears(y + 1) = LeapYears(y) + (IF Leap(y) THEN 1 ELSE 0)
  <2>1. IsFiniteSet(LeapSince(y))
    <3>1. PICK u, v \in Int : u = 1970 /\ v = y - 1
      BY Z3
    <3>2. IsFiniteSet(u .. v)
      BY FS_Interval
    <3>3. LeapSince(y) \subseteq u .. v
      BY <3>1, Z3 DEF LeapSince
    <3> QED
      BY <3>2, <3>3, FS_Subset
  <2>2. Cardinality(LeapSince(y)) \in Nat
    BY <2>1, FS_CardinalityType
  <2>3. CASE Leap(y)
    <3>1. LeapSince(y + 1) = LeapSince(y) \cup {y} /\ y \notin LeapSince(y)
      BY <1>3, <2>3, Z3 DEF LeapSince
    <3>2. Cardinality(LeapSince(y + 1)) = Cardinality(LeapSince(y)) + 1
      BY <2>1, <3>1, FS_AddElement
    <3> QED
      BY <2>2, <2>3, <3>2, Z3 DEF LeapYears
  <2>4. CASE ~Leap(y)
    <3>1. LeapSince(y + 1) = LeapSince(y)
      BY <1>3, <2>4, Z3 DEF LeapSince
    <3> QED
      BY <2>2, <2>4, <3>1, Z3 DEF LeapYears
  <2> QED
    BY <2>3, <2>4, Z3
<1> QED
  BY <1>2, <1>3, Z3

\* A date t is that of day n, and not before 1970.
Dated(t, n) == t[1] \in Int /\ t[1] >= 1970 /\ IsDate(t, n)

\* The next date is that of the next day.
LEMMA NextDateLemma ==
  ASSUME NEW n \in Nat, NEW y \in Int, NEW m \in 1 .. 12, NEW d \in Int, Dated(<<y, m, d>>, n)
  PROVE  Dated(NextDate(<<y, m, d>>), n + 1)
<1>1. y >= 1970 /\ d \in 1 .. Length(y, m) /\ DaysBefore(y, m) + d - 1 = n
  BY Z3 DEF Dated, IsDate
<1>2. PICK k : k = LeapYears(y) /\ k \in Nat /\ LeapYears(y + 1) = k + (IF Leap(y) THEN 1 ELSE 0)
  BY <1>1, LeapYearsLemma, Z3
<1>3. \A i \in 1 .. 12 :
        DaysBefore(y, i) = 365 * (y - 1970) + k + MonthStart[i] + (IF i > 2 /\ Leap(y) THEN 1 ELSE 0)
  BY <1>2, Z3 DEF DaysBefore, LeapYears, LeapSince
<1>4. DaysBefore(y + 1, 1) = 365 * (y + 1 - 1970) + k + (IF Leap(y) THEN 1 ELSE 0)
  <2>1. LeapYears(y + 1) = Cardinality({x \in 1970 .. (y + 1) - 1 : Leap(x)})
    BY Z3 DEF LeapYears, LeapSince
  <2>2. MonthStart[1] = 0
    BY Z3 DEF MonthStart
  <2>3. DaysBefore(y + 1, 1) = 365 * (y + 1 - 1970) + LeapYears(y + 1) + MonthStart[1] + 0
    BY <2>1, Z3 DEF DaysBefore
  <2> QED
    BY <1>2, <2>2, <2>3, Z3
<1>a. Length(y, m) \in Int /\ DaysBefore(y, m) \in Int
  BY <1>2, <1>3, Z3 DEF MonthStart, Length
<1>5. CASE d < Length(y, m)
  <2>1. NextDate(<<y, m, d>>) = <<y, m, d + 1>>
    BY <1>5, Z3 DEF NextDate
  <2>2. d + 1 \in 1 .. Length(y, m)
    BY <1>1, <1>5, <1>a, Z3
  <2>3. DaysBefore(y, m) + (d + 1) - 1 = n + 1
    BY <1>1, <1>a, Z3
  <2> QED
    BY <1>1, <2>1, <2>2, <2>3, Z3 DEF Dated, IsDate
<1>6. CASE d = Length(y, m) /\ m < 12
  <2>1. DaysBefore(y, m + 1) = DaysBefore(y, m) + Length(y, m)
    BY <1>2, <1>3, <1>6, Z3 DEF MonthStart, Length
  <2>2. 1 \in 1 .. Length(y, m + 1)
    BY Z3 DEF Length
  <2>3. DaysBefore(y, m + 1) + 1 - 1 = n + 1
    BY <1>1, <1>6, <1>a, <2>1, Z3
  <2>4. NextDate(<<y, m, d>>) = <<y, m + 1, 1>>
    BY <1>1, <1>6, Z3 DEF NextDate
  <2> QED
    BY <1>1, <2>2, <2>3, <2>4, Z3 DEF Dated, IsDate
<1>7. CASE d = Length(y, m) /\ m = 12
  <2>1. DaysBefore(y, 12) = 365 * (y - 1970) + k + 334 + (IF Leap(y) THEN 1 ELSE 0) /\ d = 31
    BY <1>3, <1>7, Z3 DEF MonthStart, Length
  <2>2. 1 \in 1 .. Length(y + 1, 1)
    BY Z3 DEF Length
  <2>3. NextDate(<<y, m, d>>) = <<y + 1, 1, 1>>
    BY <1>1, <1>7, Z3 DEF NextDate
  <2> QED
    BY <1>1, <1>2, <1>4, <1>7, <2>1, <2>2, <2>3, Z3 DEF Dated, IsDate
<1> QED
  BY <1>1, <1>5, <1>6, <1>7, Z3 DEF Length

\* Every day from 1970 on has the right date.
LEMMA DatedLemma == \A n \in Nat : Dated(civil_from_days(n), n)
<1> DEFINE T == {n \in Nat : ~Dated(civil_from_days(n), n)}
<1> SUFFICES ASSUME T # {} PROVE FALSE
  BY Zenon
<1>1. PICK n \in T : \A k \in T : n <= k
  BY LeastLemma, Zenon
<1>2. n \in Nat /\ ~Dated(civil_from_days(n), n)
  BY <1>1, Zenon
<1>3. n # 0
  <2>1. IsDate(<<1970, 1, 1>>, 0)
    BY LeapYearsLemma, Z3 DEF IsDate, DaysBefore, LeapYears, LeapSince, MonthStart, Length
  <2> QED
    BY <1>2, <2>1, CalendarTheorem, Z3 DEF Dated
<1>4. PICK k \in Nat : n = k + 1
  BY <1>2, <1>3, Z3
<1>5. k \notin T
  BY <1>1, <1>2, <1>4, Z3
<1>6. Dated(civil_from_days(k), k)
  BY <1>5, Zenon
<1>7. PICK era, doe \in Int : 0 <= doe /\ doe <= 146096 /\ civil_from_days(k) = DateOf(era, doe)
  BY <1>4, CivilLemma, Z3
<1>8. PICK y, m, d : civil_from_days(k) = <<y, m, d>>
  BY <1>7, Z3 DEF DateOf
<1>9. y \in Int /\ m \in 1 .. 12 /\ d \in Int
  <2>1. Dated(<<y, m, d>>, k) /\ IsCalendarDate(<<y, m, d>>)
    BY <1>4, <1>6, <1>8, CalendarTheorem, Z3
  <2> QED
    BY <2>1, Z3 DEF Dated, IsDate, IsCalendarDate
<1>10. Dated(NextDate(<<y, m, d>>), k + 1)
  BY <1>4, <1>6, <1>8, <1>9, NextDateLemma, Z3
<1> QED
  BY <1>2, <1>4, <1>8, <1>10, CalendarTheorem, Z3

\* The requests on their way carry the date computed for their day.
Signed == /\ day \in Days
          /\ \A r \in wire : r.day \in Days /\ r.date = signed_date(r.day)

LEMMA SignedLemma ==
  ASSUME Signed, [Next]_vars
  PROVE  Signed'
<1>1. \A c, op, data, cond : LET r == Request(c, op, data, cond)
                             IN  r.day = day /\ r.date = signed_date(day)
  BY Zenon DEF Request
<1>2. ASSUME NEW c \in Clients, Get(c) \/ PutIfMatch(c) PROVE Signed'
  <2>1. day' = day /\ \E r : wire' = wire \cup {r} /\ r.day = day /\ r.date = signed_date(day)
    <3>1. CASE Get(c)
      BY <1>1, <3>1 DEF Get, Send
    <3>2. CASE PutIfMatch(c)
      <4> DEFINE r == Request(c, "put", read[c].data \cup {Addition(c, calls[c])}, Condition(read[c]))
      <4>1. wire' = wire \cup {r} /\ day' = day
        BY <3>2, Zenon DEF PutIfMatch, Send
      <4>2. r.day = day /\ r.date = signed_date(day)
        BY <1>1, Zenon
      <4> QED
        BY <4>1, <4>2, Zenon
    <3> QED
      BY <1>2, <3>1, <3>2, Zenon
  <2> QED
    BY <2>1, Zenon DEF Signed
<1>3. CASE wire' \subseteq wire /\ day' = day
  BY <1>3, Zenon DEF Signed
<1>4. ASSUME NEW c \in Clients, NEW status, EndGet(c) \/ GetFails(c) \/ EndPut(c, status)
      PROVE  wire' \subseteq wire /\ day' = day
  BY <1>4, Zenon DEF EndGet, GetFails, EndPut
<1>5. ASSUME NEW r \in wire, NEW status, Serve(r) \/ Lose(r) \/ Refuse(r, status)
      PROVE  wire' \subseteq wire /\ day' = day
  BY <1>5, Zenon DEF Serve, Lose, Refuse
<1>6. CASE UNCHANGED vars
  BY <1>3, <1>6, Zenon DEF vars
<1> QED
  BY <1>2, <1>3, <1>4, <1>5, <1>6, ZenonT(60) DEF Next

\* RightlyDated, on every run of every number of clients, on any days: amz_date
\* and http_date name the day the request is signed on and its weekday.
THEOREM RightlyDatedTheorem == Spec => []RightlyDated
<1>1. Init => Signed
  BY Zenon DEF Init, Signed
<1>2. Signed /\ [Next]_vars => Signed'
  BY SignedLemma, Zenon
<1>3. Signed => RightlyDated
  <2> SUFFICES ASSUME Signed, NEW r \in wire PROVE DateOK(r)
    BY Zenon DEF RightlyDated
  <2>1. PICK n \in Nat : r.day = n /\ r.date = signed_date(n)
    BY CloudAssumption, Zenon DEF Signed
  <2>2. signed_date(n)[1] = civil_from_days(n)
    BY Z3 DEF signed_date
  <2>3. IsDate(signed_date(n)[1], n)
    BY <2>2, DatedLemma, Z3 DEF Dated
  <2>4. signed_date(n)[2] = (n + 4) % 7
    BY WeekdayTheorem, Z3
  <2> QED
    BY <2>1, <2>3, <2>4, Z3 DEF DateOK
<1> QED
  BY <1>1, <1>2, <1>3, PTL DEF Spec

=============================================================================
