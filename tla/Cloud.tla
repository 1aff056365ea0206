------------------------------- MODULE Cloud -------------------------------
(***************************************************************************)
(* The cloud bucket clients (repo/cloud.rs): S3Bucket and AzureBucket over *)
(* HTTP, used the way BucketTransport uses them, to read a blob and write  *)
(* it back with an addition if nobody else has written it in between.      *)
(*                                                                         *)
(* A request is signed with the date, sent, and answered with a status.    *)
(* The service is external: it may refuse, and it may process a request    *)
(* whose sender has given up; the network may lose requests and answers.   *)
(* A content is the set of additions it holds.                             *)
(***************************************************************************)
EXTENDS Integers, FiniteSets, Sequences

CONSTANTS
  Clients,
  Days,          \* days since 1970 on which the clients run
  MaxCalls,      \* bound: writes of one client
  None

\* The additions of a client, one for each write, and the contents of the blob.
Addition(c, n) == <<c, n>>
Additions == {Addition(c, n) : c \in Clients, n \in 0 .. MaxCalls - 1}
Contents  == SUBSET Additions

\* ETags, the empty one too, what a get returns, and If-Match or If-None-Match.
Empty      == <<"">>
ETags      == ({"hash"} \X Contents) \cup ({"version"} \X Nat) \cup {Empty}
Reads      == [data : Contents, etag : ETags \cup {None}]
Conditions == {<<"any">>, <<"absent">>} \cup ({"match"} \X ETags)
Blobs      == [data : Contents, version : Nat]
Statuses   == {200, 403, 404, 409, 412, 503}
Answers    == [status : Statuses, body : Reads \cup {None}]

ASSUME CloudAssumption == MaxCalls \in Nat /\ Days \subseteq Nat
ASSUME CloudNoneAssumption == None \notin ETags \cup Reads \cup Blobs \cup Answers

VARIABLES
  tags,          \* the service's ETags: hashes of the content, versions, none
  blob,          \* None or [data, version]
  wire,          \* requests on their way
  call,          \* the request each client waits for, None
  answer,        \* its answer, None while there is none
  read,          \* what the client read to write it back: [data, etag], None
  put,           \* its last write, None
  said,          \* "busy" with it, or what it returned
  calls,         \* writes of each client
  acked,         \* additions whose write returned true
  served,        \* writes the service has performed
  day            \* today

vars == <<tags, blob, wire, call, answer, read, put, said, calls, acked, served, day>>

-----------------------------------------------------------------------------
(* Dates: no library, Hinnant's algorithms.                                *)

\* / on i64
Trunc(a, b) == IF a >= 0 THEN a \div b ELSE -((-a) \div b)

\* Mutant: the century is left out of the year of the era.
CivilNoCentury(n) ==
  LET z   == n + 719468
      era == Trunc(IF z >= 0 THEN z ELSE z - 146096, 146097)
      doe == z - era * 146097
      yoe == (doe - doe \div 1460 - doe \div 146096) \div 365
      doy == doe - (365 * yoe + yoe \div 4 - yoe \div 100)
      mp  == (5 * doy + 2) \div 153
      m   == IF mp < 10 THEN mp + 3 ELSE mp - 9
  IN  <<yoe + era * 400 + (IF m <= 2 THEN 1 ELSE 0), m, doy - (153 * mp + 2) \div 5 + 1>>

\* civil_from_days: <<year, month, day>>
civil_from_days(n) ==
  LET z   == n + 719468
      era == Trunc(IF z >= 0 THEN z ELSE z - 146096, 146097)
      doe == z - era * 146097
      yoe == (doe - doe \div 1460 + doe \div 36524 - doe \div 146096) \div 365
      doy == doe - (365 * yoe + yoe \div 4 - yoe \div 100)
      mp  == (5 * doy + 2) \div 153
      m   == IF mp < 10 THEN mp + 3 ELSE mp - 9
  IN  <<yoe + era * 400 + (IF m <= 2 THEN 1 ELSE 0), m, doy - (153 * mp + 2) \div 5 + 1>>

\* days_from_civil
days_from_civil(t) ==
  LET y   == IF t[2] <= 2 THEN t[1] - 1 ELSE t[1]
      era == Trunc(IF y >= 0 THEN y ELSE y - 399, 400)
      yoe == y - era * 400
      mp  == IF t[2] > 2 THEN t[2] - 3 ELSE t[2] + 9
      doy == (153 * mp + 2) \div 5 + t[3] - 1
  IN  era * 146097 + yoe * 365 + yoe \div 4 - yoe \div 100 + doy - 719468

\* amz_date, http_date: the date a request is signed with, and the weekday,
\* Sunday 0, worked out from the date again.
signed_date(n) ==
  LET t == civil_from_days(n) IN <<t, ((days_from_civil(t) % 7) + 4) % 7>>

-----------------------------------------------------------------------------
(* The clients.                                                            *)

\* Requests: by whom, for which of its writes, and with which date.
Requests ==
  [by : Clients, n : 0 .. MaxCalls - 1, op : {"get", "put"}, data : Contents,
   cond : Conditions, day : Days, date : {signed_date(n) : n \in Days}]

ASSUME NoRequestAssumption == None \notin Requests

Request(c, op, data, cond) ==
  [by |-> c, n |-> calls[c], op |-> op, data |-> data, cond |-> cond,
   day |-> day, date |-> signed_date(day)]

Send(c, r) ==
  /\ call' = [call EXCEPT ![c] = r]
  /\ wire' = wire \cup {r}

Finished(c) ==
  /\ call' = [call EXCEPT ![c] = None]
  /\ answer' = [answer EXCEPT ![c] = None]

\* Bucket::get
Get(c) ==
  /\ call[c] = None /\ read[c] = None /\ calls[c] < MaxCalls
  /\ Send(c, Request(c, "get", {}, <<"any">>))
  /\ UNCHANGED <<tags, blob, answer, read, put, said, calls, acked, served, day>>

\* What get returns of an answer: 404 is no blob, and an answer without an ETag
\* has the empty one.
NoBlob == [data |-> {}, etag |-> None]
Got(a) == IF a.status = 200 THEN a.body ELSE IF a.status = 404 THEN NoBlob ELSE None

EndGet(c) ==
  /\ call[c] # None /\ call[c].op = "get" /\ answer[c] # None
  /\ read' = [read EXCEPT ![c] = Got(answer[c])]
  /\ Finished(c)
  /\ UNCHANGED <<tags, blob, wire, put, said, calls, acked, served, day>>

\* A get breaks off: no answer comes.
GetFails(c) ==
  /\ call[c] # None /\ call[c].op = "get" /\ answer[c] = None
  /\ Finished(c)
  /\ UNCHANGED <<tags, blob, wire, read, put, said, calls, acked, served, day>>

\* Mutant: without an ETag the write is made unconditional.
ConditionOptional(r) ==
  CASE r.etag = None -> <<"absent">> [] r.etag = Empty -> <<"any">> [] OTHER -> <<"match", r.etag>>

\* If-Match with the ETag that was read, an empty one too, or If-None-Match.
Condition(r) == IF r.etag = None THEN <<"absent">> ELSE <<"match", r.etag>>

\* put_if_match of what was read and one addition.
PutIfMatch(c) ==
  /\ call[c] = None /\ read[c] # None
  /\ LET r == Request(c, "put", read[c].data \cup {Addition(c, calls[c])}, Condition(read[c]))
     IN  Send(c, r) /\ put' = [put EXCEPT ![c] = r]
  /\ read' = [read EXCEPT ![c] = None]
  /\ said' = [said EXCEPT ![c] = "busy"]
  /\ UNCHANGED <<tags, blob, answer, calls, acked, served, day>>

\* Mutant: every failed write is reported as a lost race.
MeaningHopeful(status) == IF status = 200 THEN "written" ELSE "conflict"

\* What put_if_match makes of the status of an answer, 0 for no answer.
Meaning(status) ==
  IF status = 200 THEN "written" ELSE IF status \in {409, 412} THEN "conflict" ELSE "error"

\* Mutant: a write that broke off stays open.
EndPutOpen(c, status) ==
  /\ call[c] # None /\ call[c].op = "put" /\ said[c] = "busy"
  /\ status = IF answer[c] = None THEN 0 ELSE answer[c].status
  /\ said' = [said EXCEPT ![c] = Meaning(status)]
  /\ calls' = [calls EXCEPT ![c] = @ + 1]
  /\ UNCHANGED <<tags, blob, wire, call, answer, read, put, acked, served, day>>

EndPut(c, status) ==
  /\ call[c] # None /\ call[c].op = "put"
  /\ status = IF answer[c] = None THEN 0 ELSE answer[c].status
  /\ said' = [said EXCEPT ![c] = Meaning(status)]
  /\ acked' = IF Meaning(status) = "written" THEN acked \cup {Addition(c, call[c].n)} ELSE acked
  /\ calls' = [calls EXCEPT ![c] = @ + 1]
  /\ Finished(c)
  /\ UNCHANGED <<tags, blob, wire, read, put, served, day>>

-----------------------------------------------------------------------------
(* The service and the network.                                            *)

EtagOf(b) ==
  IF tags = "hash" THEN <<"hash", b.data>>
  ELSE IF tags = "version" THEN <<"version", b.version>> ELSE Empty

Holds(cond) ==
  \/ cond[1] = "any"
  \/ cond[1] = "absent" /\ blob = None
  \/ cond[1] = "match" /\ blob # None /\ tags # "none" /\ cond[2] = EtagOf(blob)

\* The calendar.
Leap(y)   == y % 4 = 0 /\ (y % 100 # 0 \/ y % 400 = 0)
Length(y, m) == IF m \in {4, 6, 9, 11} THEN 30
                ELSE IF m # 2 THEN 31 ELSE IF Leap(y) THEN 29 ELSE 28
MonthStart == <<0, 31, 59, 90, 120, 151, 181, 212, 243, 273, 304, 334>>
DaysBefore(y, m) ==
  365 * (y - 1970) + Cardinality({x \in 1970 .. y - 1 : Leap(x)})
    + MonthStart[m] + (IF m > 2 /\ Leap(y) THEN 1 ELSE 0)
IsDate(t, n) == /\ t[3] \in 1 .. Length(t[1], t[2])
                /\ DaysBefore(t[1], t[2]) + t[3] - 1 = n
DateOK(r) == IsDate(r.date[1], r.day) /\ r.date[2] = (r.day + 4) % 7

\* An answer reaches a client that still waits for it, or is lost.
Answered(r, status, body) ==
  \/ call[r.by] = r /\ answer' = [answer EXCEPT ![r.by] = [status |-> status, body |-> body]]
  \/ UNCHANGED answer

\* A request is processed, whoever still waits for it.
Serve(r) ==
  /\ DateOK(r)
  /\ wire' = wire \ {r}
  /\ \/ /\ r.op = "get"
        /\ IF blob = None THEN Answered(r, 404, None)
           ELSE Answered(r, 200, [data |-> blob.data, etag |-> EtagOf(blob)])
        /\ UNCHANGED <<blob, served>>
     \/ /\ r.op = "put" /\ Holds(r.cond)
        /\ blob' = [data |-> r.data, version |-> IF blob = None THEN 1 ELSE blob.version + 1]
        /\ served' = served \cup {r}
        /\ Answered(r, 200, None)
     \/ /\ r.op = "put" /\ ~Holds(r.cond)
        /\ Answered(r, 412, None)
        /\ UNCHANGED <<blob, served>>
  /\ UNCHANGED <<tags, call, read, put, said, calls, acked, day>>

\* It is refused: busy with a conflicting write, not authorised, or down.
Refuse(r, status) ==
  /\ status = 409 => r.op = "put"
  /\ wire' = wire \ {r}
  /\ Answered(r, status, None)
  /\ UNCHANGED <<tags, blob, call, read, put, said, calls, acked, served, day>>

Lose(r) ==
  /\ wire' = wire \ {r}
  /\ UNCHANGED <<tags, blob, call, answer, read, put, said, calls, acked, served, day>>

-----------------------------------------------------------------------------
Init ==
  /\ tags \in {"hash", "version", "none"}
  /\ blob = None /\ wire = {} /\ served = {} /\ acked = {}
  /\ call = [c \in Clients |-> None]
  /\ answer = [c \in Clients |-> None]
  /\ read = [c \in Clients |-> None]
  /\ put = [c \in Clients |-> None]
  /\ said = [c \in Clients |-> "nothing"]
  /\ calls = [c \in Clients |-> 0]
  /\ day \in Days

Next ==
  \/ \E c \in Clients : \/ Get(c) \/ PutIfMatch(c) \/ EndGet(c) \/ GetFails(c)
                        \/ \E status \in {0, 200, 403, 409, 412, 503} : EndPut(c, status)
  \/ \E r \in wire : \/ Serve(r) \/ Lose(r)
                     \/ \E status \in {403, 409, 503} : Refuse(r, status)

Spec == Init /\ [][Next]_vars

-----------------------------------------------------------------------------
(* Properties.                                                             *)

\* The state is well formed: there is an answer only to a request that is waited
\* for, a client waits for a write exactly while it is busy, and no client makes
\* more writes than it counts.
CloudTypeOK ==
  /\ tags \in {"hash", "version", "none"} /\ day \in Days
  /\ blob \in Blobs \cup {None}
  /\ wire \subseteq Requests /\ served \subseteq Requests /\ acked \subseteq Additions
  /\ call \in [Clients -> Requests \cup {None}]
  /\ answer \in [Clients -> Answers \cup {None}]
  /\ read \in [Clients -> Reads \cup {None}]
  /\ put \in [Clients -> Requests \cup {None}]
  /\ said \in [Clients -> {"nothing", "busy", "written", "conflict", "error"}]
  /\ calls \in [Clients -> 0 .. MaxCalls]
  /\ blob # None => blob.data # {}
  /\ \A c \in Clients :
       /\ answer[c] # None => call[c] # None
       /\ said[c] = "busy" <=> call[c] # None /\ call[c].op = "put"
       /\ \A r \in wire \cup served : r.by = c => r.n <= calls[c]

\* An addition whose write returned true is in the blob from then on, whatever
\* is lost, refused or answered late, and whether the service's ETags are
\* hashes, versions or missing.
AckedStays == acked # {} => blob # None /\ acked \subseteq blob.data

\* Every request carries the date of the day it was signed on, and the right
\* weekday, or the service would refuse it.
RightlyDated == \A r \in wire : DateOK(r)

\* The writes of the trait that the put requests are.
AsWrite(r) == [by |-> r.by, id |-> Addition(r.by, r.n), conditional |-> r.cond # <<"any">>,
               from |-> r.data \ {Addition(r.by, r.n)}, data |-> r.data]

Write(a, b, d) == [by |-> a[1], id |-> a, conditional |-> b, from |-> d, data |-> d \cup {a}]
Writes == {Write(p[1], p[2], p[3]) : p \in Additions \X BOOLEAN \X Contents}

\* The clients keep the promise of trait Bucket.  A blob that does not exist
\* has no additions.
Promise == INSTANCE BlobStore WITH
  Callers   <- Clients,
  Absent    <- {},
  Writes    <- Writes,
  blob      <- IF blob = None THEN {} ELSE blob.data,
  waiting   <- {AsWrite(r) : r \in {q \in wire : q.op = "put"}},
  effective <- {AsWrite(r) : r \in served},
  last      <- [c \in Clients |-> IF put[c] = None THEN None ELSE AsWrite(put[c])],
  said      <- said

\* put_if_match reports what happened to the write: true only if it has taken
\* effect, on the content it was made from, and false only if it has not and
\* never will.
KeepsPromise == Promise!Spec

=============================================================================
