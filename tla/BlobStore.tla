----------------------------- MODULE BlobStore -----------------------------
(***************************************************************************)
(* What trait Bucket (repo/bucket.rs) promises to the protocol above it,   *)
(* for clients that share a blob: a write takes effect at most once, a     *)
(* conditional one only on the content it was made from; "written" means   *)
(* that it has taken effect, "conflict" that it has not and never will; an *)
(* error means nothing: the write may still take effect later.             *)
(***************************************************************************)
CONSTANTS
  Writes,       \* writes: [by, conditional, from, data, ...]
  Callers,
  Absent,       \* the content of a blob that does not exist
  None          \* no write

VARIABLES
  blob,         \* the content of the blob
  waiting,      \* writes that may still take effect
  effective,    \* writes that have taken effect
  last,         \* the write each caller is making or made last
  said          \* "busy", or what the caller was told of that write

vars == <<blob, waiting, effective, last, said>>

Init ==
  /\ blob = Absent /\ waiting = {} /\ effective = {}
  /\ last = [c \in Callers |-> None]
  /\ said = [c \in Callers |-> "nothing"]

Begin(w) ==
  /\ said[w.by] # "busy"
  /\ w \notin waiting \cup effective
  /\ waiting' = waiting \cup {w}
  /\ last' = [last EXCEPT ![w.by] = w]
  /\ said' = [said EXCEPT ![w.by] = "busy"]
  /\ UNCHANGED <<blob, effective>>

TakeEffect(w) ==
  /\ w \in waiting
  /\ w.conditional => blob = w.from
  /\ blob' = w.data
  /\ waiting' = waiting \ {w}
  /\ effective' = effective \cup {w}
  /\ UNCHANGED <<last, said>>

Drop(w) ==
  /\ w \in waiting
  /\ waiting' = waiting \ {w}
  /\ UNCHANGED <<blob, effective, last, said>>

Tell(c, what) ==
  /\ said[c] = "busy"
  /\ what = "written" => last[c] \in effective
  /\ what = "conflict" => last[c] \notin effective \cup waiting
  /\ said' = [said EXCEPT ![c] = what]
  /\ UNCHANGED <<blob, waiting, effective, last>>

Next ==
  \/ \E w \in Writes : Begin(w)
  \/ \E w \in waiting : TakeEffect(w) \/ Drop(w)
  \/ \E c \in Callers, what \in {"written", "conflict", "error"} : Tell(c, what)

Spec == Init /\ [][Next]_vars

=============================================================================
