----------------------------- MODULE ChunkStore -----------------------------
(***************************************************************************)
(* What the chunk store promises its users, without containers or files.   *)
(* It knows some chunks (they will not be stored again), can give some of  *)
(* them back, and some of these it will give back whatever happens later.  *)
(* Sessions open and close.  As long as no fault has struck, the store     *)
(* gives back everything it knows, and closing makes it all durable.       *)
(* After a fault the store may know chunks it cannot give back, but a      *)
(* durable chunk is never lost.  Only a torn write may take one, and then  *)
(* none of the sealed ones, whose container is finished.                   *)
(***************************************************************************)
CONSTANTS
  Chunks,
  Torn     \* may a process die inside a write?

VARIABLES known, saved, durable, sealed, open, tainted

vars == <<known, saved, durable, sealed, open, tainted>>

Init ==
  /\ known = {} /\ saved = {} /\ durable = {} /\ sealed = {}
  /\ open = FALSE
  /\ tainted = FALSE

Open ==
  /\ ~open
  /\ open'
  /\ UNCHANGED <<known, saved, durable, sealed, tainted>>

Store(c) ==
  /\ open
  /\ c \notin known
  /\ known' = known \cup {c}
  /\ saved' = saved \cup {c}
  /\ UNCHANGED <<durable, sealed, open, tainted>>

Commit ==
  /\ open
  /\ durable \subseteq durable' /\ sealed \subseteq sealed'
  /\ sealed' \subseteq durable' /\ durable' \subseteq saved
  /\ UNCHANGED <<known, saved, open, tainted>>

Close ==
  /\ open
  /\ ~open'
  /\ tainted \/ durable = known
  /\ UNCHANGED <<known, saved, durable, sealed, tainted>>

\* A fault, or the effect of an earlier one, which may end the session: what can
\* be given back drifts away from what is known, but keeps what is durable.  It
\* may also grow: bytes of a lost session come back with the file they are in.
Fault ==
  /\ tainted'
  /\ durable \subseteq durable' \/ (Torn /\ ~open')
  /\ sealed \subseteq sealed'
  /\ sealed' \subseteq durable' /\ durable' \subseteq saved' /\ saved' \subseteq known
  /\ open' => open
  /\ UNCHANGED known

Next == Open \/ (\E c \in Chunks : Store(c)) \/ Commit \/ Close \/ Fault

Spec == Init /\ [][Next]_vars

=============================================================================
