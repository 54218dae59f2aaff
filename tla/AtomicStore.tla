----------------------------- MODULE AtomicStore -----------------------------
(***************************************************************************)
(* What the services of Bexo Studio rely on when they await                *)
(* Database::write or Database::read: an operation takes effect at one     *)
(* point between its call and its answer, or not at all; it is answered    *)
(* "ok" exactly if it took effect; and any other answer may be retried.    *)
(* Database implements this.                                               *)
(***************************************************************************)
EXTENDS Sequences

CONSTANTS Writer, Reader  \* the operations that write, that only read

Operation == Writer \cup Reader

VARIABLES
    call,  \* where each operation is
    db     \* the writes the database consists of, in order

vars == <<call, db>>

Callable == {"idle", "error", "timeout"}

Init ==
    /\ call = [o \in Operation |-> "idle"]
    /\ db = <<>>

Call(o) ==
    /\ call[o] \in Callable
    /\ call' = [call EXCEPT ![o] = "called"]
    /\ UNCHANGED db

Apply(o) ==
    /\ call[o] = "called"
    /\ call' = [call EXCEPT ![o] = "applied"]
    /\ db' = IF o \in Writer THEN Append(db, o) ELSE db

Refuse(o) ==
    /\ call[o] = "called"
    /\ call' = [call EXCEPT ![o] = "refused"]
    /\ UNCHANGED db

Answer(o) ==
    /\ \/ /\ call[o] = "applied"
          /\ call' = [call EXCEPT ![o] = "ok"]
       \/ /\ call[o] = "refused"
          /\ \E a \in {"error", "timeout"}: call' = [call EXCEPT ![o] = a]
    /\ UNCHANGED db

Next == \E o \in Operation: Call(o) \/ Apply(o) \/ Refuse(o) \/ Answer(o)

Spec == Init /\ [][Next]_vars
=============================================================================
