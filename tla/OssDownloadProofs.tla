-------------------------- MODULE OssDownloadProofs --------------------------
(***************************************************************************)
(* Theorems about OssDownload: what a download publishes is the object,    *)
(* and a file it replaces goes only when all of it is there, for every     *)
(* length, range size, number of tries, commands and faults.               *)
(*                                                                         *)
(* The part file always holds a beginning of the object (PartOK), and the  *)
(* row and the attempt never claim more than it holds.  From the alignment *)
(* on the attempt's checkpoint is exactly its length (AttemptOK).          *)
(***************************************************************************)
EXTENDS OssDownload, SequenceTheorems, TLAPS

Status == {"queued", "running", "paused", "failed", "cancelling", "cancelled", "completed"}
TaskOf(n) == [status: Status, done: 0..n]

-----------------------------------------------------------------------------
(* Bytes. *)

\* Consecutive bytes are a sequence of as many numbers (Bytes).
LEMMA BytesType ==
    ASSUME NEW a \in Nat \ {0}, NEW b \in Nat, a <= b + 1
    PROVE  /\ Bytes(a, b) \in Seq(Nat)
           /\ Len(Bytes(a, b)) = b + 1 - a
           /\ \A i \in 1..(b + 1 - a): Bytes(a, b)[i] = a + i - 1
<1> DEFINE n == b + 1 - a
<1>1. n \in Nat
  OBVIOUS
<1>2. Bytes(a, b) \in [1..n -> Nat]
  BY DEF Bytes
<1>3. Bytes(a, b) \in Seq(Nat)
  BY <1>1, <1>2, SeqDef
<1>4. Len(Bytes(a, b)) = n
  BY <1>1, <1>2, <1>3, LenProperties
<1> QED
  BY <1>3, <1>4 DEF Bytes

\* The first bytes of the object, as a part file holds them (Bytes).
LEMMA FirstBytes ==
    ASSUME NEW n \in Nat
    PROVE  Bytes(1, n) \in Seq(Nat) /\ Len(Bytes(1, n)) = n /\ \A i \in 1..n: Bytes(1, n)[i] = i
<1>1. 1 \in Nat \ {0} /\ 1 <= n + 1 /\ n + 1 - 1 = n
  OBVIOUS
<1>2. Bytes(1, n) \in Seq(Nat) /\ Len(Bytes(1, n)) = n
  BY <1>1, BytesType
<1>3. \A i \in 1..n: Bytes(1, n)[i] = i
  BY DEF Bytes
<1> QED
  BY <1>2, <1>3

\* A range appended to what goes before it (run_download_inner).
LEMMA BytesConcat ==
    ASSUME NEW n \in Nat, NEW m \in Nat, n <= m
    PROVE  Bytes(1, n) \o Bytes(n + 1, m) = Bytes(1, m)
<1> DEFINE s == Bytes(1, n)
           t == Bytes(n + 1, m)
           u == Bytes(1, m)
<1>1. s \in Seq(Nat) /\ Len(s) = n /\ \A i \in 1..n: s[i] = i
  BY FirstBytes
<1>2. t \in Seq(Nat) /\ Len(t) = m - n /\ \A i \in 1..(m - n): t[i] = n + i
  <2>1. n + 1 \in Nat \ {0} /\ n + 1 <= m + 1 /\ m + 1 - (n + 1) = m - n
    OBVIOUS
  <2>2. \A i \in Nat: n + 1 + i - 1 = n + i
    OBVIOUS
  <2> HIDE DEF t
  <2>3. /\ t \in Seq(Nat) /\ Len(t) = m + 1 - (n + 1)
        /\ \A i \in 1..(m + 1 - (n + 1)): t[i] = n + 1 + i - 1
    BY <2>1, BytesType DEF t
  <2> QED
    BY <2>1, <2>2, <2>3
<1>3. u \in Seq(Nat) /\ Len(u) = m /\ \A i \in 1..m: u[i] = i
  BY FirstBytes
<1> HIDE DEF s, t, u
<1>4. /\ s \o t \in Seq(Nat)
      /\ Len(s \o t) = Len(s) + Len(t)
      /\ \A i \in 1..(Len(s) + Len(t)): (s \o t)[i] = IF i <= Len(s) THEN s[i] ELSE t[i - Len(s)]
  BY <1>1, <1>2, ConcatProperties
<1>5. Len(s \o t) = m
  BY <1>1, <1>2, <1>4
<1>6. \A i \in 1..m: (s \o t)[i] = i
  <2> TAKE i \in 1..m
  <2>1. (s \o t)[i] = IF i <= n THEN s[i] ELSE t[i - n]
    BY <1>1, <1>2, <1>4
  <2>2. CASE i <= n
    BY <2>1, <2>2, <1>1
  <2>3. CASE i > n
    <3>1. i - n \in 1..(m - n) /\ ~(i <= n) /\ n + (i - n) = i
      BY <2>3
    <3>2. t[i - n] = n + (i - n)
      BY <3>1, <1>2
    <3> QED
      BY <2>1, <3>1, <3>2
  <2>4. n \in Nat /\ i \in Nat /\ (i <= n \/ i > n)
    OBVIOUS
  <2> QED
    BY <2>2, <2>3, <2>4
<1>7. s \o t = u
  BY <1>3, <1>4, <1>5, <1>6, SeqEqual
<1> QED
  BY <1>7 DEF s, t, u

\* What is written of a range that could not be appended as a whole (AppendRange).
LEMMA BytesBeginning ==
    ASSUME NEW n \in Nat, NEW m \in Nat, n <= m, NEW k \in 0..(m - n)
    PROVE  SubSeq(Bytes(n + 1, m), 1, k) = Bytes(n + 1, n + k)
<1> DEFINE t == Bytes(n + 1, m)
           u == Bytes(n + 1, n + k)
           s == SubSeq(t, 1, k)
<1>1. \A i \in 1..(m - n): t[i] = n + i
  BY DEF Bytes
<1>2. \A i \in 1..k: t[i] \in Nat /\ t[i] = n + i
  BY <1>1
<1>3. u \in Seq(Nat) /\ Len(u) = k
  <2>1. n + 1 \in Nat \ {0} /\ n + k \in Nat /\ n + 1 <= n + k + 1 /\ n + k + 1 - (n + 1) = k
    OBVIOUS
  <2> HIDE DEF u
  <2> QED
    BY <2>1, BytesType DEF u
<1>4. \A i \in 1..k: u[i] = n + i
  BY DEF Bytes
<1> HIDE DEF t, u, s
<1>5. 1 \in Int /\ k \in Int /\ \A i \in 1..k: t[i] \in Nat
  BY <1>2
<1>6. /\ s \in Seq(Nat)
      /\ Len(s) = IF 1 <= k THEN k - 1 + 1 ELSE 0
      /\ \A i \in 1..(k - 1 + 1): s[i] = t[1 + i - 1]
  BY <1>5, SubSeqProperties DEF s
<1>7. Len(s) = k /\ \A i \in 1..k: s[i] = t[i]
  BY <1>6
<1>8. s = u
  BY <1>2, <1>3, <1>4, <1>6, <1>7, SeqEqual
<1> QED
  BY <1>8 DEF s, t, u

\* A file of bytes is there, and is nobody else's (path_exists).
LEMMA BytesArePresent ==
    ASSUME NEW n \in Nat
    PROVE  Present(Bytes(1, n)) /\ IsOurs(Bytes(1, n))
<1>1. Bytes(1, n) \in Seq(Nat)
  BY FirstBytes
<1> QED
  BY <1>1, DownloadAssumption DEF Present, IsOurs

\* set_len to a checkpoint no longer than the file cuts it (Align).
LEMMA AlignedBytes ==
    ASSUME NEW n \in Nat, NEW k \in 0..n
    PROVE  Aligned(Bytes(1, n), k) = Bytes(1, k)
<1> DEFINE f == Bytes(1, n)
<1>1. Len(f) = n /\ \A i \in 1..n: f[i] = i
  BY FirstBytes
<1>2. Present(f)
  BY BytesArePresent
<1>3. \A i \in 1..k: i <= n /\ i = 1 + i - 1
  OBVIOUS
<1>4. Bytes(1, k) = [i \in 1..k |-> i]
  BY DEF Bytes
<1> HIDE DEF f
<1>5. Aligned(f, k) = [i \in 1..k |-> IF i <= Len(f) THEN f[i] ELSE Zero]
  BY <1>2 DEF Aligned
<1>6. \A i \in 1..k: (IF i <= Len(f) THEN f[i] ELSE Zero) = i
  BY <1>1, <1>3
<1>7. Aligned(f, k) = [i \in 1..k |-> i]
  BY <1>5, <1>6
<1> QED
  BY <1>4, <1>7 DEF f

\* Without a part file, a download begins with an empty one (Align).
LEMMA AlignedNothing == Aligned(NoFile, 0) = Bytes(1, 0)
  BY DEF Aligned, Bytes

\* A beginning is the whole when it is as long (RangeEnd).
LEMMA SameBytes ==
    ASSUME NEW n \in Nat, NEW m \in Nat, Bytes(1, n) = Bytes(1, m)
    PROVE  n = m
  BY FirstBytes

\* The status does not touch the checkpoint (WithStatus).
LEMMA WithStatusType ==
    ASSUME NEW n \in Nat, NEW t \in TaskOf(n), NEW s \in Status
    PROVE  WithStatus(t, s) \in TaskOf(n) /\ WithStatus(t, s).done = t.done
  BY DEF TaskOf, WithStatus

\* A new task has no checkpoint (new_transfer_task).
LEMMA NewTaskType == ASSUME NEW n \in Nat PROVE NewTask \in TaskOf(n) /\ NewTask.done = 0
  BY DEF NewTask, TaskOf, Status

-----------------------------------------------------------------------------
(* The inductive invariant. *)

Types ==
    /\ size \in Nat
    /\ row \in TaskOf(size)
    /\ task \in TaskOf(size)
    /\ copy \in [Caller -> TaskOf(size)]

\* The part file is a beginning of the object, and nothing in use claims more of it.
PartOK ==
    part = NoFile \/ \E n \in 0..size: part = Bytes(1, n) /\ row.done <= n /\ task.done <= n

Fetched == {"range", "request", "stream", "append", "save"}

\* What the attempt has established on its way to the publication.
AttemptOK ==
    /\ pc \in Fetched => part = Bytes(1, task.done)
    /\ pc \in Fetched \cup {"align"} => row.done <= task.done
    /\ pc \in {"request", "stream", "append"} => task.done < size
    /\ pc \in {"request", "stream"} => body = <<>>
    /\ pc = "append" => body = Bytes(task.done + 1, RangeEnd)
    /\ pc \in {"publish", "remove", "rename"} => part = Content
    /\ pc = "remove" => overwrite
    /\ pc = "rename" /\ dest = Theirs => "file appeared" \in excuse

DestOK == dest \in {NoFile, Theirs, Content}

Good == PartOK /\ AttemptOK /\ DestOK

IInv == Types /\ (Defended => Good)

-----------------------------------------------------------------------------
(* The attempt. *)

\* Where a range ends (run_download_inner).
LEMMA RangeEndType ==
    ASSUME Types, task.done < size
    PROVE  /\ RangeEnd \in Nat /\ task.done \in Nat
           /\ task.done < RangeEnd /\ RangeEnd <= size /\ Expected = RangeEnd - task.done
<1>1. task.done \in 0..size /\ size \in Nat /\ RangeSize \in Nat \ {0}
  BY DownloadAssumption DEF Types, TaskOf
<1> QED
  BY <1>1 DEF RangeEnd, Expected

\* Checkpoints are lengths.
LEMMA DoneType ==
    ASSUME Types
    PROVE  /\ size \in Nat /\ row.done \in 0..size /\ task.done \in 0..size
           /\ \A c \in Caller: copy[c].done \in 0..size /\ copy[c] \in TaskOf(size)
  BY DEF Types, TaskOf

\* run_task marks the task as running.
LEMMA MarkRunningStep ==
    ASSUME Types, Good, MarkRunning
    PROVE  Types' /\ Good'
<1> DEFINE t == WithStatus(task, "running")
<1>1. t \in TaskOf(size) /\ t.done = task.done
  BY WithStatusType DEF Types, Status
<1>2. task' = t /\ row' \in {row, t} /\ pc' \in {"head", "leave"}
  BY DEF MarkRunning, Update, Goto
<1>3. UNCHANGED <<size, overwrite, copy, part, dest, excuse, body>>
  BY DEF MarkRunning, others, callVars, rangeVars, fileVars
<1> HIDE DEF t
<1>4. Types'
  BY <1>1, <1>2, <1>3 DEF Types
<1>5. PartOK'
  BY <1>1, <1>2, <1>3 DEF Good, PartOK
<1>6. AttemptOK'
  BY <1>2 DEF AttemptOK, Fetched
<1>7. DestOK'
  BY <1>3 DEF Good, DestOK, Content
<1> QED
  BY <1>4, <1>5, <1>6, <1>7 DEF Good

\* An attempt that only goes on, or stops, keeps what there is.
LEMMA GoesOn ==
    ASSUME Types, Good, UNCHANGED <<size, overwrite, copy, row, task, part, dest, excuse>>,
           pc' \notin Fetched \cup {"align", "publish", "remove", "rename"}
    PROVE  Types' /\ Good'
<1>1. Types'
  BY DEF Types
<1>2. PartOK'
  BY DEF Good, PartOK
<1>3. AttemptOK'
  BY DEF AttemptOK, Fetched
<1>4. DestOK'
  BY DEF Good, DestOK, Content
<1> QED
  BY <1>1, <1>2, <1>3, <1>4 DEF Good

\* The object's metadata are asked for.
LEMMA HeadObjectStep ==
    ASSUME Types, Good, HeadObject
    PROVE  Types' /\ Good'
<1>1. pc' \in {"headSave", "returned"}
  BY DEF HeadObject, ProceedOrCancel, Goto, Return
<1>2. UNCHANGED <<size, overwrite, copy, row, task, part, dest, excuse>>
  BY DEF HeadObject, others, callVars, fileVars
<1> QED
  BY <1>1, <1>2, GoesOn DEF Fetched

\* The checkpoint is written before the part file is looked at.
LEMMA HeadSaveStep ==
    ASSUME Types, Good, HeadSave
    PROVE  Types' /\ Good'
<1>1. \/ row' = task /\ pc' = "align"
      \/ row' \in {row, task} /\ pc' = "returned"
  BY DEF HeadSave, Update, Goto, Return
<1>2. UNCHANGED <<size, overwrite, copy, task, part, dest, excuse>>
  BY DEF HeadSave, others, callVars, fileVars
<1>3. Types'
  BY <1>1, <1>2 DEF Types
<1>4. PartOK'
  BY <1>1, <1>2 DEF Good, PartOK
<1>5. AttemptOK'
  <2>1. CASE pc' = "returned"
    BY <2>1 DEF AttemptOK, Fetched
  <2>2. CASE pc' = "align" /\ row' = task
    <3>1. task.done <= task.done
      BY DoneType
    <3>2. row'.done <= task'.done
      BY <1>2, <2>2, <3>1
    <3> QED
      BY <2>2, <3>2 DEF AttemptOK, Fetched
  <2> QED
    BY <1>1, <2>1, <2>2
<1>6. DestOK'
  BY <1>2 DEF Good, DestOK, Content
<1> QED
  BY <1>3, <1>4, <1>5, <1>6 DEF Good

\* The part file is cut to the checkpoint, never extended.
LEMMA AlignStep ==
    ASSUME Types, Good, Align
    PROVE  Types' /\ Good'
<1>1. UNCHANGED <<size, overwrite, copy, row, task, dest, excuse>>
  BY DEF Align, others, callVars
<1>2. CASE pc' = "returned" /\ UNCHANGED part
  BY <1>1, <1>2, GoesOn DEF Fetched
<1>3. CASE pc' = "range" /\ part' = Aligned(part, task.done) /\ (Present(part) \/ ~(task.done > 0))
  <2>1. part' = Bytes(1, task.done)
    <3>1. CASE part = NoFile
      <4>1. task.done = 0
        BY <1>3, <3>1, DoneType DEF Present
      <4> QED
        BY <1>3, <3>1, <4>1, AlignedNothing
    <3>2. CASE part # NoFile
      <4>1. PICK n \in 0..size: part = Bytes(1, n) /\ task.done <= n
        BY <3>2 DEF Good, PartOK
      <4>2. n \in Nat /\ task.done \in 0..n
        BY <4>1, DoneType
      <4> QED
        BY <1>3, <4>1, <4>2, AlignedBytes
    <3> QED
      BY <3>1, <3>2
  <2>2. row.done <= task.done
    BY DEF Align, Good, AttemptOK
  <2>3. Types'
    BY <1>1 DEF Types
  <2>4. PartOK'
    BY <1>1, <2>1, <2>2, DoneType DEF PartOK
  <2>5. AttemptOK'
    BY <1>1, <1>3, <2>1, <2>2 DEF AttemptOK, Fetched
  <2>6. DestOK'
    BY <1>1 DEF Good, DestOK, Content
  <2> QED
    BY <2>3, <2>4, <2>5, <2>6 DEF Good
<1> QED
  BY <1>2, <1>3, DoneType DEF Align, Goto, Return, FileFails

\* While a range is asked for, only what has been received of it changes.
LEMMA RangeGoesOn ==
    ASSUME Types, Good, pc \in Fetched,
           UNCHANGED <<size, overwrite, copy, row, task, part, dest, excuse>>,
           pc' \in {"request", "stream"}, body' = <<>>, task.done < size
    PROVE  Types' /\ Good'
<1>1. Types'
  BY DEF Types
<1>2. PartOK'
  BY DEF Good, PartOK
<1>3. AttemptOK'
  BY DEF Good, AttemptOK, Fetched
<1>4. DestOK'
  BY DEF Good, DestOK, Content
<1> QED
  BY <1>1, <1>2, <1>3, <1>4 DEF Good

\* The next range; when there is none, the part file is the whole object.
LEMMA NextRangeStep ==
    ASSUME Types, Good, NextRange
    PROVE  Types' /\ Good'
<1>1. UNCHANGED <<size, overwrite, copy, row, task, part, dest, excuse>> /\ body' = <<>>
  BY DEF NextRange, others, callVars, fileVars
<1>2. CASE pc' = "returned"
  BY <1>1, <1>2, GoesOn DEF Fetched
<1>3. CASE pc' = "request" /\ task.done < size
  BY <1>1, <1>3, RangeGoesOn DEF Fetched, NextRange
<1>4. CASE pc' = "publish" /\ ~(task.done < size)
  <2>1. task.done = size
    BY <1>4, DoneType
  <2>2. part = Content
    BY <2>1 DEF NextRange, Good, AttemptOK, Fetched, Content
  <2>3. part' = Content'
    BY <1>1, <2>2 DEF Content
  <2>4. Types'
    BY <1>1 DEF Types
  <2>5. PartOK'
    BY <1>1 DEF Good, PartOK
  <2>6. AttemptOK'
    BY <1>4, <2>3 DEF AttemptOK, Fetched
  <2>7. DestOK'
    BY <1>1 DEF Good, DestOK, Content
  <2> QED
    BY <2>4, <2>5, <2>6, <2>7 DEF Good
<1> QED
  BY <1>2, <1>3, <1>4 DEF NextRange, Goto, Return

\* A range is requested.
LEMMA RequestStep ==
    ASSUME Types, Good, Request
    PROVE  Types' /\ Good'
<1>1. UNCHANGED <<size, overwrite, copy, row, task, part, dest, excuse>>
  BY DEF Request, others, callVars, fileVars
<1>2. pc = "request" /\ body = <<>> /\ task.done < size
  BY DEF Request, Good, AttemptOK
<1>3. \/ pc' = "returned"
      \/ pc' = "stream" /\ body' = body
      \/ pc' = "request" /\ body' = <<>>
  BY DEF Request, RequestFails, Retry, Goto, Return, rangeVars
<1>4. CASE pc' = "returned"
  BY <1>1, <1>4, GoesOn DEF Fetched
<1>5. CASE pc' \in {"stream", "request"} /\ body' = <<>>
  BY <1>1, <1>2, <1>5, RangeGoesOn DEF Fetched
<1> QED
  BY <1>2, <1>3, <1>4, <1>5

\* What an answer that is as long as expected has brought is the range.
LEMMA StreamStep ==
    ASSUME Types, Good, Stream
    PROVE  Types' /\ Good'
<1>1. UNCHANGED <<size, overwrite, copy, row, task, part, dest, excuse>>
  BY DEF Stream, others, callVars, fileVars
<1>2. pc = "stream" /\ body = <<>> /\ task.done < size
  BY DEF Stream, Good, AttemptOK
<1>3. /\ RangeEnd \in Nat /\ task.done \in Nat /\ Expected = RangeEnd - task.done
      /\ task.done < RangeEnd /\ RangeEnd <= size
  BY <1>2, RangeEndType
<1>4. \/ pc' = "returned"
      \/ pc' = "request" /\ body' = <<>>
      \/ /\ pc' = "append"
         /\ \E n \in 0..Expected + 1: /\ body' = body \o Bytes(task.done + 1, task.done + n)
                                     /\ Len(body') = Expected
  BY DEF Stream, Retry, Goto, Return
<1>5. CASE pc' = "returned"
  BY <1>1, <1>5, GoesOn DEF Fetched
<1>6. CASE pc' = "request" /\ body' = <<>>
  BY <1>1, <1>2, <1>6, RangeGoesOn DEF Fetched
<1>7. ASSUME NEW n \in 0..Expected + 1, pc' = "append", Len(body') = Expected,
             body' = body \o Bytes(task.done + 1, task.done + n)
      PROVE  Types' /\ Good'
  <2> DEFINE b == Bytes(task.done + 1, task.done + n)
  <2>1. /\ n \in Nat /\ task.done + 1 \in Nat \ {0} /\ task.done + n \in Nat
        /\ task.done + 1 <= task.done + n + 1 /\ task.done + n + 1 - (task.done + 1) = n
    BY <1>3
  <2>2. b \in Seq(Nat) /\ Len(b) = n
    <3> HIDE DEF b
    <3> QED
      BY <2>1, BytesType DEF b
  <2>3. body' = b
    <3>1. body' = <<>> \o b
      BY <1>2, <1>7
    <3> HIDE DEF b
    <3> QED
      BY <2>2, <3>1, ConcatEmptySeq
  <2>4. task.done + n = RangeEnd
    <3>1. n = Expected
      BY <1>7, <2>2, <2>3
    <3> QED
      BY <1>3, <2>1, <3>1
  <2>5. body' = Bytes(task.done + 1, RangeEnd)
    BY <2>3, <2>4
  <2>6. RangeEnd' = RangeEnd
    BY <1>1 DEF RangeEnd
  <2>7. part' = Bytes(1, task.done) /\ row.done <= task.done
    BY <1>1, <1>2 DEF Good, AttemptOK, Fetched
  <2>8. Types'
    BY <1>1 DEF Types
  <2>9. PartOK'
    BY <1>1 DEF Good, PartOK
  <2>10. AttemptOK'
    BY <1>1, <1>2, <1>7, <2>5, <2>6, <2>7 DEF AttemptOK, Fetched
  <2>11. DestOK'
    BY <1>1 DEF Good, DestOK, Content
  <2> QED
    BY <2>8, <2>9, <2>10, <2>11 DEF Good
<1> QED
  BY <1>4, <1>5, <1>6, <1>7

\* What an append leaves in the part file, whole or not, is a beginning of the object.
LEMMA Appended ==
    ASSUME Types, Good, pc = "append", NEW k \in 0..Len(body)
    PROVE  /\ task.done + k \in 0..size
           /\ Len(body) = RangeEnd - task.done
           /\ part \o SubSeq(body, 1, k) = Bytes(1, task.done + k)
           /\ part \o body = Bytes(1, RangeEnd)
<1>1. part = Bytes(1, task.done) /\ body = Bytes(task.done + 1, RangeEnd) /\ task.done < size
  BY DEF Good, AttemptOK, Fetched
<1>2. /\ RangeEnd \in Nat /\ task.done \in Nat /\ task.done < RangeEnd /\ RangeEnd <= size
      /\ size \in Nat
  BY <1>1, RangeEndType, DoneType
<1> DEFINE d == task.done
           e == RangeEnd
<1>3. d \in Nat /\ e \in Nat /\ d < e /\ e <= size /\ part = Bytes(1, d) /\ body = Bytes(d + 1, e)
  BY <1>1, <1>2
<1> HIDE DEF d, e
<1>4. Len(body) = e - d
  <2>1. d + 1 \in Nat \ {0} /\ d + 1 <= e + 1 /\ e + 1 - (d + 1) = e - d
    BY <1>3
  <2>2. Len(Bytes(d + 1, e)) = e + 1 - (d + 1)
    BY <1>3, <2>1, BytesType
  <2> QED
    BY <1>3, <2>1, <2>2
<1>5. k \in 0..(e - d) /\ d <= e /\ d + k \in 0..size /\ d + k \in Nat /\ d <= d + k
  BY <1>2, <1>3, <1>4
<1>6. SubSeq(body, 1, k) = Bytes(d + 1, d + k)
  BY <1>3, <1>5, BytesBeginning
<1>7. part \o Bytes(d + 1, d + k) = Bytes(1, d + k)
  BY <1>3, <1>5, BytesConcat
<1>8. part \o body = Bytes(1, e)
  BY <1>3, <1>5, BytesConcat
<1> QED
  BY <1>4, <1>5, <1>6, <1>7, <1>8 DEF d, e

\* The checkpoint moves and the status stays (run_download_inner).
LEMMA AdvancedType ==
    ASSUME NEW n \in Nat, NEW t \in TaskOf(n), NEW m, t.done + m \in 0..n
    PROVE  /\ [t EXCEPT !.done = @ + m] \in TaskOf(n)
           /\ [t EXCEPT !.done = @ + m].done = t.done + m
  BY DEF TaskOf

\* After an append the checkpoint is the length of the part file again; after a
\* failed one it lags behind.
LEMMA AppendRangeStep ==
    ASSUME Types, Good, AppendRange
    PROVE  Types' /\ Good'
<1>1. UNCHANGED <<size, overwrite, copy, row, dest, excuse>> /\ pc = "append"
  BY DEF AppendRange, others, callVars
<1>2. part = Bytes(1, task.done) /\ row.done <= task.done /\ task.done < size
  BY <1>1 DEF Good, AttemptOK, Fetched
<1>3. RangeEnd \in Nat /\ task.done < RangeEnd /\ RangeEnd <= size /\ task.done \in Nat
  BY <1>2, RangeEndType
<1>4. DestOK'
  BY <1>1 DEF Good, DestOK, Content
<1>5. ASSUME part' = part \o body, task' = [task EXCEPT !.done = @ + Len(body)], pc' = "save"
      PROVE  Types' /\ Good'
  <2>1. body = Bytes(task.done + 1, RangeEnd)
    BY <1>1 DEF Good, AttemptOK
  <2>2. Len(body) \in Nat
    <3>1. /\ task.done + 1 \in Nat \ {0} /\ task.done + 1 <= RangeEnd + 1
          /\ RangeEnd + 1 - (task.done + 1) \in Nat
      BY <1>3
    <3>2. Len(Bytes(task.done + 1, RangeEnd)) = RangeEnd + 1 - (task.done + 1)
      BY <1>3, <3>1, BytesType
    <3> QED
      BY <2>1, <3>1, <3>2
  <2>3. 0 \in 0..Len(body)
    BY <2>2
  <2>4. Len(body) = RangeEnd - task.done /\ part \o body = Bytes(1, RangeEnd)
    BY <1>1, <2>3, Appended
  <2>5. task.done + Len(body) = RangeEnd /\ RangeEnd \in 0..size /\ size \in Nat
    BY <1>3, <2>4, DoneType
  <2>6. task' \in TaskOf(size) /\ task'.done = RangeEnd
    BY <1>5, <2>5, AdvancedType DEF Types
  <2>7. part' = Bytes(1, task'.done)
    BY <1>5, <2>4, <2>6
  <2>8. row.done <= task'.done /\ task'.done \in Nat /\ task'.done <= task'.done
        /\ task'.done \in 0..size
    BY <1>2, <1>3, <2>5, <2>6, DoneType
  <2>9. Types'
    BY <1>1, <2>6 DEF Types
  <2>10. PartOK'
    BY <1>1, <2>7, <2>8 DEF PartOK
  <2>11. AttemptOK'
    BY <1>1, <1>5, <2>7, <2>8 DEF AttemptOK, Fetched
  <2> QED
    BY <1>4, <2>9, <2>10, <2>11 DEF Good
<1>6. ASSUME NEW k \in 0..Len(body), part' = part \o SubSeq(body, 1, k), task' = task,
             pc' = "returned"
      PROVE  Types' /\ Good'
  <2>1. part' = Bytes(1, task.done + k) /\ task.done + k \in 0..size
    BY <1>1, <1>6, Appended
  <2>2. row.done <= task.done + k /\ task.done <= task.done + k
    BY <1>2, <1>3, <2>1, DoneType
  <2>3. Types'
    BY <1>1, <1>6 DEF Types
  <2>4. PartOK'
    BY <1>1, <1>6, <2>1, <2>2 DEF PartOK
  <2>5. AttemptOK'
    BY <1>6 DEF AttemptOK, Fetched
  <2> QED
    BY <1>4, <2>3, <2>4, <2>5 DEF Good
<1> QED
  BY <1>5, <1>6 DEF AppendRange, Goto, Return

\* The new checkpoint is written.
LEMMA SaveRangeStep ==
    ASSUME Types, Good, SaveRange
    PROVE  Types' /\ Good'
<1>1. \/ row' = task /\ pc' = "range"
      \/ row' \in {row, task} /\ pc' = "returned"
  BY DEF SaveRange, Update, Goto, Return
<1>2. UNCHANGED <<size, overwrite, copy, task, part, dest, excuse>> /\ pc = "save"
  BY DEF SaveRange, others, callVars, fileVars
<1>3. Types'
  BY <1>1, <1>2 DEF Types
<1>4. PartOK'
  BY <1>1, <1>2 DEF Good, PartOK
<1>5. AttemptOK'
  <2>1. CASE pc' = "returned"
    BY <2>1 DEF AttemptOK, Fetched
  <2>2. CASE pc' = "range" /\ row' = task
    <3>1. task.done <= task.done
      BY DoneType
    <3>2. row'.done <= task'.done
      BY <1>2, <2>2, <3>1
    <3>3. part' = Bytes(1, task'.done)
      BY <1>2 DEF Good, AttemptOK, Fetched
    <3> QED
      BY <2>2, <3>2, <3>3 DEF AttemptOK, Fetched
  <2> QED
    BY <1>1, <2>1, <2>2
<1>6. DestOK'
  BY <1>2 DEF Good, DestOK, Content
<1> QED
  BY <1>3, <1>4, <1>5, <1>6 DEF Good

\* The attempt looks whether something is at the destination.
LEMMA PublishStep ==
    ASSUME Types, Good, Publish
    PROVE  Types' /\ Good'
<1>1. UNCHANGED <<size, overwrite, copy, row, task, part, dest, excuse>>
  BY DEF Publish, others, callVars, fileVars
<1>2. CASE pc' = "returned"
  BY <1>1, <1>2, GoesOn DEF Fetched
<1>3. CASE \/ pc' = "remove" /\ overwrite
           \/ pc' = "rename" /\ dest = NoFile
  <2>1. part = Content
    BY DEF Publish, Good, AttemptOK
  <2>2. part' = Content'
    BY <1>1, <2>1 DEF Content
  <2>3. AttemptOK'
    BY <1>1, <1>3, <2>2, DownloadAssumption DEF AttemptOK, Fetched
  <2>4. Types'
    BY <1>1 DEF Types
  <2>5. PartOK'
    BY <1>1 DEF Good, PartOK
  <2>6. DestOK'
    BY <1>1 DEF Good, DestOK, Content
  <2> QED
    BY <2>3, <2>4, <2>5, <2>6 DEF Good
<1> QED
  BY <1>2, <1>3 DEF Publish, Goto, Return, FileFails, Present

\* What is at the destination is removed.
LEMMA RemoveOldStep ==
    ASSUME Types, Good, RemoveOld
    PROVE  Types' /\ Good'
<1>1. UNCHANGED <<size, overwrite, copy, row, task, part, excuse>>
  BY DEF RemoveOld, others, callVars
<1>2. part' = Content'
  BY <1>1 DEF RemoveOld, Good, AttemptOK, Content
<1>3. \/ pc' = "rename" /\ dest' = NoFile
      \/ pc' = "returned" /\ dest' \in {dest, NoFile}
  BY DEF RemoveOld, Goto, Return, FileFails
<1>4. Types'
  BY <1>1 DEF Types
<1>5. PartOK'
  BY <1>1 DEF Good, PartOK
<1>6. AttemptOK'
  BY <1>2, <1>3, DownloadAssumption DEF AttemptOK, Fetched
<1>7. DestOK'
  BY <1>1, <1>3 DEF Good, DestOK, Content
<1> QED
  BY <1>4, <1>5, <1>6, <1>7 DEF Good

\* The part file takes its place, and is the object.
LEMMA RenameStep ==
    ASSUME Types, Good, Rename
    PROVE  Types' /\ Good'
<1>1. UNCHANGED <<size, overwrite, copy, row, task, excuse>> /\ pc' = "returned"
  BY DEF Rename, others, callVars, Return, FileFails
<1>2. part = Content
  BY DEF Rename, Good, AttemptOK
<1>3. \/ dest' = part /\ part' = NoFile
      \/ UNCHANGED <<part, dest>>
  BY DEF Rename, Renamed, FileFails, fileVars
<1>4. Types'
  BY <1>1 DEF Types
<1>5. PartOK'
  BY <1>1, <1>3 DEF Good, PartOK
<1>6. AttemptOK'
  BY <1>1 DEF AttemptOK, Fetched
<1>7. DestOK'
  BY <1>1, <1>2, <1>3 DEF Good, DestOK, Content
<1> QED
  BY <1>4, <1>5, <1>6, <1>7 DEF Good

\* A cancelled attempt removes the part file.
LEMMA ReturnedStep ==
    ASSUME Types, Good, Returned
    PROVE  Types' /\ Good'
<1>1. UNCHANGED <<size, overwrite, copy, row, task, dest, excuse>> /\ pc' = "finish"
  BY DEF Returned, RemovePart, others, callVars, Goto
<1>2. part' \in {part, NoFile}
  BY DEF Returned, RemovePart
<1>3. Types'
  BY <1>1 DEF Types
<1>4. PartOK'
  BY <1>1, <1>2 DEF Good, PartOK
<1>5. AttemptOK'
  BY <1>1 DEF AttemptOK, Fetched
<1>6. DestOK'
  BY <1>1 DEF Good, DestOK, Content
<1> QED
  BY <1>3, <1>4, <1>5, <1>6 DEF Good

\* The outcome is written.
LEMMA FinishStep ==
    ASSUME Types, Good, Finish
    PROVE  Types' /\ Good'
<1> DEFINE t == WithStatus(task, FinalStatus)
<1>1. t \in TaskOf(size) /\ t.done = task.done
  <2>1. FinalStatus \in Status
    BY DEF FinalStatus, Status
  <2> QED
    BY <2>1, WithStatusType DEF Types
<1>2. task' = t /\ row' \in {row, t} /\ pc' = "leave"
  BY DEF Finish, Update, Goto
<1>3. UNCHANGED <<size, overwrite, copy, part, dest, excuse>>
  BY DEF Finish, others, callVars, fileVars
<1> HIDE DEF t
<1>4. Types'
  BY <1>1, <1>2, <1>3 DEF Types
<1>5. PartOK'
  BY <1>1, <1>2, <1>3 DEF Good, PartOK
<1>6. AttemptOK'
  BY <1>2 DEF AttemptOK, Fetched
<1>7. DestOK'
  BY <1>3 DEF Good, DestOK, Content
<1> QED
  BY <1>4, <1>5, <1>6, <1>7 DEF Good

\* The attempt leaves active_tasks.
LEMMA LeaveStep ==
    ASSUME Types, Good, Leave
    PROVE  Types' /\ Good'
<1>1. UNCHANGED <<size, overwrite, copy, row, part, dest, excuse>> /\ pc' = "none" /\ task' = NewTask
  BY DEF Leave, Idle, callVars, fileVars
<1>2. NewTask \in TaskOf(size) /\ NewTask.done = 0
  BY NewTaskType DEF Types
<1>3. Types'
  BY <1>1, <1>2 DEF Types
<1>4. PartOK'
  BY <1>1, <1>2 DEF Good, PartOK
<1>5. AttemptOK'
  BY <1>1 DEF AttemptOK, Fetched
<1>6. DestOK'
  BY <1>1 DEF Good, DestOK, Content
<1> QED
  BY <1>3, <1>4, <1>5, <1>6 DEF Good

-----------------------------------------------------------------------------
(* The commands and the surroundings. *)

\* A command that writes no longer checkpoint than the row has disturbs no attempt.
LEMMA CommandKeeps ==
    ASSUME Types, Good, UNCHANGED <<size, overwrite, pc, task, body, part, dest>>,
           row' \in TaskOf(size), row'.done <= row.done, excuse \subseteq excuse'
    PROVE  Good'
<1>1. /\ size \in Nat /\ row.done \in Nat /\ task.done \in Nat /\ row'.done \in Nat
  BY DoneType DEF TaskOf
<1>2. PartOK'
  <2>1. CASE part = NoFile
    BY <2>1 DEF PartOK
  <2>2. CASE part # NoFile
    <3>1. PICK n \in 0..size: part = Bytes(1, n) /\ row.done <= n /\ task.done <= n
      BY <2>2 DEF Good, PartOK
    <3>2. row'.done <= n
      BY <1>1, <3>1
    <3> QED
      BY <3>1, <3>2 DEF PartOK
  <2> QED
    BY <2>1, <2>2
<1>3. AttemptOK'
  <2>1. Content' = Content /\ RangeEnd' = RangeEnd
    BY DEF Content, RangeEnd
  <2>2. row.done <= task.done => row'.done <= task.done
    BY <1>1
  <2> QED
    BY <2>1, <2>2 DEF Good, AttemptOK, Fetched
<1>4. DestOK'
  BY DEF Good, DestOK, Content
<1> QED
  BY <1>2, <1>3, <1>4 DEF Good

\* A copy that is used without harm claims no more than the row does (Outdated).
LEMMA InTime ==
    ASSUME Types, NEW c \in Caller, Outdated(c)
    PROVE  excuse \subseteq excuse' /\ (Defended' => copy[c].done <= row.done)
<1>1. copy[c].done \in Nat /\ row.done \in Nat
  BY DoneType
<1>2. copy[c].done > row.done \/ copy[c].done <= row.done
  BY <1>1
<1>3. CASE copy[c].done > row.done
  BY <1>3 DEF Outdated, Defended
<1>4. CASE copy[c].done <= row.done /\ ~(copy[c].done > row.done)
  BY <1>4 DEF Outdated
<1> QED
  BY <1>1, <1>2, <1>3, <1>4

\* Whatever a command does to its copy, a copy of the task it stays.
LEMMA CopyType ==
    ASSUME Types, NEW c \in Caller, NEW t \in TaskOf(size), UNCHANGED <<size, row, task>>,
           copy' = [copy EXCEPT ![c] = t]
    PROVE  Types'
  BY DEF Types

\* A command reads the row, and changes nothing.
LEMMA CommandRow ==
    ASSUME Types PROVE row \in TaskOf(size) /\ row.done <= row.done /\ excuse \subseteq excuse
  BY DoneType DEF Types

\* cancel or resume load the row.
LEMMA LoadStep ==
    ASSUME Types, Good, NEW c \in Caller, NEW to, Load(c, to)
    PROVE  Types' /\ Good'
<1>1. UNCHANGED <<size, overwrite, row, pc, task, body, part, dest, excuse>>
  BY DEF Load, callRest, attemptVars, rangeVars, fileVars
<1>2. copy' = [copy EXCEPT ![c] = row]
  BY DEF Load
<1>3. Types'
  BY <1>1, <1>2, CommandRow, CopyType
<1> QED
  BY <1>1, <1>3, CommandRow, CommandKeeps

\* What a command makes of its copy.
LEMMA CopyChanged ==
    ASSUME Types, NEW c \in Caller, UNCHANGED <<size, row, task>>,
           \/ Done(c)
           \/ \E s \in Status: copy' = [copy EXCEPT ![c] = WithStatus(@, s)]
           \/ UNCHANGED copy
    PROVE  Types'
<1>1. CASE Done(c)
  <2>1. copy' = [copy EXCEPT ![c] = NewTask]
    BY <1>1 DEF Done
  <2>2. NewTask \in TaskOf(size)
    BY DoneType, NewTaskType
  <2> QED
    BY <2>1, <2>2, CopyType
<1>2. ASSUME NEW s \in Status, copy' = [copy EXCEPT ![c] = WithStatus(@, s)]
      PROVE  Types'
  <2>1. WithStatus(copy[c], s) \in TaskOf(size)
    BY DoneType, WithStatusType
  <2>2. copy' = [copy EXCEPT ![c] = WithStatus(copy[c], s)]
    BY <1>2
  <2> QED
    BY <2>1, <2>2, CopyType
<1>3. CASE UNCHANGED copy
  BY <1>3 DEF Types
<1> QED
  BY <1>1, <1>2, <1>3

\* cancel tells a running attempt, or prepares to write the row.
LEMMA CancelStep ==
    ASSUME Types, Good, NEW c \in Caller, Cancel(c)
    PROVE  Types' /\ Good'
<1>1. UNCHANGED <<size, overwrite, row, pc, task, body, part, dest, excuse>>
  BY DEF Cancel, callRest, rangeVars, fileVars
<1>2. Done(c) \/ \E s \in Status: copy' = [copy EXCEPT ![c] = WithStatus(@, s)]
  BY DEF Cancel, WriteAs, Status
<1>3. Types'
  BY <1>1, <1>2, CopyChanged
<1> QED
  BY <1>1, <1>3, CommandRow, CommandKeeps

\* resume prepares to queue the task.
LEMMA ResumeStep ==
    ASSUME Types, Good, NEW c \in Caller, Resume(c)
    PROVE  Types' /\ Good'
<1>1. UNCHANGED <<size, overwrite, row, pc, task, body, part, dest, excuse>>
  BY DEF Resume, callRest, attemptVars, rangeVars, fileVars
<1>2. Done(c) \/ \E s \in Status: copy' = [copy EXCEPT ![c] = WithStatus(@, s)]
  BY DEF Resume, Status
<1>3. Types'
  BY <1>1, <1>2, CopyChanged
<1> QED
  BY <1>1, <1>3, CommandRow, CommandKeeps

\* A command writes its copy over the row: cancel does, and resume.
LEMMA RowWritten ==
    ASSUME Types, Good, NEW c \in Caller, Write(c) \/ Queue(c)
    PROVE  Types' /\ (Defended' => Good')
<1>1. UNCHANGED <<size, overwrite, pc, task, body, part, dest>>
  BY DEF Write, Queue, callRest, attemptVars, rangeVars, fileVars
<1>2. row' \in {row, copy[c]} /\ Outdated(c) /\ (Done(c) \/ UNCHANGED copy)
  BY DEF Write, Queue, Update
<1>3. copy[c] \in TaskOf(size) /\ row \in TaskOf(size) /\ row.done <= row.done
  BY CommandRow, DoneType
<1>4. copy' \in [Caller -> TaskOf(size)]
  <2>1. CASE Done(c)
    <3>1. NewTask \in TaskOf(size)
      BY DoneType, NewTaskType
    <3> QED
      BY <2>1, <3>1 DEF Done, Types
  <2> QED
    BY <1>2, <2>1 DEF Types
<1>5. Types'
  BY <1>1, <1>2, <1>3, <1>4 DEF Types
<1>6. ASSUME Defended' PROVE Good'
  <2>1. excuse \subseteq excuse' /\ copy[c].done <= row.done
    BY <1>2, <1>6, InTime
  <2>2. row' \in TaskOf(size) /\ row'.done <= row.done
    BY <1>2, <1>3, <2>1
  <2> QED
    BY <1>1, <2>1, <2>2, CommandKeeps
<1> QED
  BY <1>5, <1>6

\* An attempt starts on the caller's copy.
LEMMA SpawnStep ==
    ASSUME Types, Good, NEW c \in Caller, Spawn(c)
    PROVE  Types' /\ (Defended' => Good')
<1>1. UNCHANGED <<size, overwrite, row, body, part, dest>> /\ Done(c)
  BY DEF Spawn, callRest, rangeVars, fileVars
<1>2. CASE UNCHANGED <<pc, task, excuse>>
  <2>1. Types'
    BY <1>1, <1>2, CopyChanged
  <2> QED
    BY <1>1, <1>2, <2>1, CommandRow, CommandKeeps
<1>3. CASE pc' = "mark" /\ task' = copy[c] /\ Outdated(c)
  <2>1. copy[c] \in TaskOf(size)
    BY DoneType
  <2>2. copy' \in [Caller -> TaskOf(size)]
    <3>1. NewTask \in TaskOf(size)
      BY DoneType, NewTaskType
    <3> QED
      BY <1>1, <3>1 DEF Done, Types
  <2>3. Types'
    BY <1>1, <1>3, <2>1, <2>2 DEF Types
  <2>4. ASSUME Defended' PROVE Good'
    <3>1. copy[c].done <= row.done
      BY <1>3, <2>4, InTime
    <3>2. PartOK'
      <4>1. CASE part = NoFile
        BY <1>1, <4>1 DEF PartOK
      <4>2. CASE part # NoFile
        <5>1. PICK n \in 0..size: part = Bytes(1, n) /\ row.done <= n
          BY <4>2 DEF Good, PartOK
        <5>2. copy[c].done <= n
          BY <3>1, <5>1, DoneType
        <5> QED
          BY <1>1, <1>3, <5>1, <5>2 DEF PartOK
      <4> QED
        BY <4>1, <4>2
    <3>3. AttemptOK'
      BY <1>3 DEF AttemptOK, Fetched
    <3>4. DestOK'
      BY <1>1 DEF Good, DestOK, Content
    <3> QED
      BY <3>2, <3>3, <3>4 DEF Good
  <2> QED
    BY <2>3, <2>4
<1> QED
  BY <1>2, <1>3 DEF Spawn

\* Another object is put at the key while no attempt is under way.
LEMMA ObjectReplacedStep ==
    ASSUME Types, Good, ObjectReplaced
    PROVE  Types' /\ Good'
<1>1. UNCHANGED <<size, overwrite, row, copy, pc, task, body, part, dest, excuse>>
  BY DEF ObjectReplaced, attemptVars, callVars, rangeVars, fileVars
<1>2. Types'
  BY <1>1 DEF Types
<1> QED
  BY <1>1, <1>2, CommandRow, CommandKeeps

\* Another program's file appears at the destination.
LEMMA OtherCreatesStep ==
    ASSUME Types, Good, OtherCreates
    PROVE  Types' /\ Good'
<1>1. UNCHANGED <<size, overwrite, row, copy, pc, task, body, part>> /\ dest' = Theirs
  BY DEF OtherCreates, attemptVars, callVars, rangeVars
<1>2. pc = "rename" => "file appeared" \in excuse'
  BY DEF OtherCreates
<1>3. Types'
  BY <1>1 DEF Types
<1>4. PartOK'
  BY <1>1 DEF Good, PartOK
<1>5. AttemptOK'
  <2>1. Content' = Content /\ RangeEnd' = RangeEnd
    BY <1>1 DEF Content, RangeEnd
  <2> QED
    BY <1>1, <1>2, <2>1 DEF Good, AttemptOK, Fetched
<1>6. DestOK'
  BY <1>1 DEF DestOK
<1> QED
  BY <1>3, <1>4, <1>5, <1>6 DEF Good

\* After a restart the part file may hold more than the row says, never less.
LEMMA RestartStep ==
    ASSUME Types, Good, Restart
    PROVE  Types' /\ Good'
<1>1. /\ UNCHANGED <<size, overwrite, dest, excuse>> /\ pc' = "none" /\ task' = NewTask
      /\ row' = Recovered(row) /\ copy' = [c \in Caller |-> NewTask]
  BY DEF Restart, Idle
<1>2. NewTask \in TaskOf(size) /\ NewTask.done = 0 /\ size \in Nat
  BY DoneType, NewTaskType
<1>3. row' \in TaskOf(size) /\ row'.done = row.done
  <2>1. WithStatus(row, "paused") \in TaskOf(size) /\ WithStatus(row, "paused").done = row.done
    BY <1>2, WithStatusType DEF Types, Status
  <2> QED
    BY <1>1, <2>1 DEF Recovered, Types
<1>4. Types'
  BY <1>1, <1>2, <1>3 DEF Types
<1>5. PartOK'
  <2>1. CASE pc = "append"
    <3>1. PICK k \in 0..Len(body): part' = part \o SubSeq(body, 1, k)
      BY <2>1 DEF Restart
    <3>2. part' = Bytes(1, task.done + k) /\ task.done + k \in 0..size
      BY <2>1, <3>1, Appended
    <3>3. row.done <= task.done
      BY <2>1 DEF Good, AttemptOK, Fetched
    <3>4. row.done <= task.done + k /\ 0 <= task.done + k
      BY <3>1, <3>2, <3>3, DoneType
    <3> QED
      BY <1>1, <1>2, <1>3, <3>2, <3>4 DEF PartOK
  <2>2. CASE part' = part
    BY <1>1, <1>2, <1>3, <2>2 DEF Good, PartOK
  <2> QED
    BY <2>1, <2>2 DEF Restart
<1>6. AttemptOK'
  BY <1>1 DEF AttemptOK, Fetched
<1>7. DestOK'
  BY <1>1 DEF Good, DestOK, Content
<1> QED
  BY <1>4, <1>5, <1>6, <1>7 DEF Good

-----------------------------------------------------------------------------
(* The theorems. *)

\* No step of the attempt breaks the invariant (run_task).
LEMMA AttemptKeeps ==
    ASSUME Types, Good, AttemptStep
    PROVE  Types' /\ Good'
  BY MarkRunningStep, HeadObjectStep, HeadSaveStep, AlignStep, NextRangeStep, RequestStep,
     StreamStep, AppendRangeStep, SaveRangeStep, PublishStep, RemoveOldStep, RenameStep,
     ReturnedStep, FinishStep, LeaveStep DEF AttemptStep

\* No step of a command breaks it, as long as its copy is in time
\* (cancel_transfer, resume_transfer, spawn_task).
LEMMA CommandsKeep ==
    ASSUME Types, Good, CallStep
    PROVE  Types' /\ (Defended' => Good')
<1>1. PICK c \in Caller: Load(c, "cancel") \/ Load(c, "resume") \/ Continue(c)
  BY DEF CallStep
<1> QED
  BY <1>1, LoadStep, CancelStep, ResumeStep, RowWritten, SpawnStep DEF Continue

\* start_download has inserted the row, and there is no part file.
LEMMA InitHolds == Init => IInv
<1> SUFFICES ASSUME Init PROVE IInv
  OBVIOUS
<1>1. size \in Nat
  BY DownloadAssumption DEF Init
<1>2. NewTask \in TaskOf(size)
  BY <1>1, NewTaskType
<1>3. Types
  BY <1>1, <1>2 DEF Init, Types
<1>4. Good
  BY DEF Init, Good, PartOK, AttemptOK, DestOK, Fetched
<1> QED
  BY <1>3, <1>4 DEF IInv

\* Every step of the task, its commands and its surroundings keeps the invariant.
LEMMA NextKeeps == IInv /\ [Next]_vars => IInv'
<1> SUFFICES ASSUME IInv, [Next]_vars PROVE IInv'
  OBVIOUS
<1>1. CASE UNCHANGED vars
  <2>1. UNCHANGED <<size, overwrite, row, copy, pc, task, body, part, dest, excuse>>
    BY <1>1 DEF vars, attemptVars, callVars, rangeVars, fileVars
  <2>2. Types'
    BY <2>1 DEF IInv, Types
  <2>3. ASSUME Defended' PROVE Good'
    <3>1. Defended
      BY <2>1, <2>3 DEF Defended
    <3> QED
      BY <2>1, <3>1, CommandRow, CommandKeeps DEF IInv
  <2> QED
    BY <2>2, <2>3 DEF IInv
<1>2. CASE Next
  <2>1. Types /\ Good
    BY <1>2 DEF Next, IInv
  <2> QED
    BY <1>2, <2>1, AttemptKeeps, CommandsKeep, ObjectReplacedStep, OtherCreatesStep, RestartStep
       DEF Next, IInv
<1> QED
  BY <1>1, <1>2

\* The part file, the checkpoints and the destination stay consistent in every
\* behaviour (oss_transfer_service.rs).
THEOREM InvHolds == Spec => []IInv
<1> QED
  BY InitHolds, NextKeeps, PTL DEF Spec

\* What is published is the object, every byte once and in order (finalize_download_file).
THEOREM PublishedCorrect == Spec => []PublishedIsTheObject
<1>1. IInv => PublishedIsTheObject
  BY DEF IInv, Good, DestOK, PublishedIsTheObject, IsOurs
<1> QED
  BY <1>1, InvHolds, PTL

\* Only the removal and the rename that replaces touch what another program has put
\* at the destination, both with the whole download in the part file
\* (finalize_download_file).
THEOREM OldFileCorrect == Spec => OldFileGoesForTheWhole
<1> DEFINE Goes == /\ overwrite \/ "file appeared" \in excuse
                   /\ (Defended => part = Content)
           Replaces == dest = Theirs /\ dest' # Theirs => Goes
<1>1. IInv /\ [Next]_vars => [Replaces]_vars
  <2> SUFFICES ASSUME IInv, Next, dest = Theirs, dest' # Theirs PROVE Goes
    OBVIOUS
  <2>1. Good
    BY DEF IInv, Next
  <2>2. CASE RemoveOld
    BY <2>1, <2>2 DEF RemoveOld, Good, AttemptOK
  <2>3. CASE Rename
    BY <2>1, <2>3 DEF Rename, Good, AttemptOK
  <2>4. ASSUME AttemptStep, ~RemoveOld, ~Rename PROVE dest' = dest
    BY <2>4 DEF AttemptStep, MarkRunning, HeadObject, HeadSave, Align, NextRange, Request, Stream,
       AppendRange, SaveRange, Publish, Returned, Finish, Leave, fileVars
  <2>5. CASE CallStep
    <3>1. PICK c \in Caller: Load(c, "cancel") \/ Load(c, "resume") \/ Continue(c)
      BY <2>5 DEF CallStep
    <3>2. UNCHANGED callRest
      BY <3>1 DEF Load, Continue, Cancel, Write, Resume, Queue, Spawn
    <3> QED
      BY <3>2 DEF callRest, fileVars
  <2>6. CASE ObjectReplaced
    BY <2>6 DEF ObjectReplaced, fileVars
  <2>7. CASE OtherCreates
    BY <2>7 DEF OtherCreates
  <2>8. CASE Restart
    BY <2>8 DEF Restart
  <2> QED
    BY <2>2, <2>3, <2>4, <2>5, <2>6, <2>7, <2>8 DEF Next
<1>2. [][Replaces]_vars => OldFileGoesForTheWhole
  BY PTL DEF OldFileGoesForTheWhole
<1> QED
  BY <1>1, <1>2, InvHolds, PTL DEF Spec
=============================================================================
