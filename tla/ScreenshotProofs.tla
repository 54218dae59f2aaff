--------------------------- MODULE ScreenshotProofs ---------------------------
(***************************************************************************)
(* Proofs about Screenshot, for any number of sessions, failures, page     *)
(* requests and closings of the overlay:                                   *)
(*                                                                         *)
(*   ScreenshotTypeCorrect  Spec => []TypeOK                               *)
(*   WindowsCorrect         Spec => []NativeWindowsGoWithSession           *)
(*   PreviewCorrect         Spec => []PreviewStaysWithSession              *)
(*   HookCorrect            Spec => []HookGoesWithSession                  *)
(*   FilesCorrect           Spec => []FilesBelongToSession                 *)
(*                                                                         *)
(* A window is bound to go (Hid) when it is off the screen, or the last of *)
(* the commands its owner still has that shows or hides it hides it.  The  *)
(* invariant says how far the operation under way has come with the        *)
(* session (SessionOK), when the two windows are bound to go (GoneOK),     *)
(* that a preview that was shown has nothing left in its owner's queue     *)
(* (FirmOK), and whose each preview file is (FilesOK).                     *)
(***************************************************************************)
EXTENDS Screenshot, TLAPS

-----------------------------------------------------------------------------
(* The inductive invariant *)

\* Before a start stores its session, and after it.
Preparing == {"resetPreview", "resetInteraction", "clearInteraction", "hideOverlay",
              "captureLive", "captureFast", "captureDesktop", "overlay",
              "preparePreview", "showPreview", "store"}
Placing == {"prepareInteraction", "activate", "hook", "abort"}
Restore == {"closeOverlay", "hideInteraction", "hidePreview", "clearInteraction",
            "clearPreview", "endSession"}

TaskOK ==
    /\ task.op = "none" => task = Idle
    /\ task.op = "start" => task.at \in Preparing \cup Placing /\ task.id \in Session
    /\ task.op \in {"finish", "cancel"} => task.at \in Restore
    /\ call # NoCall => call.id \in Session
    /\ active.id = None => active = NoSession

SessionOK ==
    /\ active.id \notin fresh
    /\ task.op = "start" =>
         /\ ready = None /\ ~hook
         /\ task.id \notin fresh
         /\ task.at \in Preparing => active.id # task.id
         /\ task.at \in Placing =>
              \/ active.id = task.id /\ active.native = task.native /\ ~active.file
              \/ active = NoSession /\ "closed" \in stray
    /\ task.op = "finish" => active = NoSession \/ active.id = task.id
    /\ task.op = "cancel" => active = NoSession
    /\ hook /\ active = NoSession => "closed" \in stray

\* A window that never came up has had no command.
WindowOK(w) ==
    /\ w \in Window
    /\ w.state = "failed" => w.session = None /\ w.queue = <<>> /\ ~w.shown

\* The backend knows that its window is on the screen.
Known(w) == w.shown => w.known

WindowsOK ==
    /\ WindowOK(preview)
    /\ WindowOK(interaction)
    /\ Known(interaction)
    /\ stray = {} => Known(preview)

Hid(w) ==
    \/ ~w.shown /\ \A i \in 1..Len(w.queue): w.queue[i].op # "show"
    \/ \E h \in 1..Len(w.queue):
         w.queue[h].op = "hide" /\ \A i \in (h + 1)..Len(w.queue): w.queue[i].op # "show"

GoneOK ==
    stray = {} =>
      /\ active = NoSession /\ task.op \in {"none", "start"} => Hid(interaction)
      /\ active = NoSession /\ (task.op = "none" \/ (task.op = "start" /\ task.at # "store"))
           => Hid(preview)
      /\ task.op \in {"finish", "cancel"} =>
           /\ task.at \in {"hidePreview", "clearInteraction", "clearPreview", "endSession"}
                => Hid(interaction)
           /\ task.at \in {"clearInteraction", "clearPreview", "endSession"} => Hid(preview)

Firm == preview.shown /\ preview.queue = <<>>

FirmOK ==
    /\ task.op = "start" /\ task.native => Firm /\ task.at \in {"store"} \cup Placing
    /\ task.op = "none" /\ active # NoSession /\ ready = active.id /\ active.native => Firm

FilesOK ==
    /\ \A s \in files: writer[s] \in {"written", "dropped"} \/ (active.id = s /\ active.file)
    /\ active.file => active.id \in files /\ writer[active.id] = "none"
    /\ \A s \in Session: writer[s] # "none" => s \notin fresh
    /\ \A s \in Session: writer[s] = "dropped" => active.id # s
    /\ \A s \in Session: writer[s] = "written" => s \in files
    /\ task.op = "start" => writer[task.id] = "none"

IInv == TypeOK /\ TaskOK /\ SessionOK /\ WindowsOK /\ GoneOK /\ FirmOK /\ FilesOK

-----------------------------------------------------------------------------
(* The owner threads. *)

Outcome == [w: Window, ok: BOOLEAN, cost: Nat]

\* What a step of the owner keeps of a window.
Same(w, v) == v.state = w.state /\ v.session = w.session

LEMMA Outcomes ==
    ASSUME NEW w \in Window, NEW n \in Nat
    PROVE  /\ Done(w) \in Outcome /\ Done(w).w = w /\ Done(w).ok /\ Done(w).cost = 0
           /\ Fails(w, n) \in Outcome /\ Fails(w, n).w = w /\ ~Fails(w, n).ok
           /\ Fails(w, n).cost = n
BY DEF Outcome, Done, Fails

\* What the execution of a command by the owner of a window of kind k makes of it.
Executed(k, c, w, r) ==
    /\ r \in Outcome
    /\ Same(w, r.w) /\ r.w.queue = w.queue
    /\ c.op # "show" /\ ~w.shown => ~r.w.shown
    /\ c.op = "hide" /\ Known(w) => ~r.w.shown
    /\ k = "interaction" /\ Known(w) => Known(r.w)
    /\ c.op = "show" /\ r.ok => r.w.shown

LEMMA FramedWindow ==
    ASSUME NEW w \in Window, NEW id \in Session \cup {None}, NEW r \in Framed(w, id)
    PROVE  /\ r \in Outcome
           /\ Same(w, r.w) /\ r.w.queue = w.queue
           /\ r.w.shown = w.shown /\ r.w.known = w.known
<1> DEFINE v == [w EXCEPT !.at = id]
<1>1. /\ v \in Window /\ Same(w, v) /\ v.queue = w.queue
      /\ v.shown = w.shown /\ v.known = w.known
  BY DEF Window, Same
<1>2. r \in {Done(v), Fails(w, 1)}
  BY DEF Framed
<1> HIDE DEF v
<1>3. r \in Outcome /\ r.w \in {v, w}
  BY <1>1, <1>2, Outcomes
<1> QED  BY <1>1, <1>3 DEF Same

LEMMA MovedWindow ==
    ASSUME NEW w \in Window
    PROVE  /\ Moved(w) \in Window /\ Same(w, Moved(w)) /\ Moved(w).queue = w.queue
           /\ Moved(w).shown => w.shown /\ w.known
           /\ Moved(w).known = w.known
BY DEF Moved, Window, Same

LEMMA ExecutePrepare ==
    ASSUME NEW k \in Kind, NEW c \in Command, c.op = "prepare", NEW w \in Window,
           NEW r \in Execute(k, c, w)
    PROVE  Executed(k, c, w, r)
<1>1. c.id \in Session \cup {None}
  BY DEF Command
<1>2. CASE k = "preview"
  <2>1. r \in PreparePreviewWindow(w, c.id)
    BY <1>2 DEF Execute
  <2>2. CASE r = Fails(w, 1)
    BY <2>2, <1>2, Outcomes DEF Executed, Same
  <2>3. CASE r \in Framed(w, c.id)
    BY <2>3, <1>1, <1>2, FramedWindow DEF Executed
  <2>4. CASE r \in Framed(Moved(w), c.id)
    <3>1. /\ r \in Outcome
          /\ Same(Moved(w), r.w) /\ r.w.queue = Moved(w).queue
          /\ r.w.shown = Moved(w).shown /\ r.w.known = Moved(w).known
      BY <2>4, <1>1, FramedWindow, MovedWindow
    <3> QED  BY <3>1, <1>2, MovedWindow DEF Executed, Same, Known
  <2> QED  BY <2>1, <2>2, <2>3, <2>4 DEF PreparePreviewWindow
<1>3. CASE k = "interaction"
  <2> DEFINE v == [Moved(w) EXCEPT !.at = c.id]
  <2>1. v \in Window /\ Same(w, v) /\ v.queue = w.queue /\ v.known = w.known
        /\ (v.shown => w.shown /\ w.known)
    <3> DEFINE m == Moved(w)
    <3>1. m \in Window
      BY MovedWindow
    <3> HIDE DEF m
    <3>2. /\ [m EXCEPT !.at = c.id] \in Window /\ Same(m, [m EXCEPT !.at = c.id])
          /\ [m EXCEPT !.at = c.id].queue = m.queue
          /\ [m EXCEPT !.at = c.id].known = m.known
          /\ [m EXCEPT !.at = c.id].shown = m.shown
      BY <1>1, <3>1 DEF Window, Same
    <3> QED  BY <3>2, MovedWindow DEF Same, m
  <2>2. r \in {Done(v), Fails(w, 1), Fails(v, 1)}
    BY <1>3 DEF Execute, PrepareInteractionWindow
  <2> HIDE DEF v
  <2>3. r \in Outcome /\ r.w \in {v, w}
    BY <2>1, <2>2, Outcomes
  <2> QED  BY <2>1, <2>3 DEF Executed, Same, Known
<1> QED  BY <1>2, <1>3 DEF Kind

LEMMA ExecuteShow ==
    ASSUME NEW k \in Kind, NEW c \in Command, c.op = "show", NEW w \in Window,
           NEW r \in Execute(k, c, w)
    PROVE  Executed(k, c, w, r)
<1> DEFINE v == [w EXCEPT !.shown = TRUE, !.known = TRUE]
           u == [w EXCEPT !.shown = TRUE]
<1>1. /\ v \in Window /\ Same(w, v) /\ v.queue = w.queue /\ v.shown /\ v.known
      /\ u \in Window /\ Same(w, u) /\ u.queue = w.queue
  BY DEF Window, Same
<1>2. CASE k = "preview"
  <2>1. r \in {Done(v), Fails(w, 1), Fails(u, 1)}
    BY <1>2 DEF Execute, ShowPreviewWindow
  <2> HIDE DEF v, u
  <2>2. r \in Outcome /\ (r.w = v \/ (~r.ok /\ r.w \in {w, u}))
    BY <1>1, <2>1, Outcomes
  <2> QED  BY <1>1, <1>2, <2>2 DEF Executed, Same
<1>3. CASE k = "interaction"
  <2>1. r \in {Done(v), Fails(w, 1)}
    BY <1>3 DEF Execute, ShowInteractionWindow
  <2> HIDE DEF v, u
  <2>2. r \in Outcome /\ (r.w = v \/ (~r.ok /\ r.w = w))
    BY <1>1, <2>1, Outcomes
  <2> QED  BY <1>1, <1>3, <2>2 DEF Executed, Same, Known
<1> QED  BY <1>2, <1>3 DEF Kind

LEMMA ExecuteOther ==
    ASSUME NEW k \in Kind, NEW c \in Command, c.op \in {"hide", "clear", "update"},
           NEW w \in Window, NEW r \in Execute(k, c, w)
    PROVE  Executed(k, c, w, r)
<1>1. CASE c.op = "hide"
  <2> DEFINE v == IF w.known THEN [w EXCEPT !.shown = FALSE, !.known = FALSE] ELSE w
  <2>1. /\ v \in Window /\ Same(w, v) /\ v.queue = w.queue
        /\ IF w.known THEN ~v.shown ELSE v = w
    BY DEF Window, Same
  <2>2. r = Done(v)
    BY <1>1 DEF Execute, HideWindow
  <2> HIDE DEF v
  <2>3. r \in Outcome /\ r.w = v
    BY <2>1, <2>2, Outcomes
  <2> QED  BY <1>1, <2>1, <2>3 DEF Executed, Same, Known
<1>2. CASE c.op = "clear"
  <2> DEFINE v == [w EXCEPT !.at = None]
  <2>1. /\ v \in Window /\ Same(w, v) /\ v.queue = w.queue
        /\ v.shown = w.shown /\ v.known = w.known
    BY DEF Window, Same
  <2>2. r = Done(v)
    BY <1>2 DEF Execute, ClearWindow
  <2> HIDE DEF v
  <2>3. r \in Outcome /\ r.w = v
    BY <2>1, <2>2, Outcomes
  <2> QED  BY <1>2, <2>1, <2>3 DEF Executed, Same, Known
<1>3. CASE c.op = "update"
  <2>1. r \in {Done(w), Fails(w, 1)}
    BY <1>3 DEF Execute
  <2>2. r \in Outcome /\ r.w = w
    BY <2>1, Outcomes
  <2> QED  BY <1>3, <2>2 DEF Executed, Same
<1> QED  BY <1>1, <1>2, <1>3

\* A command the owner executes changes only what is on the screen.
LEMMA ExecuteEffect ==
    ASSUME NEW k \in Kind, NEW c \in Command, NEW w \in Window, NEW r \in Execute(k, c, w)
    PROVE  Executed(k, c, w, r)
BY ExecutePrepare, ExecuteShow, ExecuteOther DEF Command

-----------------------------------------------------------------------------
(* Queues. *)

LEMMA HidNow ==
    ASSUME NEW w \in Window, w.queue = <<>>
    PROVE  Hid(w) <=> ~w.shown
BY DEF Window, Hid

\* A window that is bound to go stays so until another command shows it.
LEMMA HidAppended ==
    ASSUME NEW w \in Window, NEW v \in Window, NEW c \in Command,
           v.queue = Append(w.queue, c), v.shown = w.shown,
           c.op # "show", Hid(w)
    PROVE  Hid(v)
<1> DEFINE q == w.queue
           p == v.queue
<1>1. q \in Seq(Command) /\ p = Append(q, c)
  BY DEF Window
<1>2. /\ Len(p) = Len(q) + 1 /\ Len(q) \in Nat
      /\ p[Len(p)] = c
      /\ \A i \in 1..Len(q): p[i] = q[i]
  BY <1>1
<1>3. CASE ~w.shown /\ \A i \in 1..Len(q): q[i].op # "show"
  <2>1. \A i \in 1..Len(p): p[i].op # "show"
    BY <1>2, <1>3
  <2> QED  BY <1>3, <2>1 DEF Hid
<1>4. CASE \E h \in 1..Len(q): q[h].op = "hide" /\ \A i \in (h + 1)..Len(q): q[i].op # "show"
  <2>1. PICK h \in 1..Len(q):
          q[h].op = "hide" /\ \A i \in (h + 1)..Len(q): q[i].op # "show"
    BY <1>4
  <2>2. h \in 1..Len(p) /\ p[h].op = "hide"
    BY <1>2, <2>1
  <2>3. \A i \in (h + 1)..Len(p): p[i].op # "show"
    <3> SUFFICES ASSUME NEW i \in (h + 1)..Len(p) PROVE p[i].op # "show"
      OBVIOUS
    <3>1. CASE i = Len(p)
      BY <3>1, <1>2
    <3>2. CASE i # Len(p)
      <4>1. i \in (h + 1)..Len(q) /\ i \in 1..Len(q)
        BY <3>2, <1>2, <2>1
      <4> QED  BY <4>1, <1>2, <2>1
    <3> QED  BY <3>1, <3>2
  <2> QED  BY <2>2, <2>3 DEF Hid
<1> QED  BY <1>3, <1>4 DEF Hid

LEMMA HideAppended ==
    ASSUME NEW w \in Window, NEW v, NEW c \in Command,
           v.queue = Append(w.queue, c), c.op = "hide"
    PROVE  Hid(v)
<1> DEFINE q == w.queue
           p == v.queue
<1>1. q \in Seq(Command) /\ p = Append(q, c)
  BY DEF Window
<1>2. Len(p) = Len(q) + 1 /\ Len(q) \in Nat /\ p[Len(p)] = c
  BY <1>1
<1>3. Len(p) \in 1..Len(p) /\ \A i \in (Len(p) + 1)..Len(p): p[i].op # "show"
  BY <1>2
<1> QED  BY <1>2, <1>3 DEF Hid

\* The owner takes the first command.
LEMMA HidTail ==
    ASSUME NEW w \in Window, NEW v \in Window, w.queue # <<>>,
           v.queue = Tail(w.queue), Hid(w),
           Head(w.queue).op # "show" /\ ~w.shown => ~v.shown,
           Head(w.queue).op = "hide" => ~v.shown
    PROVE  Hid(v)
<1> DEFINE q == w.queue
           p == v.queue
<1>1. q \in Seq(Command) /\ p = Tail(q) /\ q # <<>>
  BY DEF Window
<1>2. /\ Len(p) = Len(q) - 1 /\ Len(q) \in Nat \ {0}
      /\ Head(q) = q[1]
      /\ \A i \in 1..Len(p): p[i] = q[i + 1]
  BY <1>1
<1>3. CASE ~w.shown /\ \A i \in 1..Len(q): q[i].op # "show"
  <2>1. \A i \in 1..Len(p): p[i].op # "show"
    BY <1>2, <1>3
  <2>2. ~v.shown
    BY <1>2, <1>3
  <2> QED  BY <2>1, <2>2 DEF Hid
<1>4. CASE \E h \in 1..Len(q): q[h].op = "hide" /\ \A i \in (h + 1)..Len(q): q[i].op # "show"
  <2>1. PICK h \in 1..Len(q):
          q[h].op = "hide" /\ \A i \in (h + 1)..Len(q): q[i].op # "show"
    BY <1>4
  <2>2. CASE h = 1
    <3>1. \A i \in 1..Len(p): p[i].op # "show"
      BY <1>2, <2>1, <2>2
    <3>2. ~v.shown
      BY <1>2, <2>1, <2>2
    <3> QED  BY <3>1, <3>2 DEF Hid
  <2>3. CASE h # 1
    <3>1. h - 1 \in 1..Len(p) /\ p[h - 1].op = "hide"
      BY <1>2, <2>1, <2>3
    <3>2. \A i \in ((h - 1) + 1)..Len(p): p[i].op # "show"
      BY <1>2, <2>1, <2>3
    <3> QED  BY <3>1, <3>2 DEF Hid
  <2> QED  BY <2>2, <2>3
<1> QED  BY <1>3, <1>4 DEF Hid

-----------------------------------------------------------------------------
(* Requests. *)

\* What a request makes of a window, answered or given up.
Requested(k, c, w, r) ==
    /\ r \in Outcome
    /\ Same(w, r.w)
    /\ c.op # "show" /\ Hid(w) => Hid(r.w)
    /\ c.op = "hide" /\ Known(w) => Hid(r.w)
    /\ k = "interaction" /\ Known(w) => Known(r.w)
    /\ c.op = "show" /\ r.ok => r.w.shown /\ r.w.queue = <<>>

LEMMA RequestEffect ==
    ASSUME NEW k \in Kind, NEW c \in Command, NEW w \in Window, NEW r \in Request(k, c, w)
    PROVE  Requested(k, c, w, r)
<1> DEFINE v == [w EXCEPT !.queue = Append(@, c)]
<1>1. CASE w.queue = <<>> /\ r \in Execute(k, c, w)
  <2>1. Executed(k, c, w, r)
    BY <1>1, ExecuteEffect
  <2>2. r.w \in Window /\ r.w.queue = <<>>
    BY <1>1, <2>1 DEF Executed, Outcome
  <2>3. (Hid(w) <=> ~w.shown) /\ (Hid(r.w) <=> ~r.w.shown)
    BY <1>1, <2>2, HidNow
  <2> QED  BY <2>1, <2>2, <2>3 DEF Executed, Requested
<1>2. CASE r = Fails(v, 1)
  <2>1. /\ v \in Window /\ Same(w, v) /\ v.queue = Append(w.queue, c)
        /\ v.shown = w.shown /\ v.known = w.known
    <3>1. Append(w.queue, c) \in Seq(Command)
      BY DEF Window
    <3> QED  BY <3>1 DEF Window, Same
  <2> HIDE DEF v
  <2>2. r \in Outcome /\ ~r.ok /\ r.w = v
    BY <1>2, <2>1, Outcomes
  <2>3. c.op # "show" /\ Hid(w) => Hid(v)
    BY <2>1, HidAppended
  <2>4. c.op = "hide" => Hid(v)
    BY <2>1, HideAppended
  <2> QED  BY <2>1, <2>2, <2>3, <2>4 DEF Requested, Known
<1> QED  BY <1>1, <1>2 DEF Request

LEMMA Commands ==
    ASSUME NEW op \in {"prepare", "show", "hide", "clear", "update"},
           NEW id \in Session \cup {None}
    PROVE  Cmd(op, id) \in Command /\ Cmd(op, id).op = op /\ Cmd(op, id).id = id
BY DEF Cmd, Command

LEMMA RecordEffect ==
    ASSUME NEW outcomes, \A o \in outcomes: o \in Outcome,
           NEW state \in {"ready", "prepared", "visible", "hidden"},
           NEW session \in Session \cup {None},
           NEW r \in Record(outcomes, state, session)
    PROVE  \E o \in outcomes:
             /\ r \in Outcome /\ r.ok = o.ok /\ r.cost = o.cost
             /\ r.w.queue = o.w.queue /\ r.w.shown = o.w.shown /\ r.w.known = o.w.known
             /\ IF o.ok THEN r.w.state = state /\ r.w.session = session
                        ELSE Same(o.w, r.w)
<1>1. PICK o \in outcomes:
        r = IF o.ok THEN [o EXCEPT !.w.state = state, !.w.session = session] ELSE o
  BY DEF Record
<1>2. o \in Outcome
  OBVIOUS
<1>3. CASE o.ok
  <2>1. r = [o EXCEPT !.w.state = state, !.w.session = session]
    BY <1>1, <1>3
  <2> QED  BY <1>2, <1>3, <2>1 DEF Outcome, Window
<1>4. CASE ~o.ok
  BY <1>1, <1>2, <1>4 DEF Same
<1> QED  BY <1>3, <1>4

LEMMA HidSame ==
    ASSUME NEW w, NEW v, v.queue = w.queue, v.shown = w.shown
    PROVE  Hid(v) <=> Hid(w)
BY DEF Hid

-----------------------------------------------------------------------------
(* The services. *)

\* What a service makes of a window by a request with command c.
Served(k, c, w, r) ==
    /\ r \in Outcome
    /\ WindowOK(r.w)
    /\ c.op # "show" /\ Hid(w) => Hid(r.w)
    /\ c.op = "hide" /\ Known(w) => Hid(r.w)
    /\ k = "interaction" /\ Known(w) => Known(r.w)
    /\ c.op = "show" /\ r.ok => r.w.shown /\ r.w.queue = <<>>

LEMMA ServiceEffect ==
    ASSUME NEW k \in Kind, NEW c \in Command, NEW w, WindowOK(w), w.state # "failed",
           NEW state \in {"ready", "prepared", "visible", "hidden"},
           NEW session \in Session \cup {None},
           NEW r \in Record(Request(k, c, w), state, session)
    PROVE  Served(k, c, w, r)
<1>1. \A o \in Request(k, c, w): Requested(k, c, w, o)
  BY RequestEffect DEF WindowOK
<1>2. PICK o \in Request(k, c, w):
        /\ r \in Outcome /\ r.ok = o.ok /\ r.cost = o.cost
        /\ r.w.queue = o.w.queue /\ r.w.shown = o.w.shown /\ r.w.known = o.w.known
        /\ IF o.ok THEN r.w.state = state /\ r.w.session = session ELSE Same(o.w, r.w)
  <2> DEFINE all == Request(k, c, w)
  <2>1. \A o \in all: o \in Outcome
    BY <1>1 DEF Requested
  <2>2. r \in Record(all, state, session)
    OBVIOUS
  <2> HIDE DEF all
  <2>3. \E o \in all:
          /\ r \in Outcome /\ r.ok = o.ok /\ r.cost = o.cost
          /\ r.w.queue = o.w.queue /\ r.w.shown = o.w.shown /\ r.w.known = o.w.known
          /\ IF o.ok THEN r.w.state = state /\ r.w.session = session ELSE Same(o.w, r.w)
    BY <2>1, <2>2, RecordEffect
  <2> QED  BY <2>3 DEF all
<1>3. Requested(k, c, w, o)
  BY <1>1
<1>4. Hid(r.w) <=> Hid(o.w)
  BY <1>2, HidSame
<1>5. Known(r.w) <=> Known(o.w)
  BY <1>2 DEF Known
<1>6. r.w \in Window /\ r.w.state # "failed"
  BY <1>2, <1>3 DEF Outcome, Requested, Same
<1> QED  BY <1>2, <1>3, <1>4, <1>5, <1>6 DEF Requested, Served, WindowOK

LEMMA ReportedEffect ==
    ASSUME NEW outcomes, \A o \in outcomes: o \in Outcome, NEW r \in Reported(outcomes)
    PROVE  r \in Outcome /\ \E o \in outcomes: r.w = o.w
<1>1. CASE r \in outcomes
  BY <1>1
<1>2. CASE r \in {Fails(o.w, o.cost + 1): o \in {o \in outcomes: o.ok}}
  <2>1. PICK o \in outcomes: r = Fails(o.w, o.cost + 1)
    BY <1>2
  <2>2. o.w \in Window /\ o.cost + 1 \in Nat
    BY <2>1 DEF Outcome
  <2> QED  BY <2>1, <2>2, Outcomes
<1> QED  BY <1>1, <1>2 DEF Reported

\* A window after an operation of its service that does not show it.
Fine(w, r) ==
    /\ r \in Outcome
    /\ WindowOK(r.w)
    /\ Hid(w) => Hid(r.w)

LEMMA NotUp ==
    ASSUME NEW w, WindowOK(w), NEW n \in Nat
    PROVE  Fine(w, Done(w)) /\ Fine(w, Fails(w, n)) /\ Done(w).w = w /\ Fails(w, n).w = w
           /\ Done(w).ok /\ ~Fails(w, n).ok /\ (w.state = "failed" => Hid(w))
<1>1. w \in Window
  BY DEF WindowOK
<1>2. w.state = "failed" => Hid(w)
  BY <1>1, HidNow DEF WindowOK
<1> QED  BY <1>1, <1>2, Outcomes DEF Fine

LEMMA PreviewPreparedEffect ==
    ASSUME NEW w, WindowOK(w), NEW id \in Session, NEW r \in PreviewPrepared(w, id)
    PROVE  Fine(w, r)
<1>1. CASE w.state = "failed"
  BY <1>1, NotUp DEF PreviewPrepared
<1>2. CASE w.state # "failed"
  <2> DEFINE c == Cmd("prepare", id)
  <2>1. c \in Command /\ c.op = "prepare"
    BY Commands
  <2>2. r \in Record(Request("preview", c, w), "prepared", id)
    BY <1>2 DEF PreviewPrepared
  <2> HIDE DEF c
  <2>3. Served("preview", c, w, r)
    BY <1>2, <2>1, <2>2, ServiceEffect DEF Kind
  <2> QED  BY <2>1, <2>3 DEF Served, Fine
<1> QED  BY <1>1, <1>2

LEMMA PreviewShownEffect ==
    ASSUME NEW w, WindowOK(w), NEW r \in PreviewShown(w)
    PROVE  /\ r \in Outcome /\ WindowOK(r.w)
           /\ r.ok => r.w.shown /\ r.w.queue = <<>>
<1>1. CASE w.state \in {"ready", "failed"} \/ w.session = None
  BY <1>1, NotUp DEF PreviewShown, Fine
<1>2. CASE ~(w.state \in {"ready", "failed"} \/ w.session = None)
  <2> DEFINE c == Cmd("show", None)
  <2>1. c \in Command /\ c.op = "show"
    BY Commands
  <2>2. r \in Record(Request("preview", c, w), "visible", w.session)
    BY <1>2 DEF PreviewShown
  <2> HIDE DEF c
  <2>3. w.session \in Session \cup {None}
    BY DEF WindowOK, Window
  <2>4. Served("preview", c, w, r)
    BY <1>2, <2>1, <2>2, <2>3, ServiceEffect DEF Kind
  <2> QED  BY <2>1, <2>4 DEF Served
<1> QED  BY <1>1, <1>2

LEMMA PreviewHiddenEffect ==
    ASSUME NEW w, WindowOK(w), NEW r \in PreviewHidden(w)
    PROVE  Fine(w, r) /\ (Known(w) => Hid(r.w))
<1>1. CASE w.state = "failed"
  BY <1>1, NotUp DEF PreviewHidden
<1>2. CASE w.state # "failed"
  <2> DEFINE c == Cmd("hide", None)
  <2>1. c \in Command /\ c.op = "hide"
    BY Commands
  <2>2. r \in Record(Request("preview", c, w), "hidden", w.session)
    BY <1>2 DEF PreviewHidden
  <2> HIDE DEF c
  <2>3. w.session \in Session \cup {None}
    BY DEF WindowOK, Window
  <2>4. Served("preview", c, w, r)
    BY <1>2, <2>1, <2>2, <2>3, ServiceEffect DEF Kind
  <2> QED  BY <2>1, <2>4 DEF Served, Fine
<1> QED  BY <1>1, <1>2

LEMMA PreviewClearedEffect ==
    ASSUME NEW w, WindowOK(w), NEW r \in PreviewCleared(w)
    PROVE  Fine(w, r) /\ r.ok
<1> DEFINE v == [w EXCEPT !.session = None, !.state = IF @ = "failed" THEN @ ELSE "ready"]
<1>1. /\ WindowOK(v) /\ v.queue = w.queue /\ v.shown = w.shown
  BY DEF WindowOK, Window
<1>2. r = Done(v)
  BY DEF PreviewCleared
<1> HIDE DEF v
<1>3. v \in Window /\ (Hid(v) <=> Hid(w))
  BY <1>1, HidSame DEF WindowOK
<1> QED  BY <1>1, <1>2, <1>3, Outcomes DEF Fine

LEMMA InteractionPreparedEffect ==
    ASSUME NEW w, WindowOK(w), Known(w), NEW id \in Session,
           NEW r \in InteractionPrepared(w, id)
    PROVE  Fine(w, r) /\ Known(r.w)
<1>1. CASE w.state = "failed"
  BY <1>1, NotUp DEF InteractionPrepared
<1>2. CASE w.state # "failed"
  <2> DEFINE c == Cmd("prepare", id)
             all == Record(Request("interaction", c, w), "prepared", id)
  <2>1. c \in Command /\ c.op = "prepare"
    BY Commands
  <2>2. r \in Reported(all)
    BY <1>2 DEF InteractionPrepared
  <2> HIDE DEF c
  <2>3. \A o \in all: Served("interaction", c, w, o)
    BY <1>2, <2>1, ServiceEffect DEF Kind
  <2> HIDE DEF all
  <2>4. r \in Outcome /\ \E o \in all: r.w = o.w
    BY <2>2, <2>3, ReportedEffect DEF Served
  <2> QED  BY <2>1, <2>3, <2>4 DEF Served, Fine
<1> QED  BY <1>1, <1>2

LEMMA InteractionHiddenEffect ==
    ASSUME NEW w, WindowOK(w), Known(w), NEW r \in InteractionHidden(w)
    PROVE  Fine(w, r) /\ Known(r.w) /\ Hid(r.w)
<1>1. CASE w.state = "failed"
  BY <1>1, NotUp DEF InteractionHidden
<1>2. CASE w.state # "failed"
  <2> DEFINE c == Cmd("hide", None)
             all == Record(Request("interaction", c, w), "hidden", w.session)
  <2>1. c \in Command /\ c.op = "hide"
    BY Commands
  <2>2. r \in Reported(all)
    BY <1>2 DEF InteractionHidden
  <2> HIDE DEF c
  <2>3. w.session \in Session \cup {None}
    BY DEF WindowOK, Window
  <2>4. \A o \in all: Served("interaction", c, w, o)
    BY <1>2, <2>1, <2>3, ServiceEffect DEF Kind
  <2> HIDE DEF all
  <2>5. r \in Outcome /\ \E o \in all: r.w = o.w
    BY <2>2, <2>4, ReportedEffect DEF Served
  <2> QED  BY <2>1, <2>4, <2>5 DEF Served, Fine
<1> QED  BY <1>1, <1>2

LEMMA InteractionClearedEffect ==
    ASSUME NEW w, WindowOK(w), Known(w), NEW r \in InteractionCleared(w)
    PROVE  Fine(w, r) /\ Known(r.w)
<1>1. CASE w.state = "failed"
  BY <1>1, NotUp DEF InteractionCleared
<1>2. CASE w.state # "failed"
  <2> DEFINE c == Cmd("clear", None)
             all == Record(Request("interaction", c, w), "ready", None)
  <2>1. c \in Command /\ c.op = "clear"
    BY Commands
  <2>2. r \in Reported(all)
    BY <1>2 DEF InteractionCleared
  <2> HIDE DEF c
  <2>3. \A o \in all: Served("interaction", c, w, o)
    BY <1>2, <2>1, ServiceEffect DEF Kind
  <2> HIDE DEF all
  <2>4. r \in Outcome /\ \E o \in all: r.w = o.w
    BY <2>2, <2>3, ReportedEffect DEF Served
  <2> QED  BY <2>1, <2>3, <2>4 DEF Served, Fine
<1> QED  BY <1>1, <1>2

\* The reset of the preview: hide, and clear when that succeeded.
LEMMA ResetPreviewEffect ==
    ASSUME NEW w, WindowOK(w), NEW r \in ResetPreview(w)
    PROVE  Fine(w, r)
<1>1. CASE r \in PreviewHidden(w)
  BY <1>1, PreviewHiddenEffect
<1>2. CASE \E q \in PreviewHidden(w): \E s \in PreviewCleared(q.w):
             r = [s EXCEPT !.cost = @ + q.cost]
  <2>0. PICK q \in PreviewHidden(w): \E s \in PreviewCleared(q.w): r = [s EXCEPT !.cost = @ + q.cost]
    BY <1>2
  <2>1. PICK s \in PreviewCleared(q.w): r = [s EXCEPT !.cost = @ + q.cost]
    BY <2>0
  <2>2. Fine(w, q) /\ Fine(q.w, s)
    BY PreviewHiddenEffect, PreviewClearedEffect DEF Fine
  <2>3. s \in Outcome /\ q \in Outcome
    BY <2>2 DEF Fine
  <2>4. r \in Outcome /\ r.w = s.w
    BY <2>1, <2>3 DEF Outcome
  <2> QED  BY <2>2, <2>4 DEF Fine
<1>3. \/ r \in PreviewHidden(w)
      \/ \E q \in PreviewHidden(w): r \in {[s EXCEPT !.cost = @ + q.cost]: s \in PreviewCleared(q.w)}
  BY Zenon DEF ResetPreview, AndThen
<1> QED  BY <1>1, <1>2, <1>3

Display(w, visible) ==
    IF visible
      THEN Record(Request("interaction", Cmd("show", None), w), "visible", w.session)
      ELSE Record(Request("interaction", Cmd("hide", None), w), "hidden", w.session)

\* A request of the page leaves a window that is bound to go as it is, unless it
\* shows the window of its session.
LEMMA UpdateRuntimeEffect ==
    ASSUME NEW w, WindowOK(w), Known(w), NEW id \in Session, NEW visible \in BOOLEAN,
           NEW r \in UpdateRuntime(w, id, visible)
    PROVE  /\ r \in Outcome /\ WindowOK(r.w) /\ Known(r.w)
           /\ ~visible \/ w.session # id => (Hid(w) => Hid(r.w))
<1>1. CASE w.session # id
  BY <1>1, NotUp DEF UpdateRuntime, Fine
<1>2. CASE w.session = id
  <2> DEFINE c == Cmd("update", id)
             first == Request("interaction", c, w)
             all == AndThen(first, LAMBDA v: Display(v, visible))
  <2>1. w \in Window /\ w.state # "failed" /\ w.session # None
    BY <1>2, NativeWindowsAssumption DEF WindowOK
  <2>2. c \in Command /\ c.op = "update"
    BY Commands
  <2>3. r \in Reported(all)
    BY <1>2 DEF UpdateRuntime, Display
  <2>4. ASSUME NEW q \in first
        PROVE  /\ q \in Outcome /\ WindowOK(q.w) /\ q.w.state # "failed" /\ Known(q.w)
               /\ Hid(w) => Hid(q.w)
    <3>1. Requested("interaction", c, w, q)
      BY <2>1, <2>2, RequestEffect DEF Kind
    <3> QED  BY <2>1, <2>2, <3>1 DEF Requested, Same, Outcome, WindowOK
  <2>5. ASSUME NEW q \in first, NEW s \in Display(q.w, visible)
        PROVE  /\ s \in Outcome /\ WindowOK(s.w) /\ Known(s.w)
               /\ ~visible => (Hid(w) => Hid(s.w))
    <3>1. q.w.session \in Session \cup {None}
      BY <2>4 DEF WindowOK, Window
    <3>2. CASE visible
      <4> DEFINE d == Cmd("show", None)
      <4>1. d \in Command
        BY Commands
      <4>2. s \in Record(Request("interaction", d, q.w), "visible", q.w.session)
        BY <3>2 DEF Display
      <4> HIDE DEF d
      <4>3. Served("interaction", d, q.w, s)
        BY <2>4, <3>1, <4>1, <4>2, ServiceEffect DEF Kind
      <4> QED  BY <2>4, <3>2, <4>3 DEF Served
    <3>3. CASE ~visible
      <4> DEFINE d == Cmd("hide", None)
      <4>1. d \in Command /\ d.op = "hide"
        BY Commands
      <4>2. s \in Record(Request("interaction", d, q.w), "hidden", q.w.session)
        BY <3>3 DEF Display
      <4> HIDE DEF d
      <4>3. Served("interaction", d, q.w, s)
        BY <2>4, <3>1, <4>1, <4>2, ServiceEffect DEF Kind
      <4> QED  BY <2>4, <4>1, <4>3 DEF Served
    <3> QED  BY <3>2, <3>3
  <2>6. ASSUME NEW o \in all
        PROVE  /\ o \in Outcome /\ WindowOK(o.w) /\ Known(o.w)
               /\ ~visible => (Hid(w) => Hid(o.w))
    <3>1. \/ o \in first
          \/ \E q \in first: o \in {[s EXCEPT !.cost = @ + q.cost]: s \in Display(q.w, visible)}
      BY Zenon DEF AndThen
    <3>2. CASE o \in first
      BY <2>4, <3>2
    <3>3. CASE \E q \in first: \E s \in Display(q.w, visible): o = [s EXCEPT !.cost = @ + q.cost]
      <4>0. PICK q \in first: \E s \in Display(q.w, visible): o = [s EXCEPT !.cost = @ + q.cost]
        BY <3>3
      <4>1. PICK s \in Display(q.w, visible): o = [s EXCEPT !.cost = @ + q.cost]
        BY <4>0
      <4>2. s \in Outcome /\ q \in Outcome
        BY <2>4, <2>5
      <4>3. o \in Outcome /\ o.w = s.w
        BY <4>1, <4>2 DEF Outcome
      <4> QED  BY <2>5, <4>3
    <3> QED  BY <3>1, <3>2, <3>3
  <2> HIDE DEF all
  <2>7. r \in Outcome /\ \E o \in all: r.w = o.w
    BY <2>3, <2>6, ReportedEffect
  <2> QED  BY <1>2, <2>6, <2>7
<1> QED  BY <1>1, <1>2

\* A command nobody waits for any more.
LEMMA RunLateEffect ==
    ASSUME NEW k \in Kind, NEW w, WindowOK(w), w.queue # <<>>, NEW r \in RunLate(k, w)
    PROVE  /\ r \in Outcome /\ WindowOK(r.w)
           /\ Known(w) /\ Hid(w) => Hid(r.w)
           /\ k = "interaction" /\ Known(w) => Known(r.w)
<1> DEFINE c == Head(w.queue)
           v == [w EXCEPT !.queue = Tail(@)]
<1>1. w \in Window /\ w.queue \in Seq(Command) /\ w.state # "failed"
  BY DEF WindowOK, Window
<1>2. c \in Command /\ Tail(w.queue) \in Seq(Command)
  BY <1>1
<1>3. /\ v \in Window /\ Same(w, v) /\ v.queue = Tail(w.queue)
      /\ v.shown = w.shown /\ v.known = w.known
  BY <1>1, <1>2 DEF Window, Same
<1>4. r \in Execute(k, c, v)
  BY DEF RunLate
<1> HIDE DEF v
<1>5. Executed(k, c, v, r)
  BY <1>2, <1>3, <1>4, ExecuteEffect
<1>6. r.w \in Window /\ r.w.state # "failed" /\ r.w.queue = Tail(w.queue)
  BY <1>1, <1>3, <1>5 DEF Executed, Outcome, Same
<1>7. ASSUME Known(w), Hid(w) PROVE Hid(r.w)
  <2>1. c.op # "show" /\ ~w.shown => ~r.w.shown
    BY <1>3, <1>5 DEF Executed
  <2>2. c.op = "hide" => ~r.w.shown
    BY <1>3, <1>5, <1>7 DEF Executed, Known
  <2> QED  BY <1>1, <1>6, <1>7, <2>1, <2>2, HidTail
<1> QED  BY <1>3, <1>5, <1>6, <1>7 DEF Executed, WindowOK, Known

-----------------------------------------------------------------------------
(* The steps of an operation. *)

Tasks == [op: {"none", "start", "finish", "cancel"}, at: Phase, id: Session \cup {None},
          kind: {"none", "native", "raw", "file"}, native: BOOLEAN]

LEMMA IdleTask ==
    /\ Idle \in Tasks
    /\ Idle.op = "none" /\ Idle.at = "none" /\ Idle.id = None /\ Idle.native = FALSE
BY DEF Idle, Tasks, Phase

LEMMA SessionRecord ==
    /\ NoSession.id = None /\ NoSession.native = FALSE /\ NoSession.file = FALSE
    /\ NoSession \in [id: Session \cup {None}, native: BOOLEAN,
                      image: {"none", "loading", "ready", "failed"}, file: BOOLEAN]
BY DEF NoSession

\* The operation goes on to a phase of its own, with what it has found out.
Moves(phase) ==
    /\ task' \in Tasks
    /\ task'.op = task.op /\ task'.at = phase /\ task'.id = task.id

LEMMA GoMoves ==
    ASSUME TypeOK, NEW phase \in Phase, Go(phase)
    PROVE  Moves(phase) /\ task'.native = task.native
BY DEF TypeOK, Go, Moves, Tasks

\* The operation ends, or goes on before, or after, it has stored its session.
Onward ==
    \/ task' = Idle
    \/ /\ task.op = "start" /\ task.at \in Preparing
       /\ \E phase \in Preparing: Moves(phase)
    \/ /\ task.op = "start" /\ task.at \in Placing
       /\ \E phase \in Placing: Moves(phase)
       /\ task'.native = task.native
    \/ /\ task.op \in {"finish", "cancel"}
       /\ \E phase \in Restore: Moves(phase)

LEMMA OnwardInv ==
    ASSUME IInv, task.op # "none", Onward,
           UNCHANGED <<sessionVars, pageVars, fileVars, closes>>,
           overlay' \in {"hidden", "shown", "closed"}, WindowsOK',
           faults' \in 0..MaxFaults,
           stray \subseteq stray', stray' \subseteq {"anchor", "lateCall", "closed"}
    PROVE  TypeOK' /\ TaskOK' /\ SessionOK' /\ FilesOK'
<1>1. UNCHANGED <<active, hook, ready, fresh, page, call, writer, files, closes>>
  BY DEF sessionVars, pageVars, fileVars
<1>2. task' \in Tasks
  BY IdleTask DEF Onward, Moves
<1>3. TypeOK'
  BY <1>1, <1>2 DEF IInv, TypeOK, Tasks, WindowsOK, WindowOK
<1>4. \/ task' = Idle /\ task'.op = "none"
      \/ task.op = "start" /\ task'.op = "start" /\ task'.id = task.id
         /\ \/ task.at \in Preparing /\ task'.at \in Preparing
            \/ task.at \in Placing /\ task'.at \in Placing /\ task'.native = task.native
      \/ task.op \in {"finish", "cancel"} /\ task'.op = task.op /\ task'.id = task.id
         /\ task'.at \in Restore
  BY IdleTask DEF Onward, Moves
<1>5. TaskOK'
  BY <1>1, <1>4 DEF IInv, TaskOK
<1>6. SessionOK'
  BY <1>1, <1>4 DEF IInv, SessionOK, Preparing, Placing
<1>7. FilesOK'
  BY <1>1, <1>4 DEF IInv, FilesOK
<1> QED  BY <1>3, <1>5, <1>6, <1>7

\* What an outcome makes of the preview, and of the interaction window.
LEMMA PreviewStep ==
    ASSUME IInv, NEW r \in Outcome, WindowOK(r.w), faults + r.cost <= MaxFaults,
           preview' = r.w, faults' = faults + r.cost,
           stray' = stray \cup (IF r.w.shown /\ ~r.w.known THEN {"anchor"} ELSE {}),
           UNCHANGED interaction
    PROVE  /\ WindowsOK' /\ faults' \in 0..MaxFaults
           /\ stray \subseteq stray' /\ stray' \subseteq {"anchor", "lateCall", "closed"}
<1>1. r.cost \in Nat
  BY DEF Outcome
<1>2. faults' \in 0..MaxFaults
  BY <1>1, ScreenshotAssumption DEF IInv, TypeOK
<1>3. stray' = {} => Known(r.w)
  BY DEF Known
<1>4. WindowsOK'
  BY <1>3 DEF IInv, WindowsOK, WindowOK, Known
<1> QED  BY <1>2, <1>4 DEF IInv, TypeOK

LEMMA InteractionStep ==
    ASSUME IInv, NEW r \in Outcome, WindowOK(r.w), Known(r.w),
           faults + r.cost <= MaxFaults, interaction' = r.w, faults' = faults + r.cost,
           UNCHANGED preview, stray \subseteq stray'
    PROVE  WindowsOK' /\ faults' \in 0..MaxFaults
<1>1. r.cost \in Nat
  BY DEF Outcome
<1>2. faults' \in 0..MaxFaults
  BY <1>1, ScreenshotAssumption DEF IInv, TypeOK
<1>3. stray' = {} => stray = {}
  OBVIOUS
<1>4. WindowsOK'
  BY <1>3 DEF IInv, WindowsOK, WindowOK, Known
<1> QED  BY <1>2, <1>4

LEMMA WindowsStay ==
    ASSUME IInv, UNCHANGED <<preview, interaction>>, stray \subseteq stray'
    PROVE  WindowsOK'
BY DEF IInv, WindowsOK, WindowOK, Known

\* The phases are different.
LEMMA PhasesOfStart == Preparing \cap Placing = {} /\ Preparing \cup Placing \cup Restore \subseteq Phase
BY DEF Preparing, Placing, Restore, Phase

-----------------------------------------------------------------------------
(* start_session. *)

LEMMA StartInv ==
    ASSUME IInv, NEW id \in Session, Start(id)
    PROVE  IInv'
<1>1. /\ task = Idle /\ id \in fresh
      /\ fresh' = fresh \ {id} /\ hook' = FALSE /\ ready' = None
      /\ task' = [Idle EXCEPT !.op = "start", !.at = "resetPreview", !.id = id]
      /\ UNCHANGED <<preview, interaction, faults, overlay, active, page, call, writer,
                     files, stray, closes>>
  BY DEF Start, nativeVars, pageVars, fileVars
<1>2. /\ task' \in Tasks
      /\ task'.op = "start" /\ task'.at = "resetPreview" /\ task'.id = id /\ ~task'.native
  BY <1>1 DEF Idle, Tasks, Phase
<1>3. id # None /\ active.id # id
  BY <1>1, NativeWindowsAssumption DEF IInv, SessionOK
<1>4. TypeOK'
  BY <1>1, <1>2 DEF IInv, TypeOK, Tasks
<1>5. TaskOK'
  BY <1>1, <1>2 DEF IInv, TaskOK, Preparing
<1>6. SessionOK'
  BY <1>1, <1>2, <1>3 DEF IInv, SessionOK, Preparing, Placing
<1>7. WindowsOK'
  BY <1>1, WindowsStay
<1>8. GoneOK'
  BY <1>1, <1>2, IdleTask DEF IInv, GoneOK, Hid
<1>9. FirmOK'
  BY <1>1, <1>2 DEF IInv, FirmOK
<1>10. FilesOK'
  BY <1>1, <1>2 DEF IInv, FilesOK
<1> QED  BY <1>4, <1>5, <1>6, <1>7, <1>8, <1>9, <1>10 DEF IInv

\* A step of a start that has not shown its preview keeps windows that are bound to
\* go, which they are when there is no session.
LEMMA PreparingInv ==
    ASSUME IInv, task.op = "start", task.at \in Preparing \ {"store"},
           task' = Idle \/ \E phase \in Preparing: Moves(phase) /\ task'.native = task.native,
           UNCHANGED <<sessionVars, pageVars, fileVars, closes>>,
           overlay' \in {"hidden", "shown", "closed"}, WindowsOK',
           faults' \in 0..MaxFaults,
           stray \subseteq stray', stray' \subseteq {"anchor", "lateCall", "closed"},
           Hid(preview) => Hid(preview'), Hid(interaction) => Hid(interaction')
    PROVE  IInv'
<1>1. Onward
  BY DEF Onward
<1>2. TypeOK' /\ TaskOK' /\ SessionOK' /\ FilesOK'
  BY <1>1, OnwardInv
<1>3. UNCHANGED <<active, ready>>
  BY DEF sessionVars
<1>4. task' = Idle \/ (task'.op = "start" /\ task'.native = task.native)
  BY DEF Moves
<1>5. GoneOK'
  <2>1. Hid(preview)' <=> Hid(preview')
    BY DEF Hid
  <2>2. Hid(interaction)' <=> Hid(interaction')
    BY DEF Hid
  <2> QED  BY <1>3, <1>4, <2>1, <2>2, IdleTask DEF IInv, GoneOK
<1>6. FirmOK'
  <2>1. ~task.native
    BY PhasesOfStart DEF IInv, FirmOK
  <2>2. ready = None /\ (active # NoSession => active.id # None)
    BY DEF IInv, SessionOK, TaskOK
  <2> QED  BY <1>3, <1>4, <2>1, <2>2, IdleTask DEF FirmOK
<1> QED  BY <1>2, <1>5, <1>6 DEF IInv

LEMMA StartResetsPreviewInv ==
    ASSUME IInv, StartResetsPreview
    PROVE  IInv'
<1>1. PICK r \in ResetPreview(preview):
        /\ faults + r.cost <= MaxFaults /\ preview' = r.w /\ faults' = faults + r.cost
        /\ stray' = stray \cup (IF r.w.shown /\ ~r.w.known THEN {"anchor"} ELSE {})
        /\ Go("resetInteraction")
        /\ UNCHANGED interaction
  BY DEF StartResetsPreview, OnPreview
<1>2. /\ task.op = "start" /\ task.at = "resetPreview"
      /\ UNCHANGED <<overlay, sessionVars, pageVars, fileVars, closes>>
  BY DEF StartResetsPreview, At
<1>3. Fine(preview, r)
  BY ResetPreviewEffect DEF IInv, WindowsOK
<1>4. /\ WindowsOK' /\ faults' \in 0..MaxFaults
      /\ stray \subseteq stray' /\ stray' \subseteq {"anchor", "lateCall", "closed"}
  BY <1>1, <1>3, PreviewStep DEF Fine
<1>5. Moves("resetInteraction") /\ task'.native = task.native
  BY <1>1, GoMoves DEF IInv, Phase
<1>6. Hid(preview) => Hid(preview')
  BY <1>1, <1>3 DEF Fine
<1>7. UNCHANGED interaction /\ overlay' \in {"hidden", "shown", "closed"}
  BY <1>1, <1>2 DEF IInv, TypeOK
<1>8. task.at \in Preparing \ {"store"} /\ "resetInteraction" \in Preparing
  BY <1>2 DEF Preparing
<1> QED  BY <1>2, <1>4, <1>5, <1>6, <1>7, <1>8, PreparingInv

LEMMA StartResetsInteractionInv ==
    ASSUME IInv, StartResetsInteraction \/ StartClearsInteraction
    PROVE  IInv'
<1>1. PICK r \in InteractionHidden(interaction) \cup InteractionCleared(interaction),
           phase \in {"clearInteraction", "hideOverlay"}:
        /\ faults + r.cost <= MaxFaults /\ interaction' = r.w /\ faults' = faults + r.cost
        /\ Go(phase)
        /\ UNCHANGED preview
  <2>1. CASE StartResetsInteraction
    BY <2>1 DEF StartResetsInteraction, OnInteraction
  <2>2. CASE StartClearsInteraction
    BY <2>2 DEF StartClearsInteraction, OnInteraction
  <2> QED  BY <2>1, <2>2
<1>2. /\ task.op = "start" /\ task.at \in {"resetInteraction", "clearInteraction"}
      /\ UNCHANGED <<overlay, sessionVars, pageVars, fileVars, stray, closes>>
  BY DEF StartResetsInteraction, StartClearsInteraction, At
<1>3. Fine(interaction, r) /\ Known(r.w)
  BY InteractionHiddenEffect, InteractionClearedEffect DEF IInv, WindowsOK
<1>4. WindowsOK' /\ faults' \in 0..MaxFaults
  BY <1>1, <1>2, <1>3, InteractionStep DEF Fine
<1>5. Moves(phase) /\ task'.native = task.native
  BY <1>1, GoMoves DEF IInv, Phase
<1>6. Hid(interaction) => Hid(interaction')
  BY <1>1, <1>3 DEF Fine
<1>7. UNCHANGED preview /\ overlay' \in {"hidden", "shown", "closed"}
      /\ stray' = stray /\ stray \subseteq {"anchor", "lateCall", "closed"}
  BY <1>1, <1>2 DEF IInv, TypeOK
<1>8. task.at \in Preparing \ {"store"} /\ phase \in Preparing
  BY <1>2 DEF Preparing
<1> QED  BY <1>2, <1>4, <1>5, <1>6, <1>7, <1>8, PreparingInv

\* Between the resets and the preview the native windows stay as they are.
LEMMA CaptureInv ==
    ASSUME IInv,
           \/ StartHidesOverlay \/ CaptureLive \/ CaptureFast \/ CaptureDesktop
           \/ PrepareOverlay
    PROVE  IInv'
<1>1. /\ task.op = "start"
      /\ task.at \in {"hideOverlay", "captureLive", "captureFast", "captureDesktop", "overlay"}
      /\ UNCHANGED <<nativeVars, sessionVars, pageVars, fileVars, stray, closes>>
  BY DEF StartHidesOverlay, CaptureLive, CaptureFast, CaptureDesktop, PrepareOverlay, At
<1>2. overlay' \in {"hidden", "shown", "closed"}
  BY DEF StartHidesOverlay, CaptureLive, CaptureFast, CaptureDesktop, PrepareOverlay,
         IInv, TypeOK
<1>3. \/ task' = Idle
      \/ \E kind \in {"native", "raw", "file"}: Captured(kind)
      \/ \E phase \in {"captureLive", "captureFast", "captureDesktop", "preparePreview",
                        "store"}: Go(phase)
  BY DEF StartHidesOverlay, CaptureLive, CaptureFast, CaptureDesktop, PrepareOverlay, End
<1>4. \A phase \in {"captureLive", "captureFast", "captureDesktop", "preparePreview", "store"}:
        Go(phase) => Moves(phase) /\ task'.native = task.native
  <2>1. {"captureLive", "captureFast", "captureDesktop", "preparePreview", "store"} \subseteq Phase
    BY DEF Phase
  <2> QED  BY <2>1, GoMoves DEF IInv
<1>5. \A kind \in {"native", "raw", "file"}:
        Captured(kind) => Moves("overlay") /\ task'.native = task.native
  BY DEF Captured, IInv, TypeOK, Moves, Tasks, Phase
<1>6. task' = Idle \/ \E phase \in Preparing: Moves(phase) /\ task'.native = task.native
  BY <1>3, <1>4, <1>5 DEF Preparing
<1>7. UNCHANGED <<preview, interaction, faults, stray>>
  BY <1>1 DEF nativeVars
<1>8. WindowsOK' /\ faults' \in 0..MaxFaults /\ stray \subseteq {"anchor", "lateCall", "closed"}
  BY <1>7, WindowsStay DEF IInv, TypeOK
<1>9. task.at \in Preparing \ {"store"}
  BY <1>1 DEF Preparing
<1> QED  BY <1>1, <1>2, <1>6, <1>7, <1>8, <1>9, PreparingInv

LEMMA PreparePreviewInv ==
    ASSUME IInv, PreparePreview
    PROVE  IInv'
<1>1. PICK r \in PreviewPrepared(preview, task.id), phase \in {"showPreview", "store"}:
        /\ faults + r.cost <= MaxFaults /\ preview' = r.w /\ faults' = faults + r.cost
        /\ stray' = stray \cup (IF r.w.shown /\ ~r.w.known THEN {"anchor"} ELSE {})
        /\ Go(phase)
        /\ UNCHANGED interaction
  BY DEF PreparePreview, OnPreview
<1>2. /\ task.op = "start" /\ task.at = "preparePreview"
      /\ UNCHANGED <<overlay, sessionVars, pageVars, fileVars, closes>>
  BY DEF PreparePreview, At
<1>3. Fine(preview, r)
  BY <1>2, PreviewPreparedEffect DEF IInv, WindowsOK, TaskOK
<1>4. /\ WindowsOK' /\ faults' \in 0..MaxFaults
      /\ stray \subseteq stray' /\ stray' \subseteq {"anchor", "lateCall", "closed"}
  BY <1>1, <1>3, PreviewStep DEF Fine
<1>5. Moves(phase) /\ task'.native = task.native
  BY <1>1, GoMoves DEF IInv, Phase
<1>6. Hid(preview) => Hid(preview')
  BY <1>1, <1>3 DEF Fine
<1>7. UNCHANGED interaction /\ overlay' \in {"hidden", "shown", "closed"}
  BY <1>1, <1>2 DEF IInv, TypeOK
<1>8. task.at \in Preparing \ {"store"} /\ phase \in Preparing
  BY <1>2 DEF Preparing
<1> QED  BY <1>2, <1>4, <1>5, <1>6, <1>7, <1>8, PreparingInv

LEMMA ShowPreviewInv ==
    ASSUME IInv, ShowPreview
    PROVE  IInv'
<1>1. PICK r \in PreviewShown(preview):
        /\ faults + r.cost <= MaxFaults /\ preview' = r.w /\ faults' = faults + r.cost
        /\ stray' = stray \cup (IF r.w.shown /\ ~r.w.known THEN {"anchor"} ELSE {})
        /\ task' = [task EXCEPT !.at = "store", !.native = r.ok]
        /\ UNCHANGED interaction
  BY DEF ShowPreview, OnPreview
<1>2. /\ task.op = "start" /\ task.at = "showPreview"
      /\ UNCHANGED <<overlay, sessionVars, pageVars, fileVars, closes>>
  BY DEF ShowPreview, At
<1>3. /\ r \in Outcome /\ WindowOK(r.w)
      /\ r.ok => r.w.shown /\ r.w.queue = <<>>
  BY PreviewShownEffect DEF IInv, WindowsOK
<1>4. /\ WindowsOK' /\ faults' \in 0..MaxFaults
      /\ stray \subseteq stray' /\ stray' \subseteq {"anchor", "lateCall", "closed"}
  BY <1>1, <1>3, PreviewStep
<1>5. Moves("store") /\ task'.native = r.ok
  BY <1>1, <1>3 DEF IInv, TypeOK, Moves, Tasks, Phase, Outcome
<1>6. Onward
  BY <1>2, <1>5 DEF Onward, Preparing
<1>7. TypeOK' /\ TaskOK' /\ SessionOK' /\ FilesOK'
  BY <1>2, <1>4, <1>6, OnwardInv DEF IInv, TypeOK
<1>8. GoneOK'
  <2>1. UNCHANGED <<active, interaction>>
    BY <1>1, <1>2 DEF sessionVars
  <2> QED  BY <1>2, <1>4, <1>5, <2>1 DEF IInv, GoneOK, Moves, Hid
<1>9. FirmOK'
  BY <1>1, <1>2, <1>3, <1>5 DEF FirmOK, Firm, Moves
<1> QED  BY <1>4, <1>7, <1>8, <1>9 DEF IInv

LEMMA StoreSessionInv ==
    ASSUME IInv, StoreSession
    PROVE  IInv'
<1>1. /\ task.op = "start" /\ task.at = "store"
      /\ active' = [id |-> task.id, native |-> task.native, file |-> FALSE,
                    image |-> IF task.kind = "file" THEN "loading" ELSE "ready"]
      /\ files' = IF active.file THEN files \ {active.id} ELSE files
      /\ UNCHANGED <<preview, interaction, faults, overlay, hook, ready, fresh, page, call,
                     writer, stray, closes>>
  BY DEF StoreSession, At, nativeVars, pageVars
<1>2. PICK phase \in {"activate", "prepareInteraction"}: Go(phase)
  BY DEF StoreSession
<1>3. Moves(phase) /\ task'.native = task.native
  BY <1>2, GoMoves DEF IInv, Phase
<1>4. /\ active'.id = task.id /\ active'.native = task.native /\ ~active'.file
      /\ active' \in [id: Session \cup {None}, native: BOOLEAN,
                      image: {"none", "loading", "ready", "failed"}, file: BOOLEAN]
      /\ task.id \in Session /\ task.id # None
  BY <1>1, NativeWindowsAssumption DEF IInv, TypeOK, TaskOK
<1>5. active' # NoSession
  BY <1>4, SessionRecord
<1>6. files' \subseteq files
  BY <1>1
<1>7. task'.op = "start" /\ task'.at \in Placing /\ task'.id = task.id /\ task' \in Tasks
  BY <1>1, <1>3 DEF Moves, Placing
<1>8. TypeOK'
  BY <1>1, <1>4, <1>6, <1>7 DEF IInv, TypeOK, Tasks
<1>9. TaskOK'
  BY <1>1, <1>4, <1>7 DEF IInv, TaskOK
<1>10. SessionOK'
  BY <1>1, <1>3, <1>4, <1>5, <1>7, PhasesOfStart DEF IInv, SessionOK
<1>11. WindowsOK'
  BY <1>1, WindowsStay
<1>12. GoneOK'
  BY <1>5, <1>7 DEF GoneOK
<1>13. FirmOK'
  BY <1>1, <1>3, <1>7 DEF IInv, FirmOK, Firm
<1>14. FilesOK'
  <2>1. writer[task.id] = "none" /\ writer \in [Session -> {"none", "working", "written", "failed", "dropped"}]
    BY <1>1 DEF IInv, FilesOK, TypeOK
  <2>2. \A s \in files': s \in files /\ ~(active.id = s /\ active.file)
    BY <1>1
  <2>3. \A s \in Session: writer[s] = "written" => s \in files'
    BY <1>1 DEF IInv, FilesOK
  <2> QED  BY <1>1, <1>4, <1>7, <2>1, <2>2, <2>3 DEF IInv, FilesOK
<1> QED  BY <1>8, <1>9, <1>10, <1>11, <1>12, <1>13, <1>14 DEF IInv

\* A step of a start that has stored its session, which only the closing of the
\* overlay takes away.
LEMMA PlacingInv ==
    ASSUME IInv, task.op = "start", task.at \in Placing,
           \/ task' = Idle
           \/ /\ \E phase \in Placing: Moves(phase)
              /\ task'.native = task.native
              /\ UNCHANGED preview,
           UNCHANGED <<sessionVars, pageVars, fileVars, closes>>,
           overlay' \in {"hidden", "shown", "closed"}, WindowsOK',
           faults' \in 0..MaxFaults,
           stray \subseteq stray', stray' \subseteq {"anchor", "lateCall", "closed"}
    PROVE  IInv'
<1>1. Onward
  BY DEF Onward
<1>2. TypeOK' /\ TaskOK' /\ SessionOK' /\ FilesOK'
  BY <1>1, OnwardInv
<1>3. UNCHANGED <<active, ready>>
  BY DEF sessionVars
<1>4. task' = Idle \/ (task'.op = "start" /\ task'.native = task.native /\ UNCHANGED preview
                       /\ task'.at \in Placing)
  BY DEF Moves
<1>5. GoneOK'
  <2>1. active = NoSession => stray' # {}
    BY SessionRecord, NativeWindowsAssumption DEF IInv, SessionOK, TaskOK
  <2> QED  BY <1>3, <1>4, <2>1, IdleTask DEF GoneOK
<1>6. FirmOK'
  <2>1. ready = None /\ (active # NoSession => active.id # None)
    BY DEF IInv, SessionOK, TaskOK
  <2> QED  BY <1>3, <1>4, <2>1, IdleTask DEF IInv, FirmOK, Firm
<1> QED  BY <1>2, <1>5, <1>6 DEF IInv

LEMMA PrepareInteractionInv ==
    ASSUME IInv, PrepareInteraction
    PROVE  IInv'
<1>1. PICK r \in InteractionPrepared(interaction, task.id):
        /\ faults + r.cost <= MaxFaults /\ interaction' = r.w /\ faults' = faults + r.cost
        /\ Go("activate")
        /\ UNCHANGED preview
  BY DEF PrepareInteraction, OnInteraction
<1>2. /\ task.op = "start" /\ task.at = "prepareInteraction"
      /\ UNCHANGED <<overlay, sessionVars, pageVars, fileVars, stray, closes>>
  BY DEF PrepareInteraction, At
<1>3. Fine(interaction, r) /\ Known(r.w)
  BY <1>2, InteractionPreparedEffect DEF IInv, WindowsOK, TaskOK
<1>4. WindowsOK' /\ faults' \in 0..MaxFaults
  BY <1>1, <1>2, <1>3, InteractionStep DEF Fine
<1>5. Moves("activate") /\ task'.native = task.native
  BY <1>1, GoMoves DEF IInv, Phase
<1>6. overlay' \in {"hidden", "shown", "closed"} /\ stray' = stray
      /\ stray \subseteq {"anchor", "lateCall", "closed"}
  BY <1>2 DEF IInv, TypeOK
<1>7. task.at \in Placing /\ "activate" \in Placing
  BY <1>2 DEF Placing
<1> QED  BY <1>1, <1>2, <1>4, <1>5, <1>6, <1>7, PlacingInv

LEMMA ActivateInv ==
    ASSUME IInv, Activate
    PROVE  IInv'
<1>1. /\ task.op = "start" /\ task.at = "activate"
      /\ UNCHANGED <<preview, interaction, faults, stray>>
      /\ UNCHANGED <<sessionVars, pageVars, fileVars, closes>>
  BY DEF Activate, At, nativeVars
<1>2. overlay' \in {"hidden", "shown", "closed"}
  BY DEF Activate, IInv, TypeOK
<1>3. task' = Idle \/ Go("hook") \/ Go("abort")
  BY DEF Activate, End
<1>4. \A phase \in {"hook", "abort"}: Go(phase) => Moves(phase) /\ task'.native = task.native
  <2>1. {"hook", "abort"} \subseteq Phase
    BY DEF Phase
  <2> QED  BY <2>1, GoMoves DEF IInv
<1>5. WindowsOK' /\ faults' \in 0..MaxFaults /\ stray \subseteq {"anchor", "lateCall", "closed"}
  BY <1>1, WindowsStay DEF IInv, TypeOK
<1>6. task.at \in Placing /\ {"hook", "abort"} \subseteq Placing
  BY <1>1 DEF Placing
<1> QED  BY <1>1, <1>2, <1>3, <1>4, <1>5, <1>6, PlacingInv

LEMMA StartGivesUpInv ==
    ASSUME IInv, StartGivesUp
    PROVE  IInv'
<1>1. PICK r \in ResetPreview(preview):
        /\ faults + r.cost <= MaxFaults /\ preview' = r.w /\ faults' = faults + r.cost
        /\ stray' = stray \cup (IF r.w.shown /\ ~r.w.known THEN {"anchor"} ELSE {})
        /\ task' = Idle
        /\ UNCHANGED interaction
  BY DEF StartGivesUp, OnPreview, End
<1>2. /\ task.op = "start" /\ task.at = "abort"
      /\ UNCHANGED <<overlay, sessionVars, pageVars, fileVars, closes>>
  BY DEF StartGivesUp, At
<1>3. Fine(preview, r)
  BY ResetPreviewEffect DEF IInv, WindowsOK
<1>4. /\ WindowsOK' /\ faults' \in 0..MaxFaults
      /\ stray \subseteq stray' /\ stray' \subseteq {"anchor", "lateCall", "closed"}
  BY <1>1, <1>3, PreviewStep DEF Fine
<1>5. overlay' \in {"hidden", "shown", "closed"} /\ task.at \in Placing
  BY <1>2 DEF IInv, TypeOK, Placing
<1> QED  BY <1>1, <1>2, <1>4, <1>5, PlacingInv

LEMMA StartEndsInv ==
    ASSUME IInv, StartEnds
    PROVE  IInv'
<1>1. /\ task.op = "start" /\ task.at = "hook"
      /\ hook' \in BOOLEAN
      /\ writer' = IF task.kind = "file" THEN [writer EXCEPT ![task.id] = "working"] ELSE writer
      /\ ready' = task.id
      /\ task' = Idle
      /\ UNCHANGED <<preview, interaction, faults, overlay, active, fresh, page, call,
                     files, stray, closes>>
  BY DEF StartEnds, At, End, nativeVars, pageVars
<1>2. /\ task.id \in Session /\ task.id \notin fresh /\ writer[task.id] = "none"
      /\ writer \in [Session -> {"none", "working", "written", "failed", "dropped"}]
  BY <1>1 DEF IInv, TaskOK, SessionOK, FilesOK, TypeOK
<1>3. \/ active.id = task.id /\ active.native = task.native /\ ~active.file
      \/ active = NoSession /\ "closed" \in stray
  BY <1>1 DEF IInv, SessionOK, Placing
<1>4. TypeOK'
  BY <1>1, <1>2, IdleTask DEF IInv, TypeOK, Tasks
<1>5. TaskOK'
  BY <1>1, IdleTask DEF IInv, TaskOK
<1>6. SessionOK'
  <2>1. active.id = task.id => active # NoSession
    BY <1>2, SessionRecord, NativeWindowsAssumption
  <2> QED  BY <1>1, <1>3, <2>1, IdleTask DEF IInv, SessionOK
<1>7. WindowsOK'
  BY <1>1, WindowsStay
<1>8. GoneOK'
  <2>1. active.id = task.id => active # NoSession
    BY <1>2, SessionRecord, NativeWindowsAssumption
  <2> QED  BY <1>1, <1>3, <2>1, IdleTask DEF GoneOK
<1>9. FirmOK'
  BY <1>1, <1>3, IdleTask DEF IInv, FirmOK, Firm
<1>10. FilesOK'
  <2>1. \A s \in Session:
          /\ s # task.id => writer'[s] = writer[s]
          /\ writer'[task.id] \in {"none", "working"}
    BY <1>1, <1>2
  <2>2. files \subseteq Session /\ active.id \in Session \cup {None}
    BY DEF IInv, TypeOK
  <2>3. \A s \in files: writer'[s] \in {"written", "dropped"} \/ (active.id = s /\ active.file)
    BY <1>2, <2>1, <2>2 DEF IInv, FilesOK
  <2>4. active.file => active.id \in files /\ writer'[active.id] = "none"
    BY <1>3, <2>1, <2>2, SessionRecord DEF IInv, FilesOK
  <2>5. /\ \A s \in Session: writer'[s] # "none" => s \notin fresh
        /\ \A s \in Session: writer'[s] = "dropped" => active.id # s
    BY <1>2, <2>1 DEF IInv, FilesOK
  <2>6. \A s \in Session: writer'[s] = "written" => s \in files
    BY <2>1 DEF IInv, FilesOK
  <2> QED  BY <1>1, <2>3, <2>4, <2>5, <2>6, IdleTask DEF FilesOK
<1> QED  BY <1>4, <1>5, <1>6, <1>7, <1>8, <1>9, <1>10 DEF IInv

-----------------------------------------------------------------------------
(* copy_selection, save_selection and cancel_session. *)

LEMMA FinishInv ==
    ASSUME IInv, Finish
    PROVE  IInv'
<1>1. /\ task = Idle /\ active # NoSession
      /\ task' = [Idle EXCEPT !.op = "finish", !.at = "closeOverlay", !.id = active.id]
      /\ UNCHANGED <<preview, interaction, faults, overlay, active, hook, ready, fresh,
                     page, call, writer, files, stray, closes>>
  BY DEF Finish, nativeVars, sessionVars, pageVars, fileVars
<1>2. /\ task' \in Tasks
      /\ task'.op = "finish" /\ task'.at = "closeOverlay" /\ task'.id = active.id
  BY <1>1 DEF IInv, TypeOK, Idle, Tasks, Phase
<1>3. TypeOK'
  BY <1>1, <1>2 DEF IInv, TypeOK, Tasks
<1>4. TaskOK' /\ SessionOK' /\ FilesOK'
  BY <1>1, <1>2 DEF IInv, TaskOK, SessionOK, FilesOK, Restore
<1>5. WindowsOK'
  BY <1>1, WindowsStay
<1>6. GoneOK' /\ FirmOK'
  BY <1>1, <1>2 DEF GoneOK, FirmOK
<1> QED  BY <1>3, <1>4, <1>5, <1>6 DEF IInv

\* What the end of a session leaves.
LEMMA Dropped ==
    ASSUME IInv, DropSession
    PROVE  /\ active' = NoSession /\ ~hook' /\ hook' \in BOOLEAN
           /\ files' \subseteq files
           /\ \A s \in files': ~(active.id = s /\ active.file)
           /\ \A s \in Session: writer[s] = "written" => s \in files'
           /\ active'.id = None /\ ~active'.file
           /\ active' \in [id: Session \cup {None}, native: BOOLEAN,
                           image: {"none", "loading", "ready", "failed"}, file: BOOLEAN]
<1>1. \A s \in Session: writer[s] = "written" => s \in files'
  BY DEF DropSession, IInv, FilesOK
<1> QED  BY <1>1, SessionRecord DEF DropSession

LEMMA CancelInv ==
    ASSUME IInv, Cancel
    PROVE  IInv'
<1>1. /\ task = Idle /\ active # NoSession
      /\ task' = [Idle EXCEPT !.op = "cancel", !.at = "closeOverlay", !.id = active.id]
      /\ UNCHANGED <<preview, interaction, faults, overlay, ready, fresh,
                     page, call, writer, stray, closes>>
      /\ DropSession
  BY DEF Cancel, nativeVars, pageVars
<1>2. /\ task' \in Tasks
      /\ task'.op = "cancel" /\ task'.at = "closeOverlay"
  BY <1>1 DEF IInv, TypeOK, Idle, Tasks, Phase
<1>3. /\ active' = NoSession /\ ~hook' /\ hook' \in BOOLEAN
      /\ files' \subseteq files
      /\ \A s \in files': ~(active.id = s /\ active.file)
      /\ \A s \in Session: writer[s] = "written" => s \in files'
      /\ active'.id = None /\ ~active'.file
      /\ active' \in [id: Session \cup {None}, native: BOOLEAN,
                      image: {"none", "loading", "ready", "failed"}, file: BOOLEAN]
  BY <1>1, Dropped
<1>4. TypeOK'
  BY <1>1, <1>2, <1>3 DEF IInv, TypeOK, Tasks
<1>5. TaskOK'
  BY <1>1, <1>2, <1>3 DEF IInv, TaskOK, Restore
<1>6. SessionOK'
  BY <1>1, <1>2, <1>3, NativeWindowsAssumption DEF IInv, SessionOK, TypeOK
<1>7. FilesOK'
  BY <1>1, <1>2, <1>3, NativeWindowsAssumption DEF IInv, FilesOK
<1>8. WindowsOK'
  BY <1>1, WindowsStay
<1>9. GoneOK' /\ FirmOK'
  BY <1>1, <1>2 DEF GoneOK, FirmOK
<1> QED  BY <1>4, <1>5, <1>6, <1>7, <1>8, <1>9 DEF IInv

LEMMA CancelNothingInv ==
    ASSUME IInv, CancelNothing
    PROVE  IInv'
<1>1. /\ ~hook' /\ hook' \in BOOLEAN
      /\ UNCHANGED <<preview, interaction, faults, overlay, active, ready, fresh, task,
                     page, call, writer, files, stray, closes>>
  BY DEF CancelNothing, nativeVars, pageVars, fileVars
<1>2. TypeOK' /\ TaskOK' /\ SessionOK' /\ FilesOK'
  BY <1>1 DEF IInv, TypeOK, TaskOK, SessionOK, FilesOK
<1>3. WindowsOK'
  BY <1>1, WindowsStay
<1>4. GoneOK' /\ FirmOK'
  BY <1>1 DEF IInv, GoneOK, FirmOK, Firm, Hid
<1> QED  BY <1>2, <1>3, <1>4 DEF IInv

-----------------------------------------------------------------------------
(* restore_overlay_hot_state. *)

\* The part of a step that does not depend on what it does to a window.
LEMMA RestoringInv ==
    ASSUME IInv, task.op \in {"finish", "cancel"}, NEW phase \in Restore, Moves(phase),
           UNCHANGED <<sessionVars, pageVars, fileVars, closes>>,
           overlay' \in {"hidden", "shown", "closed"}, WindowsOK',
           faults' \in 0..MaxFaults,
           stray \subseteq stray', stray' \subseteq {"anchor", "lateCall", "closed"},
           stray' = {} /\ phase \in {"hidePreview", "clearInteraction", "clearPreview", "endSession"}
             => Hid(interaction'),
           stray' = {} /\ phase \in {"clearInteraction", "clearPreview", "endSession"}
             => Hid(preview')
    PROVE  IInv'
<1>1. Onward
  BY DEF Onward
<1>2. TypeOK' /\ TaskOK' /\ SessionOK' /\ FilesOK'
  BY <1>1, OnwardInv
<1>3. task'.op \in {"finish", "cancel"} /\ task'.at = phase
  BY DEF Moves
<1>4. GoneOK'
  <2>1. (Hid(preview)' <=> Hid(preview')) /\ (Hid(interaction)' <=> Hid(interaction'))
    BY DEF Hid
  <2> QED  BY <1>3, <2>1 DEF GoneOK
<1>5. FirmOK'
  BY <1>3 DEF FirmOK
<1> QED  BY <1>2, <1>4, <1>5 DEF IInv

LEMMA CloseOverlayInv ==
    ASSUME IInv, CloseOverlay
    PROVE  IInv'
<1>1. /\ task.op \in {"finish", "cancel"} /\ task.at = "closeOverlay"
      /\ Go("hideInteraction")
      /\ UNCHANGED <<preview, interaction, stray>>
      /\ UNCHANGED <<sessionVars, pageVars, fileVars, closes>>
  BY DEF CloseOverlay, Restoring
<1>2. overlay' \in {"hidden", "shown", "closed"} /\ faults' \in 0..MaxFaults
      /\ stray \subseteq {"anchor", "lateCall", "closed"}
  BY ScreenshotAssumption DEF CloseOverlay, IInv, TypeOK
<1>3. Moves("hideInteraction")
  BY <1>1, GoMoves DEF IInv, Phase
<1>4. WindowsOK'
  BY <1>1, WindowsStay
<1>5. "hideInteraction" \in Restore
  BY DEF Restore
<1> QED  BY <1>1, <1>2, <1>3, <1>4, <1>5, RestoringInv

LEMMA HideInteractionInv ==
    ASSUME IInv, HideInteraction
    PROVE  IInv'
<1>1. PICK r \in InteractionHidden(interaction):
        /\ faults + r.cost <= MaxFaults /\ interaction' = r.w /\ faults' = faults + r.cost
        /\ Go("hidePreview")
        /\ UNCHANGED preview
  BY DEF HideInteraction, OnInteraction
<1>2. /\ task.op \in {"finish", "cancel"} /\ task.at = "hideInteraction"
      /\ UNCHANGED <<overlay, sessionVars, pageVars, fileVars, stray, closes>>
  BY DEF HideInteraction, Restoring
<1>3. Fine(interaction, r) /\ Known(r.w) /\ Hid(r.w)
  BY InteractionHiddenEffect DEF IInv, WindowsOK
<1>4. WindowsOK' /\ faults' \in 0..MaxFaults
  BY <1>1, <1>2, <1>3, InteractionStep DEF Fine
<1>5. Moves("hidePreview")
  BY <1>1, GoMoves DEF IInv, Phase
<1>6. overlay' \in {"hidden", "shown", "closed"} /\ stray' = stray
      /\ stray \subseteq {"anchor", "lateCall", "closed"}
  BY <1>2 DEF IInv, TypeOK
<1>7. "hidePreview" \in Restore
  BY DEF Restore
<1>8. Hid(interaction')
  BY <1>1, <1>3
<1> QED  BY <1>2, <1>4, <1>5, <1>6, <1>7, <1>8, RestoringInv

LEMMA HidePreviewInv ==
    ASSUME IInv, HidePreview
    PROVE  IInv'
<1>1. PICK r \in PreviewHidden(preview):
        /\ faults + r.cost <= MaxFaults /\ preview' = r.w /\ faults' = faults + r.cost
        /\ stray' = stray \cup (IF r.w.shown /\ ~r.w.known THEN {"anchor"} ELSE {})
        /\ Go("clearInteraction")
        /\ UNCHANGED interaction
  BY DEF HidePreview, OnPreview
<1>2. /\ task.op \in {"finish", "cancel"} /\ task.at = "hidePreview"
      /\ UNCHANGED <<overlay, sessionVars, pageVars, fileVars, closes>>
  BY DEF HidePreview, Restoring
<1>3. Fine(preview, r) /\ (Known(preview) => Hid(r.w))
  BY PreviewHiddenEffect DEF IInv, WindowsOK
<1>4. /\ WindowsOK' /\ faults' \in 0..MaxFaults
      /\ stray \subseteq stray' /\ stray' \subseteq {"anchor", "lateCall", "closed"}
  BY <1>1, <1>3, PreviewStep DEF Fine
<1>5. Moves("clearInteraction")
  BY <1>1, GoMoves DEF IInv, Phase
<1>6. overlay' \in {"hidden", "shown", "closed"} /\ "clearInteraction" \in Restore
  BY <1>2 DEF IInv, TypeOK, Restore
<1>7. stray' = {} => Hid(preview') /\ Hid(interaction')
  <2>1. stray' = {} => stray = {}
    BY <1>4
  <2>2. stray = {} => Known(preview) /\ Hid(interaction)
    BY <1>2 DEF IInv, WindowsOK, GoneOK
  <2> QED  BY <1>1, <1>3, <2>1, <2>2
<1> QED  BY <1>2, <1>4, <1>5, <1>6, <1>7, RestoringInv

LEMMA ClearInteractionInv ==
    ASSUME IInv, ClearInteraction
    PROVE  IInv'
<1>1. PICK r \in InteractionCleared(interaction):
        /\ faults + r.cost <= MaxFaults /\ interaction' = r.w /\ faults' = faults + r.cost
        /\ Go("clearPreview")
        /\ UNCHANGED preview
  BY DEF ClearInteraction, OnInteraction
<1>2. /\ task.op \in {"finish", "cancel"} /\ task.at = "clearInteraction"
      /\ UNCHANGED <<overlay, sessionVars, pageVars, fileVars, stray, closes>>
  BY DEF ClearInteraction, Restoring
<1>3. Fine(interaction, r) /\ Known(r.w)
  BY InteractionClearedEffect DEF IInv, WindowsOK
<1>4. WindowsOK' /\ faults' \in 0..MaxFaults
  BY <1>1, <1>2, <1>3, InteractionStep DEF Fine
<1>5. Moves("clearPreview")
  BY <1>1, GoMoves DEF IInv, Phase
<1>6. overlay' \in {"hidden", "shown", "closed"} /\ stray' = stray
      /\ stray \subseteq {"anchor", "lateCall", "closed"} /\ "clearPreview" \in Restore
  BY <1>2 DEF IInv, TypeOK, Restore
<1>7. stray' = {} => Hid(preview') /\ Hid(interaction')
  BY <1>1, <1>2, <1>3 DEF IInv, GoneOK, Fine
<1> QED  BY <1>2, <1>4, <1>5, <1>6, <1>7, RestoringInv

LEMMA ClearPreviewInv ==
    ASSUME IInv, ClearPreview
    PROVE  IInv'
<1>1. PICK r \in PreviewCleared(preview):
        /\ faults + r.cost <= MaxFaults /\ preview' = r.w /\ faults' = faults + r.cost
        /\ stray' = stray \cup (IF r.w.shown /\ ~r.w.known THEN {"anchor"} ELSE {})
        /\ IF task.op = "finish" THEN Go("endSession") ELSE task' = Idle
        /\ UNCHANGED interaction
  BY DEF ClearPreview, OnPreview, End
<1>2. /\ task.op \in {"finish", "cancel"} /\ task.at = "clearPreview"
      /\ UNCHANGED <<overlay, sessionVars, pageVars, fileVars, closes>>
  BY DEF ClearPreview, Restoring
<1>3. Fine(preview, r)
  BY PreviewClearedEffect DEF IInv, WindowsOK
<1>4. /\ WindowsOK' /\ faults' \in 0..MaxFaults
      /\ stray \subseteq stray' /\ stray' \subseteq {"anchor", "lateCall", "closed"}
  BY <1>1, <1>3, PreviewStep DEF Fine
<1>5. overlay' \in {"hidden", "shown", "closed"} /\ "endSession" \in Restore
  BY <1>2 DEF IInv, TypeOK, Restore
<1>6. stray' = {} => Hid(preview') /\ Hid(interaction')
  <2>1. stray' = {} => stray = {}
    BY <1>4
  <2>2. stray = {} => Hid(preview) /\ Hid(interaction)
    BY <1>2 DEF IInv, GoneOK
  <2> QED  BY <1>1, <1>3, <2>1, <2>2 DEF Fine
<1>7. CASE task.op = "finish"
  <2>1. Moves("endSession")
    BY <1>1, <1>7, GoMoves DEF IInv, Phase
  <2> QED  BY <1>2, <1>4, <1>5, <1>6, <2>1, RestoringInv
<1>8. CASE task.op = "cancel"
  <2>1. task' = Idle
    BY <1>1, <1>8
  <2>2. Onward
    BY <2>1 DEF Onward
  <2>3. TypeOK' /\ TaskOK' /\ SessionOK' /\ FilesOK'
    BY <1>2, <1>4, <1>5, <2>2, OnwardInv
  <2>4. active' = NoSession
    BY <1>2, <1>8 DEF IInv, SessionOK, sessionVars
  <2>5. GoneOK'
    <3>1. (Hid(preview)' <=> Hid(preview')) /\ (Hid(interaction)' <=> Hid(interaction'))
      BY DEF Hid
    <3> QED  BY <1>6, <2>1, <3>1, IdleTask DEF GoneOK
  <2>6. FirmOK'
    BY <2>1, <2>4, IdleTask DEF FirmOK
  <2> QED  BY <1>4, <2>3, <2>5, <2>6 DEF IInv
<1> QED  BY <1>2, <1>7, <1>8

LEMMA EndSessionInv ==
    ASSUME IInv, EndSession
    PROVE  IInv'
<1>1. /\ task.op \in {"finish", "cancel"} /\ task.at = "endSession"
      /\ task' = Idle
      /\ UNCHANGED <<preview, interaction, faults, overlay, ready, fresh, page, call,
                     writer, stray, closes>>
  BY DEF EndSession, Restoring, End, nativeVars, pageVars
<1>2. /\ active' = NoSession /\ ~hook' /\ hook' \in BOOLEAN
      /\ files' \subseteq files
      /\ \A s \in files': ~(active.id = s /\ active.file)
      /\ \A s \in Session: writer[s] = "written" => s \in files'
      /\ active'.id = None /\ ~active'.file
      /\ active' \in [id: Session \cup {None}, native: BOOLEAN,
                      image: {"none", "loading", "ready", "failed"}, file: BOOLEAN]
  <2>1. CASE active = NoSession
    <3>1. (hook' = FALSE /\ UNCHANGED <<active, files>>) \/ DropSession
      BY <2>1 DEF EndSession
    <3> QED  BY <2>1, <3>1, SessionRecord, Dropped DEF IInv, FilesOK
  <2>2. CASE active # NoSession
    <3>1. active.id = task.id
      BY <1>1, <2>2 DEF IInv, SessionOK
    <3>2. DropSession
      BY <2>2, <3>1 DEF EndSession
    <3> QED  BY <3>2, Dropped
  <2> QED  BY <2>1, <2>2
<1>3. TypeOK'
  BY <1>1, <1>2, IdleTask DEF IInv, TypeOK, Tasks
<1>4. TaskOK'
  BY <1>1, <1>2, IdleTask DEF IInv, TaskOK
<1>5. SessionOK'
  BY <1>1, <1>2, IdleTask, NativeWindowsAssumption DEF IInv, SessionOK, TypeOK
<1>6. FilesOK'
  BY <1>1, <1>2, IdleTask, NativeWindowsAssumption DEF IInv, FilesOK
<1>7. WindowsOK'
  BY <1>1, WindowsStay
<1>8. GoneOK'
  BY <1>1, <1>2, IdleTask DEF IInv, GoneOK, Hid
<1>9. FirmOK'
  BY <1>1, <1>2, IdleTask DEF FirmOK
<1> QED  BY <1>3, <1>4, <1>5, <1>6, <1>7, <1>8, <1>9 DEF IInv

-----------------------------------------------------------------------------
(* What runs beside the operations. *)

\* A step that leaves the session and the operation under way alone.
LEMMA BesideInv ==
    ASSUME IInv,
           UNCHANGED <<overlay, active, hook, ready, fresh, task, writer, files, closes>>,
           page' \in Session \cup {None},
           call' \in [id: Session \cup {None}, visible: BOOLEAN],
           call' # NoCall => call'.id \in Session,
           WindowsOK', faults' \in 0..MaxFaults,
           stray \subseteq stray', stray' \subseteq {"anchor", "lateCall", "closed"}
    PROVE  TypeOK' /\ TaskOK' /\ SessionOK' /\ FilesOK'
<1>1. TypeOK'
  BY DEF IInv, TypeOK, WindowsOK, WindowOK
<1>2. TaskOK'
  BY DEF IInv, TaskOK
<1>3. SessionOK'
  BY DEF IInv, SessionOK
<1>4. FilesOK'
  BY DEF IInv, FilesOK
<1> QED  BY <1>1, <1>2, <1>3, <1>4

LEMMA OwnerRunsInv ==
    ASSUME IInv, OwnerRuns
    PROVE  IInv'
<1>1. UNCHANGED <<overlay, active, hook, ready, fresh, task, page, call, writer, files, closes>>
  BY DEF OwnerRuns, OnPreview, OnInteraction, sessionVars, pageVars, fileVars
<1>2. CASE /\ preview.queue # <<>>
           /\ OnPreview(RunLate("preview", preview), LAMBDA ok: UNCHANGED task)
  <2>1. PICK r \in RunLate("preview", preview):
          /\ faults + r.cost <= MaxFaults /\ preview' = r.w /\ faults' = faults + r.cost
          /\ stray' = stray \cup (IF r.w.shown /\ ~r.w.known THEN {"anchor"} ELSE {})
          /\ UNCHANGED interaction
    BY <1>2 DEF OnPreview
  <2>2. /\ r \in Outcome /\ WindowOK(r.w)
        /\ Known(preview) /\ Hid(preview) => Hid(r.w)
    BY <1>2, RunLateEffect DEF IInv, WindowsOK, Kind
  <2>3. /\ WindowsOK' /\ faults' \in 0..MaxFaults
        /\ stray \subseteq stray' /\ stray' \subseteq {"anchor", "lateCall", "closed"}
    BY <2>1, <2>2, PreviewStep
  <2>4. TypeOK' /\ TaskOK' /\ SessionOK' /\ FilesOK'
    BY <1>1, <2>3, BesideInv DEF IInv, TypeOK, TaskOK
  <2>5. GoneOK'
    <3>1. stray' = {} => stray = {} /\ Known(preview)
      BY <2>3 DEF IInv, WindowsOK
    <3>2. (Hid(preview)' <=> Hid(r.w)) /\ (Hid(interaction)' <=> Hid(interaction))
      BY <2>1 DEF Hid
    <3> QED  BY <1>1, <2>2, <3>1, <3>2 DEF IInv, GoneOK
  <2>6. FirmOK'
    BY <1>1, <1>2 DEF IInv, FirmOK, Firm
  <2> QED  BY <2>3, <2>4, <2>5, <2>6 DEF IInv
<1>3. CASE /\ interaction.queue # <<>>
           /\ OnInteraction(RunLate("interaction", interaction), LAMBDA ok: UNCHANGED task)
           /\ UNCHANGED stray
  <2>1. PICK r \in RunLate("interaction", interaction):
          /\ faults + r.cost <= MaxFaults /\ interaction' = r.w /\ faults' = faults + r.cost
          /\ UNCHANGED <<preview, stray>>
    BY <1>3 DEF OnInteraction
  <2>2. /\ r \in Outcome /\ WindowOK(r.w) /\ Known(r.w)
        /\ Hid(interaction) => Hid(r.w)
    BY <1>3, RunLateEffect DEF IInv, WindowsOK, Kind
  <2>3. WindowsOK' /\ faults' \in 0..MaxFaults
    BY <2>1, <2>2, InteractionStep
  <2>4. TypeOK' /\ TaskOK' /\ SessionOK' /\ FilesOK'
    BY <1>1, <2>1, <2>3, BesideInv DEF IInv, TypeOK, TaskOK
  <2>5. GoneOK'
    <3>1. (Hid(interaction)' <=> Hid(r.w)) /\ (Hid(preview)' <=> Hid(preview))
      BY <2>1 DEF Hid
    <3> QED  BY <1>1, <2>1, <2>2, <3>1 DEF IInv, GoneOK
  <2>6. FirmOK'
    BY <1>1, <2>1 DEF IInv, FirmOK, Firm
  <2> QED  BY <2>3, <2>4, <2>5, <2>6 DEF IInv
<1> QED  BY <1>2, <1>3 DEF OwnerRuns

LEMMA PageInv ==
    ASSUME IInv, PageLoads \/ PageCalls
    PROVE  IInv'
<1>1. UNCHANGED <<preview, interaction, faults, overlay, active, hook, ready, fresh, task,
                  writer, files, stray, closes>>
  BY DEF PageLoads, PageCalls, nativeVars, sessionVars, fileVars
<1>2. /\ page' \in Session \cup {None}
      /\ call' \in [id: Session \cup {None}, visible: BOOLEAN]
      /\ call' # NoCall => call'.id \in Session
  <2>1. CASE PageLoads
    BY <2>1 DEF PageLoads, IInv, TypeOK, TaskOK
  <2>2. CASE PageCalls
    BY <2>2 DEF PageCalls, IInv, TypeOK
  <2> QED  BY <2>1, <2>2
<1>3. WindowsOK'
  BY <1>1, WindowsStay
<1>4. TypeOK' /\ TaskOK' /\ SessionOK' /\ FilesOK'
  BY <1>1, <1>2, <1>3, BesideInv DEF IInv, TypeOK
<1>5. GoneOK' /\ FirmOK'
  BY <1>1 DEF IInv, GoneOK, FirmOK, Firm, Hid
<1> QED  BY <1>3, <1>4, <1>5 DEF IInv

LEMMA CallRunsInv ==
    ASSUME IInv, CallRuns
    PROVE  IInv'
<1>1. PICK r \in UpdateRuntime(interaction, call.id, call.visible):
        /\ faults + r.cost <= MaxFaults /\ interaction' = r.w /\ faults' = faults + r.cost
        /\ stray' = stray \cup
             (IF call.visible /\ interaction.session = call.id
                   /\ (task # Idle \/ active.id # call.id)
                THEN {"lateCall"} ELSE {})
        /\ UNCHANGED preview
  BY DEF CallRuns, OnInteraction
<1>2. /\ call # NoCall /\ call' = NoCall
      /\ UNCHANGED <<overlay, active, hook, ready, fresh, task, page, writer, files, closes>>
  BY DEF CallRuns, sessionVars, fileVars
<1>3. call.id \in Session /\ call.visible \in BOOLEAN
  BY <1>2 DEF IInv, TaskOK, TypeOK
<1>4. /\ r \in Outcome /\ WindowOK(r.w) /\ Known(r.w)
      /\ ~call.visible \/ interaction.session # call.id => (Hid(interaction) => Hid(r.w))
  BY <1>3, UpdateRuntimeEffect DEF IInv, WindowsOK
<1>5. stray \subseteq stray' /\ stray' \subseteq {"anchor", "lateCall", "closed"}
  BY <1>1 DEF IInv, TypeOK
<1>6. WindowsOK' /\ faults' \in 0..MaxFaults
  BY <1>1, <1>4, <1>5, InteractionStep
<1>7. /\ call' \in [id: Session \cup {None}, visible: BOOLEAN]
      /\ page' \in Session \cup {None}
  BY <1>2 DEF NoCall, IInv, TypeOK
<1>8. TypeOK' /\ TaskOK' /\ SessionOK' /\ FilesOK'
  BY <1>2, <1>5, <1>6, <1>7, BesideInv
<1>9. GoneOK'
  <2>1. (Hid(interaction)' <=> Hid(r.w)) /\ (Hid(preview)' <=> Hid(preview))
    BY <1>1 DEF Hid
  <2>2. CASE ~call.visible \/ interaction.session # call.id
    BY <1>1, <1>2, <1>4, <2>1, <2>2 DEF IInv, GoneOK
  <2>3. CASE call.visible /\ interaction.session = call.id /\ stray' = {}
    <3>1. task = Idle /\ active.id = call.id
      BY <1>1, <2>3
    <3>2. active # NoSession
      BY <1>3, <3>1, SessionRecord, NativeWindowsAssumption
    <3> QED  BY <1>2, <3>1, <3>2, IdleTask DEF GoneOK
  <2>4. CASE stray' # {}
    BY <2>4 DEF GoneOK
  <2> QED  BY <2>2, <2>3, <2>4
<1>10. FirmOK'
  BY <1>1, <1>2 DEF IInv, FirmOK, Firm
<1> QED  BY <1>6, <1>8, <1>9, <1>10 DEF IInv

\* The threads that prepare preview files.
LEMMA WriterInv ==
    ASSUME IInv, NEW s \in Session, WriteFile(s) \/ DropFile(s)
    PROVE  IInv'
<1>1. UNCHANGED <<preview, interaction, faults, overlay, active, hook, ready, fresh, task,
                  page, call, stray, closes>>
  BY DEF WriteFile, DropFile, nativeVars, sessionVars, pageVars
<1>2. writer \in [Session -> {"none", "working", "written", "failed", "dropped"}]
      /\ files \subseteq Session
  BY DEF IInv, TypeOK
<1>3. FilesOK' /\ files' \subseteq Session
      /\ writer' \in [Session -> {"none", "working", "written", "failed", "dropped"}]
  <2>1. CASE WriteFile(s)
    <3>1. PICK new \in {"written", "failed"}:
            /\ writer[s] = "working" /\ writer' = [writer EXCEPT ![s] = new]
            /\ files' = IF new = "written" THEN files \cup {s} ELSE files
      BY <2>1 DEF WriteFile
    <3>2. writer'[s] = new /\ \A t \in Session \ {s}: writer'[t] = writer[t]
      BY <1>2, <3>1
    <3>3. s \notin fresh /\ ~(active.id = s /\ active.file)
          /\ ~(task.op = "start" /\ task.id = s)
      BY <3>1 DEF IInv, FilesOK
    <3>4. \A t \in files': writer'[t] \in {"written", "dropped"} \/ (active.id = t /\ active.file)
      BY <1>2, <3>1, <3>2 DEF IInv, FilesOK
    <3>5. active.file => active.id \in files' /\ writer'[active.id] = "none"
      BY <1>2, <3>1, <3>2, <3>3 DEF IInv, FilesOK
    <3>6. task.op = "start" => writer'[task.id] = "none"
      BY <3>2, <3>3 DEF IInv, FilesOK, TaskOK
    <3>7. \A t \in Session: writer'[t] = "written" => t \in files'
      BY <3>1, <3>2 DEF IInv, FilesOK
    <3> QED  BY <1>1, <1>2, <3>1, <3>2, <3>3, <3>4, <3>5, <3>6, <3>7 DEF IInv, FilesOK
  <2>2. CASE DropFile(s)
    <3>1. /\ writer[s] = "dropped" /\ writer' = [writer EXCEPT ![s] = "none"]
          /\ files' = files \ {s}
      BY <2>2 DEF DropFile
    <3>2. writer'[s] = "none" /\ \A t \in Session \ {s}: writer'[t] = writer[t]
      BY <1>2, <3>1
    <3>3. active.id # s
      BY <3>1 DEF IInv, FilesOK
    <3>4. \A t \in files': writer'[t] \in {"written", "dropped"} \/ (active.id = t /\ active.file)
      BY <1>2, <3>1, <3>2 DEF IInv, FilesOK
    <3>5. active.file => active.id \in files' /\ writer'[active.id] = "none"
      BY <1>2, <3>1, <3>2, <3>3 DEF IInv, FilesOK
    <3>6. task.op = "start" => writer'[task.id] = "none"
      BY <3>2 DEF IInv, FilesOK, TaskOK
    <3>7. \A t \in Session: writer'[t] = "written" => t \in files'
      BY <3>1, <3>2 DEF IInv, FilesOK
    <3> QED  BY <1>1, <1>2, <3>1, <3>2, <3>4, <3>5, <3>6, <3>7 DEF IInv, FilesOK
  <2> QED  BY <2>1, <2>2
<1>4. TypeOK' /\ TaskOK' /\ SessionOK'
  BY <1>1, <1>3 DEF IInv, TypeOK, TaskOK, SessionOK
<1>5. WindowsOK'
  BY <1>1, WindowsStay
<1>6. GoneOK' /\ FirmOK'
  BY <1>1 DEF IInv, GoneOK, FirmOK, Firm, Hid
<1> QED  BY <1>3, <1>4, <1>5, <1>6 DEF IInv

LEMMA TakeFileInv ==
    ASSUME IInv, NEW s \in Session, TakeFile(s)
    PROVE  IInv'
<1>1. /\ writer[s] \in {"written", "failed"}
      /\ UNCHANGED <<preview, interaction, faults, overlay, hook, ready, fresh, task,
                     page, call, files, stray, closes>>
  BY DEF TakeFile, nativeVars, pageVars
<1>2. writer \in [Session -> {"none", "working", "written", "failed", "dropped"}]
  BY DEF IInv, TypeOK
<1>3. ~(task.op = "start" /\ task.id = s) /\ s \notin fresh
  BY <1>1 DEF IInv, FilesOK
<1>4. CASE active.id = s
  <2>1. /\ active' = [active EXCEPT !.file = writer[s] = "written",
                        !.image = IF writer[s] = "written" THEN "ready" ELSE "failed"]
        /\ writer' = [writer EXCEPT ![s] = "none"]
    BY <1>4 DEF TakeFile
  <2>2. /\ active'.id = s /\ active'.native = active.native
        /\ active'.file = (writer[s] = "written")
        /\ active' \in [id: Session \cup {None}, native: BOOLEAN,
                        image: {"none", "loading", "ready", "failed"}, file: BOOLEAN]
    BY <1>4, <2>1 DEF IInv, TypeOK
  <2>3. s # None /\ active' # NoSession /\ active # NoSession
    BY <1>4, <2>2, SessionRecord, NativeWindowsAssumption
  <2>4. writer'[s] = "none" /\ \A t \in Session \ {s}: writer'[t] = writer[t]
    BY <1>2, <2>1
  <2>5. ~active.file
    BY <1>1, <1>4 DEF IInv, FilesOK
  <2>6. TypeOK'
    BY <1>1, <1>2, <2>1, <2>2 DEF IInv, TypeOK
  <2>7. TaskOK'
    BY <1>1, <2>2, <2>3 DEF IInv, TaskOK
  <2>8. SessionOK'
    BY <1>1, <1>3, <1>4, <2>2, <2>3 DEF IInv, SessionOK
  <2>9. WindowsOK'
    BY <1>1, WindowsStay
  <2>10. GoneOK'
    BY <1>1, <2>3 DEF IInv, GoneOK, Hid
  <2>11. FirmOK'
    BY <1>1, <1>4, <2>2, <2>3 DEF IInv, FirmOK, Firm
  <2>12. FilesOK'
    <3>1. files \subseteq Session
      BY DEF IInv, TypeOK
    <3>2. \A t \in files: writer'[t] \in {"written", "dropped"} \/ (s = t /\ active'.file)
      <4> SUFFICES ASSUME NEW t \in files
                   PROVE  writer'[t] \in {"written", "dropped"} \/ (s = t /\ active'.file)
        OBVIOUS
      <4>1. writer[t] \in {"written", "dropped"}
        BY <2>5 DEF IInv, FilesOK
      <4> QED  BY <1>1, <2>2, <2>4, <3>1, <4>1
    <3>3. active'.file => s \in files
      BY <2>2 DEF IInv, FilesOK
    <3>4. \A t \in Session: writer'[t] = "dropped" => s # t
      BY <2>4
    <3>5. \A t \in Session: writer'[t] # "none" => t \notin fresh
      BY <2>4 DEF IInv, FilesOK
    <3>6. task.op = "start" => writer'[task.id] = "none"
      BY <1>3, <2>4 DEF IInv, FilesOK, TaskOK
    <3>7. \A t \in Session: writer'[t] = "written" => t \in files
      BY <2>4 DEF IInv, FilesOK
    <3> QED  BY <1>1, <2>2, <2>4, <3>2, <3>3, <3>4, <3>5, <3>6, <3>7 DEF FilesOK
  <2> QED  BY <2>6, <2>7, <2>8, <2>9, <2>10, <2>11, <2>12 DEF IInv
<1>5. CASE active.id # s
  <2>1. /\ active' = active
        /\ writer' = [writer EXCEPT ![s] = IF @ = "written" THEN "dropped" ELSE "none"]
    BY <1>5 DEF TakeFile
  <2>2. /\ writer'[s] = IF writer[s] = "written" THEN "dropped" ELSE "none"
        /\ \A t \in Session \ {s}: writer'[t] = writer[t]
    BY <1>2, <2>1
  <2>3. TypeOK' /\ TaskOK' /\ SessionOK'
    BY <1>1, <1>2, <2>1 DEF IInv, TypeOK, TaskOK, SessionOK
  <2>4. WindowsOK'
    BY <1>1, WindowsStay
  <2>5. GoneOK' /\ FirmOK'
    BY <1>1, <2>1 DEF IInv, GoneOK, FirmOK, Firm, Hid
  <2>6. FilesOK'
    <3>1. files \subseteq Session
      BY DEF IInv, TypeOK
    <3>2. \A t \in files: writer'[t] \in {"written", "dropped"} \/ (active.id = t /\ active.file)
      BY <1>1, <1>5, <2>2, <3>1 DEF IInv, FilesOK
    <3>3. active.file => active.id \in files /\ writer'[active.id] = "none"
      BY <1>5, <2>2, <3>1 DEF IInv, FilesOK
    <3>4. \A t \in Session: writer'[t] = "dropped" => active.id # t
      BY <1>5, <2>2 DEF IInv, FilesOK
    <3>5. \A t \in Session: writer'[t] # "none" => t \notin fresh
      BY <1>3, <2>2 DEF IInv, FilesOK
    <3>6. task.op = "start" => writer'[task.id] = "none"
      BY <1>3, <2>2 DEF IInv, FilesOK, TaskOK
    <3>7. \A t \in Session: writer'[t] = "written" => t \in files
      BY <2>2 DEF IInv, FilesOK
    <3> QED  BY <1>1, <2>1, <3>2, <3>3, <3>4, <3>5, <3>6, <3>7 DEF FilesOK
  <2> QED  BY <2>3, <2>4, <2>5, <2>6 DEF IInv
<1> QED  BY <1>4, <1>5

LEMMA OverlayClosesInv ==
    ASSUME IInv, OverlayCloses
    PROVE  IInv'
<1>1. /\ closes < MaxCloses /\ closes' = closes + 1
      /\ overlay' = "closed" /\ page' = None
      /\ stray' = stray \cup {"closed"}
      /\ DropSession
      /\ UNCHANGED <<preview, interaction, faults, ready, fresh, task, call, writer>>
  BY DEF OverlayCloses, nativeVars
<1>2. /\ active' = NoSession /\ ~hook' /\ hook' \in BOOLEAN
      /\ files' \subseteq files
      /\ \A s \in files': ~(active.id = s /\ active.file)
      /\ \A s \in Session: writer[s] = "written" => s \in files'
      /\ active'.id = None /\ ~active'.file
      /\ active' \in [id: Session \cup {None}, native: BOOLEAN,
                      image: {"none", "loading", "ready", "failed"}, file: BOOLEAN]
  BY <1>1, Dropped
<1>3. closes' \in 0..MaxCloses
  BY <1>1, ScreenshotAssumption DEF IInv, TypeOK
<1>4. TypeOK'
  BY <1>1, <1>2, <1>3 DEF IInv, TypeOK
<1>5. TaskOK'
  BY <1>1, <1>2 DEF IInv, TaskOK
<1>6. SessionOK'
  BY <1>1, <1>2, NativeWindowsAssumption DEF IInv, SessionOK, TaskOK, TypeOK
<1>7. WindowsOK'
  BY <1>1, WindowsStay
<1>8. GoneOK'
  BY <1>1 DEF GoneOK
<1>9. FirmOK'
  BY <1>1, <1>2 DEF IInv, FirmOK, Firm
<1>10. FilesOK'
  BY <1>1, <1>2, NativeWindowsAssumption DEF IInv, FilesOK
<1> QED  BY <1>4, <1>5, <1>6, <1>7, <1>8, <1>9, <1>10 DEF IInv

-----------------------------------------------------------------------------
(* Theorems. *)

LEMMA InitInv == Init => IInv
<1> SUFFICES ASSUME Init PROVE IInv
  OBVIOUS
<1>1. /\ active = NoSession /\ hook = FALSE /\ task = Idle /\ page = None /\ call = NoCall
      /\ writer = [s \in Session |-> "none"] /\ files = {} /\ ready = None /\ stray = {}
      /\ fresh = Session /\ faults = 0 /\ closes = 0 /\ overlay \in {"hidden", "closed"}
  BY DEF Init
<1>2. ASSUME NEW w \in Bootstrapped
      PROVE  WindowOK(w) /\ Known(w) /\ Hid(w)
  <2>1. PICK state \in {"ready", "failed"}:
          w = [state |-> state, session |-> None, queue |-> <<>>,
               known |-> FALSE, shown |-> FALSE, at |-> None]
    BY DEF Bootstrapped, NewWindow
  <2>2. /\ w.session = None /\ w.queue = <<>> /\ ~w.shown /\ w \in Window
    <3>1. <<>> \in Seq(Command)
      OBVIOUS
    <3> QED  BY <2>1, <3>1 DEF Window
  <2>3. Hid(w)
    BY <2>2, HidNow
  <2> QED  BY <2>2, <2>3 DEF WindowOK, Known
<1>3. /\ WindowOK(preview) /\ Known(preview) /\ Hid(preview)
      /\ WindowOK(interaction) /\ Known(interaction) /\ Hid(interaction)
  BY <1>2 DEF Init
<1>4. TypeOK
  <2>1. preview \in Window /\ interaction \in Window
    BY <1>3 DEF WindowOK
  <2>2. call \in [id: Session \cup {None}, visible: BOOLEAN]
    BY <1>1 DEF NoCall
  <2>3. writer \in [Session -> {"none", "working", "written", "failed", "dropped"}]
    BY <1>1
  <2>4. task \in Tasks
    BY <1>1, IdleTask
  <2>5. faults \in 0..MaxFaults /\ closes \in 0..MaxCloses
    BY <1>1, ScreenshotAssumption
  <2> QED  BY <1>1, <2>1, <2>2, <2>3, <2>4, <2>5, SessionRecord DEF TypeOK, Tasks
<1>5. TaskOK
  BY <1>1, IdleTask DEF TaskOK
<1>6. SessionOK
  BY <1>1, IdleTask, SessionRecord, NativeWindowsAssumption DEF SessionOK
<1>7. WindowsOK /\ GoneOK
  BY <1>1, <1>3, IdleTask DEF WindowsOK, GoneOK
<1>8. FirmOK
  BY <1>1, IdleTask DEF FirmOK
<1>9. FilesOK
  BY <1>1, IdleTask, SessionRecord DEF FilesOK
<1> QED  BY <1>4, <1>5, <1>6, <1>7, <1>8, <1>9 DEF IInv

LEMMA NextInv == IInv /\ [Next]_vars => IInv'
<1> SUFFICES ASSUME IInv, [Next]_vars PROVE IInv'
  OBVIOUS
<1>1. CASE \E id \in Session: Start(id)
  BY <1>1, StartInv
<1>2. CASE StartSteps
  BY <1>2, StartResetsPreviewInv, StartResetsInteractionInv, CaptureInv, PreparePreviewInv,
     ShowPreviewInv, StoreSessionInv, PrepareInteractionInv, ActivateInv, StartGivesUpInv,
     StartEndsInv DEF StartSteps
<1>3. CASE Finish \/ Cancel \/ CancelNothing
  BY <1>3, FinishInv, CancelInv, CancelNothingInv
<1>4. CASE RestoreSteps
  BY <1>4, CloseOverlayInv, HideInteractionInv, HidePreviewInv, ClearInteractionInv,
     ClearPreviewInv, EndSessionInv DEF RestoreSteps
<1>5. CASE OwnerRuns
  BY <1>5, OwnerRunsInv
<1>6. CASE PageLoads \/ PageCalls \/ CallRuns
  BY <1>6, PageInv, CallRunsInv
<1>7. CASE WriterSteps
  BY <1>7, WriterInv, TakeFileInv DEF WriterSteps
<1>8. CASE OverlayCloses
  BY <1>8, OverlayClosesInv
<1>9. CASE UNCHANGED vars
  <2>1. UNCHANGED <<preview, interaction, faults, overlay, active, hook, ready, fresh, task,
                    page, call, writer, files, stray, closes>>
    BY <1>9 DEF vars, nativeVars, sessionVars, pageVars, fileVars
  <2>2. TypeOK' /\ TaskOK' /\ SessionOK' /\ FilesOK'
    BY <2>1 DEF IInv, TypeOK, TaskOK, SessionOK, FilesOK
  <2>3. WindowsOK' /\ GoneOK' /\ FirmOK'
    BY <2>1 DEF IInv, WindowsOK, WindowOK, Known, GoneOK, FirmOK, Firm, Hid
  <2> QED  BY <2>2, <2>3 DEF IInv
<1> QED
  BY <1>1, <1>2, <1>3, <1>4, <1>5, <1>6, <1>7, <1>8, <1>9 DEF Next

LEMMA Invariance == Spec => []IInv
BY InitInv, NextInv, PTL DEF Spec

\* The operations, the owner threads, the page and the file's thread keep the types
\* of sessions, windows and files.
THEOREM ScreenshotTypeCorrect == Spec => []TypeOK
BY Invariance, PTL DEF IInv

\* Whatever steps of a teardown fail or come late, no native window stays on the
\* screen without a session, but for the known causes (restore_overlay_hot_state).
THEOREM WindowsCorrect == Spec => []NativeWindowsGoWithSession
<1>1. IInv => NativeWindowsGoWithSession
  <2> SUFFICES ASSUME IInv, Settled, active = NoSession, stray = {}
               PROVE  ~preview.shown /\ ~interaction.shown
    BY DEF NativeWindowsGoWithSession
  <2>1. Hid(preview) /\ Hid(interaction)
    BY IdleTask DEF Settled, IInv, GoneOK
  <2>2. /\ preview \in Window /\ interaction \in Window
        /\ preview.queue = <<>> /\ interaction.queue = <<>>
    BY DEF Settled, IInv, TypeOK
  <2> QED  BY <2>1, <2>2, HidNow
<1> QED  BY <1>1, Invariance, PTL

\* No late command takes the preview of a session that was reported with one
\* (start_session, the owner thread's queue).
THEOREM PreviewCorrect == Spec => []PreviewStaysWithSession
<1>1. IInv => PreviewStaysWithSession
  BY IdleTask DEF IInv, FirmOK, Firm, PreviewStaysWithSession
<1> QED  BY <1>1, Invariance, PTL

\* Escape is given back with the session (apply_escape_cancel_hook).
THEOREM HookCorrect == Spec => []HookGoesWithSession
<1>1. IInv => HookGoesWithSession
  BY DEF IInv, SessionOK, HookGoesWithSession
<1> QED  BY <1>1, Invariance, PTL

\* A preview file is the active session's or its thread's, whichever ends first
\* (finish_preview_preparation, replace_active_session, clear_active_session).
THEOREM FilesCorrect == Spec => []FilesBelongToSession
<1>1. IInv => FilesBelongToSession
  BY DEF IInv, FilesOK, FilesBelongToSession
<1> QED  BY <1>1, Invariance, PTL
=============================================================================
