---------------------------- MODULE NativeWindows ----------------------------
(***************************************************************************)
(* The two native full-screen windows of a screenshot session: the preview *)
(* (native_preview_service.rs, native_preview_backend_windows.rs) and the  *)
(* interaction window (native_interaction_service.rs and its backend).     *)
(* Each belongs to an owner thread that takes commands in order; a service *)
(* holds its mutex while it waits for the answer, and gives up after a     *)
(* time limit without taking the command back.                             *)
(*                                                                         *)
(* A window is a record: what the service says of it (state, session),     *)
(* the commands nobody waits for any more (queue), what the backend        *)
(* remembers (known), whether it is on the screen (shown) and the session  *)
(* the backend draws (at).  An operation is the set of its outcomes; an    *)
(* outcome that needs a failure of the system costs one fault.             *)
(***************************************************************************)
EXTENDS Naturals, Sequences

CONSTANTS
    Session,  \* the identifiers of sessions
    None      \* no session

ASSUME NativeWindowsAssumption == None \notin Session

Kind == {"preview", "interaction"}
Command == [op: {"prepare", "show", "hide", "clear", "update"}, id: Session \cup {None}]
Window == [state: {"ready", "prepared", "visible", "hidden", "failed"},
           session: Session \cup {None}, queue: Seq(Command),
           known: BOOLEAN, shown: BOOLEAN, at: Session \cup {None}]

\* A window as the start of the application leaves it: its owner thread runs, or it
\* did not come up, or not in time, and is told to stop.
NewWindow(state) == [state |-> state, session |-> None, queue |-> <<>>,
                     known |-> FALSE, shown |-> FALSE, at |-> None]
Bootstrapped == {NewWindow("ready"), NewWindow("failed")}

Cmd(op, id) == [op |-> op, id |-> id]
Done(w) == [w |-> w, ok |-> TRUE, cost |-> 0]
Fails(w, cost) == [w |-> w, ok |-> FALSE, cost |-> cost]

----------------------------------------------------------------------------
(* The owner threads. *)

\* Moving a window the backend believes hidden also hides it (SWP_HIDEWINDOW).
Moved(w) == [w EXCEPT !.shown = @ /\ w.known]

\* The preview is given its frame (submit_bgra_frame); another window size than the
\* frame's, or the graphics device, may refuse it.
Framed(w, id) == {Done([w EXCEPT !.at = id]), Fails(w, 1)}

\* The preview is moved when the session is on another monitor or of another size.
PreparePreviewWindow(w, id) == {Fails(w, 1)} \cup Framed(w, id) \cup Framed(Moved(w), id)

\* The interaction window is moved by every prepare; drawing it may fail.
PrepareInteractionWindow(w, id) ==
    LET ready == [Moved(w) EXCEPT !.at = id] IN {Done(ready), Fails(w, 1), Fails(ready, 1)}

\* The preview is shown before it is put below the overlay, which may fail; an
\* overlay that is gone is found out before.
ShowPreviewWindow(w) ==
    {Done([w EXCEPT !.shown = TRUE, !.known = TRUE]), Fails(w, 1),
     Fails([w EXCEPT !.shown = TRUE], 1)}

ShowInteractionWindow(w) == {Done([w EXCEPT !.shown = TRUE, !.known = TRUE]), Fails(w, 1)}

HideWindow(w) ==
    {Done(IF w.known THEN [w EXCEPT !.shown = FALSE, !.known = FALSE] ELSE w)}

\* Clearing the interaction window forgets its session and leaves it on screen.
ClearWindow(w) == {Done([w EXCEPT !.at = None])}

Execute(k, c, w) ==
    CASE c.op = "prepare" /\ k = "preview" -> PreparePreviewWindow(w, c.id)
      [] c.op = "prepare" /\ k = "interaction" -> PrepareInteractionWindow(w, c.id)
      [] c.op = "show" /\ k = "preview" -> ShowPreviewWindow(w)
      [] c.op = "show" /\ k = "interaction" -> ShowInteractionWindow(w)
      [] c.op = "hide" -> HideWindow(w)
      [] c.op = "clear" -> ClearWindow(w)
      [] c.op = "update" -> {Done(w), Fails(w, 1)}

\* The owner runs the first command nobody waits for.
RunLate(k, w) == Execute(k, Head(w.queue), [w EXCEPT !.queue = Tail(@)])

\* Mutant: the newest command is taken first.
RequestOvertakes(k, c, w) ==
    Execute(k, c, w) \cup {Fails([w EXCEPT !.queue = Append(@, c)], 1)}

\* A request is answered once the owner has run everything before it, or the
\* caller gives up (or could not wake the owner) and the command stays.
Request(k, c, w) ==
    (IF w.queue = <<>> THEN Execute(k, c, w) ELSE {})
      \cup {Fails([w EXCEPT !.queue = Append(@, c)], 1)}

----------------------------------------------------------------------------
(* The services. *)

\* What the service records after a request that succeeded.
Record(outcomes, state, session) ==
    {IF r.ok THEN [r EXCEPT !.w.state = state, !.w.session = session] ELSE r: r \in outcomes}

\* The interaction service ends with a request for a snapshot, which may fail.
Reported(outcomes) == outcomes \cup {Fails(r.w, r.cost + 1): r \in {o \in outcomes: o.ok}}

PreviewPrepared(w, id) ==
    IF w.state = "failed" THEN {Fails(w, 0)}
    ELSE Record(Request("preview", Cmd("prepare", id), w), "prepared", id)

InteractionPrepared(w, id) ==
    IF w.state = "failed" THEN {Fails(w, 0)}
    ELSE Reported(Record(Request("interaction", Cmd("prepare", id), w), "prepared", id))

PreviewShown(w) ==
    IF w.state \in {"ready", "failed"} \/ w.session = None THEN {Fails(w, 0)}
    ELSE Record(Request("preview", Cmd("show", None), w), "visible", w.session)

PreviewHidden(w) ==
    IF w.state = "failed" THEN {Done(w)}
    ELSE Record(Request("preview", Cmd("hide", None), w), "hidden", w.session)

InteractionHidden(w) ==
    IF w.state = "failed" THEN {Done(w)}
    ELSE Reported(Record(Request("interaction", Cmd("hide", None), w), "hidden", w.session))

\* Clearing the preview concerns the service alone.
PreviewCleared(w) ==
    {Done([w EXCEPT !.session = None, !.state = IF @ = "failed" THEN @ ELSE "ready"])}

InteractionCleared(w) ==
    IF w.state = "failed" THEN {Fails(w, 0)}
    ELSE Reported(Record(Request("interaction", Cmd("clear", None), w), "ready", None))

\* hide_and_clear_native_preview and _interaction: no clear after a failed hide.
AndThen(outcomes, Op(_)) ==
    {r \in outcomes: ~r.ok}
      \cup UNION {{[s EXCEPT !.cost = @ + r.cost]: s \in Op(r.w)}: r \in {o \in outcomes: o.ok}}

\* update_runtime: the page's state for the session, then shown or hidden.
UpdateRuntime(w, id, visible) ==
    LET Display(v) ==
          IF visible
            THEN Record(Request("interaction", Cmd("show", None), v), "visible", v.session)
            ELSE Record(Request("interaction", Cmd("hide", None), v), "hidden", v.session)
    IN IF w.session # id THEN {Fails(w, 0)}
       ELSE Reported(AndThen(Request("interaction", Cmd("update", id), w), Display))
=============================================================================
