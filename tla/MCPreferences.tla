---------------------------- MODULE MCPreferences ----------------------------
(* Bounded instances of Preferences for TLC. *)
EXTENDS Preferences

CONSTANTS b1, b2, b3, m1, k1, bad, w1, upd, ret

Bind(s, t, h, p, q) ==
    [a \in Action |-> CASE a = "shot" -> s [] a = "toggle" -> t [] a = "hold" -> h
                         [] a = "paste1" -> p [] a = "paste2" -> q]

\* The older file below does not make the second slot take its default.
MCDefaultPaste == [a \in Slot |-> IF a = "paste1" THEN b3 ELSE k1]

\* A pin and an unpin, launch at login, and new hotkeys that move the basic
\* shortcut or need the hook; one patch has a conflict.
Patch(l, k, pin, unpin) == [launch |-> l, keys |-> k, pin |-> pin, unpin |-> unpin]
MCPatches ==
    {Patch(Keep, Keep, {w1}, {}),
     Patch(TRUE, Bind(b2, m1, NoKey, NoKey, NoKey), {}, {}),
     Patch(FALSE, Bind(b1, NoKey, NoKey, b2, NoKey), {}, {w1}),
     Patch(Keep, Bind(b1, b1, NoKey, NoKey, NoKey), {}, {})}

\* An older file: an earlier default of the screenshot gives way to one that the
\* voice action has, and the default that replaces the shortcut of the first slot
\* is what the second slot has.
MCStored == {Bind(b2, b1, m1, bad, b3)}
=============================================================================
