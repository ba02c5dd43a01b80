----------------------------- MODULE NativeInput ---------------------------
(***************************************************************************)
(* What a desktop command does to the keys and buttons of the machine      *)
(* (apply_native_desktop_command, src/src/desktop/native/input.rs).        *)
(* Latitude tracks what it has pressed and sends Windows the events that   *)
(* lead from there to what the client wants.  SendInput may reject events: *)
(* it then reports how many it took, and the tracked state stays as it     *)
(* was although the events before the rejected one have happened.          *)
(*                                                                         *)
(* Pointer positions, wheel and text leave nothing pressed and are left    *)
(* out.                                                                    *)
(***************************************************************************)
EXTENDS Integers

CONSTANTS
  Buttons,   \* bits of the button mask, in the order they are examined
  Keys       \* (virtual key, extended), in the order of the BTreeSet

ASSUME InputAssumption == Buttons \in SUBSET Nat /\ Keys \in SUBSET Nat

Input == [buttons : SUBSET Buttons, keys : SUBSET Keys]
NoInput == [buttons |-> {}, keys |-> {}]

\* An outcome: what is tracked, what is pressed, and whether every event went
\* through.
Outcome == [tracked : Input, held : Input, ok : BOOLEAN]

\* The events that may have happened when one of them was rejected.
Partial(events) ==
  {done \in SUBSET events : done # events
     /\ \A x \in done, y \in events : y < x => y \in done}

\* Events that toggle what they name.
Toggle(set, events) == (set \ events) \cup (events \ set)

\* Pointer: move, then one event for every button that changes.  The move is
\* the first event, so a rejected move leaves the buttons alone.
Pointer(t, h, buttons) ==
  LET changed == Toggle(t.buttons, buttons)
      press(set, done) == (set \ (done \ buttons)) \cup (done \cap buttons)
  IN  {[tracked |-> [t EXCEPT !.buttons = buttons],
        held |-> [h EXCEPT !.buttons = press(@, changed)], ok |-> TRUE]}
      \cup {[tracked |-> t, held |-> [h EXCEPT !.buttons = press(@, done)], ok |-> FALSE] :
              done \in Partial(changed) \cup {{}}}

\* Key: a single event.
Key(t, h, key, down) ==
  LET put(set) == IF down THEN set \cup {key} ELSE set \ {key}
  IN  {[tracked |-> [t EXCEPT !.keys = put(@)], held |-> [h EXCEPT !.keys = put(@)],
        ok |-> TRUE],
       [tracked |-> t, held |-> h, ok |-> FALSE]}

\* ReleaseKeys: an event for every tracked key; without keys nothing is sent.
ReleaseKeys(t, h) ==
  {[tracked |-> [t EXCEPT !.keys = {}], held |-> [h EXCEPT !.keys = @ \ t.keys],
    ok |-> TRUE]}
  \cup {[tracked |-> t, held |-> [h EXCEPT !.keys = @ \ done], ok |-> FALSE] :
          done \in Partial(t.keys)}

\* ReleaseInput: the buttons, then the keys even if the buttons failed.
ReleaseInput(t, h) ==
  LET buttons == IF t.buttons = {} THEN {[tracked |-> t, held |-> h, ok |-> TRUE]}
                 ELSE Pointer(t, h, {})
  IN  UNION {{[o EXCEPT !.ok = @ /\ b.ok] : o \in ReleaseKeys(b.tracked, b.held)} :
               b \in buttons}

\* The commands of a client, and what each may do.
Commands(t, h) ==
  (UNION {Pointer(t, h, buttons) : buttons \in SUBSET Buttons})
  \cup (UNION {Key(t, h, key, down) : key \in Keys, down \in BOOLEAN})
  \cup ReleaseKeys(t, h)
  \cup ReleaseInput(t, h)

=============================================================================
