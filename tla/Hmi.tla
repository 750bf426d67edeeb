--------------------------------- MODULE Hmi ---------------------------------
(***************************************************************************)
(* The contacts of a vehicle's human-machine interface                     *)
(* (plugins/basic/src/hmi_contact.hpp).  A contact has two sides: the      *)
(* state that actions and HTTP requests write at any time, and the contact *)
(* itself, which only sees that state when the controller updates the map. *)
(* An update makes at most one of the contact's functions run, which is    *)
(* the event the update yields.  Time is counted in steps.                 *)
(***************************************************************************)
EXTENDS Integers, Sequences

CONSTANTS
    Switches, PushButtons,   \* the contacts of the map
    Repeating,               \* push buttons with a function to repeat
    Delay, Interval          \* delay_ and interval_

ASSUME HmiAssumption ==
    /\ Switches \cap PushButtons = {}
    /\ Repeating \subseteq PushButtons
    /\ Delay \in Nat /\ Interval \in Nat

Contacts == Switches \cup PushButtons
Events   == {"none", "set", "unset", "single", "repeat"}

\* A contact at rest, and one whose switch starts in position on.
Contact(on) == [state |-> on, active |-> on, last |-> 0, repeated |-> FALSE]

ContactType == [state : BOOLEAN, active : BOOLEAN, last : Nat, repeated : BOOLEAN]

\* A release that leaves the mark of a repeat behind.
KeepRepeated(c) == [c EXCEPT !.active = FALSE, !.last = 0]

\* reset(), of a push button that was released.
Released(c) == [c EXCEPT !.active = FALSE, !.repeated = FALSE, !.last = 0]

\* The function that holding down a push button any longer makes run.
Elapsed(c, now) == now - c.last > (IF c.repeated THEN Interval ELSE Delay)

\* contact_down: the event and the contact after it.
ContactDown(b, c, now) ==
    CASE b \in Switches ->
           [event |-> IF c.active THEN "none" ELSE "set", next |-> [c EXCEPT !.active = TRUE]]
      [] b \notin Switches /\ ~c.active ->
           [event |-> "none", next |-> [c EXCEPT !.active = TRUE, !.last = now]]
      [] b \in Repeating /\ c.active /\ Elapsed(c, now) ->
           [event |-> "repeat", next |-> [c EXCEPT !.last = now, !.repeated = TRUE]]
      [] OTHER -> [event |-> "none", next |-> c]

\* contact_up, of a contact that is active.
ContactUp(b, c) ==
    IF b \in Switches
    THEN [event |-> "unset", next |-> [c EXCEPT !.active = FALSE]]
    ELSE [event |-> IF c.repeated THEN "none" ELSE "single", next |-> Released(c)]

\* Contact::update with the state that was last written.
Update(b, c, now) ==
    CASE c.state             -> ContactDown(b, c, now)
      [] ~c.state /\ c.active -> ContactUp(b, c)
      [] OTHER               -> [event |-> "none", next |-> c]

\* ContactMap::update: the events, and the contacts after them.
UpdateEvents(hmi, now) == [b \in Contacts |-> Update(b, hmi[b], now).event]
UpdateMap(hmi, now)    == [b \in Contacts |-> Update(b, hmi[b], now).next]

\* UseContact, or a request to /hmi/set: write the states it names.
UseContact(hmi, states) ==
    [b \in Contacts |-> IF b \in DOMAIN states THEN [hmi[b] EXCEPT !.state = states[b]]
                                               ELSE hmi[b]]
=============================================================================
