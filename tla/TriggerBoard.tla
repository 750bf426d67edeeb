---------------------------- MODULE TriggerBoard ----------------------------
(***************************************************************************)
(* What the coordinator promises to those who insert triggers: a trigger    *)
(* waits from its insertion until it has run; it runs once, or as often as  *)
(* its event occurs if it is pinned, and no trigger disappears without      *)
(* having run, other than a one-shot one whose action throws.               *)
(***************************************************************************)
EXTENDS Naturals

CONSTANT Bound      \* bound: triggers inserted in one run

VARIABLES
  inserted,   \* number of triggers inserted; each is named by its number
  pinned,     \* those that stay when they have run
  oneShot,    \* those that are taken from their place before they run
  waiting,    \* those that wait for their event
  fired       \* those that have run

board == <<inserted, pinned, oneShot, waiting, fired>>

Init == inserted = 0 /\ pinned = {} /\ oneShot = {} /\ waiting = {} /\ fired = {}

Insert ==
  /\ inserted < Bound
  /\ inserted' = inserted + 1
  /\ waiting' = waiting \cup {inserted'}
  /\ \/ pinned' = pinned \cup {inserted'} /\ UNCHANGED oneShot
     \/ oneShot' = oneShot \cup {inserted'} /\ UNCHANGED pinned
     \/ UNCHANGED <<pinned, oneShot>>
  /\ UNCHANGED fired

\* A pinned trigger stays, unless its action says that this was the last time.
Fire(t) ==
  /\ t \in waiting
  /\ fired' = fired \cup {t}
  /\ \/ t \in pinned /\ UNCHANGED waiting
     \/ waiting' = waiting \ {t}
  /\ UNCHANGED <<inserted, pinned, oneShot>>

Lose(t) ==
  /\ t \in waiting \cap oneShot
  /\ waiting' = waiting \ {t}
  /\ UNCHANGED <<inserted, pinned, oneShot, fired>>

Next == Insert \/ \E t \in waiting : Fire(t) \/ Lose(t)

Spec == Init /\ [][Next]_board

=============================================================================
