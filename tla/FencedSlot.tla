----------------------------- MODULE FencedSlot -----------------------------
(***************************************************************************)
(* What the lease columns of a watch rule promise each process, without    *)
(* clocks, schedules or the steps of workers and requests.  A process that *)
(* claimed slots holds them until their leases are overdue; only then may  *)
(* another process be given them.  It keeps working on its claims all the  *)
(* same, but only the holder may record an execution or free the slot, and *)
(* anyone else who gives up a claim leaves the slot alone.  A slot whose   *)
(* window is closed may be freed by anyone.  WatchLease implements this    *)
(* specification.                                                          *)
(***************************************************************************)
CONSTANTS Slots, Owners, None, Marks

VARIABLES holder,   \* slot -> its holder, or None
          mark,     \* slot -> what the last completed execution recorded
          claims,   \* process -> the slots it believes to hold
          overdue,  \* slots whose lease has run out
          closed    \* slots whose window is over

slotVars == <<holder, mark, claims, overdue, closed>>

SlotInit == /\ holder = [s \in Slots |-> None]
            /\ mark = [s \in Slots |-> None]
            /\ claims = [p \in Owners |-> {}]
            /\ overdue = {}
            /\ closed = {}

\* Process p is given slots that nobody holds, or whose lease is overdue.  A
\* claim made with an old reading of the clock may be overdue at once.
Grant(p, S) ==
    /\ \A s \in S : holder[s] = None \/ s \in overdue
    /\ holder' = [s \in Slots |-> IF s \in S THEN p ELSE holder[s]]
    /\ claims' = [claims EXCEPT ![p] = @ \cup S]
    /\ overdue \ S \subseteq overdue' /\ overdue' \subseteq overdue \cup S
    /\ UNCHANGED <<mark, closed>>

Vacate(s) == /\ holder' = [holder EXCEPT ![s] = None]
             /\ overdue' = overdue \ {s}
             /\ UNCHANGED closed

\* The holder records the execution of its claim and frees the slot.
Settle(p, s, m) ==
    /\ s \in claims[p] /\ holder[s] = p
    /\ Vacate(s)
    /\ mark' = [mark EXCEPT ![s] = m]
    /\ claims' = [claims EXCEPT ![p] = @ \ {s}]

\* The holder gives up claims, one of which it failed to execute.
Release(p, s, S) ==
    /\ s \in S /\ S \subseteq claims[p] /\ holder[s] = p
    /\ Vacate(s)
    /\ claims' = [claims EXCEPT ![p] = @ \ S]
    /\ UNCHANGED mark

\* A process gives up claims and writes nothing: it died, or lost the slot.
Leave(p, S) ==
    /\ claims' = [claims EXCEPT ![p] = @ \ S]
    /\ UNCHANGED <<holder, mark, overdue, closed>>

\* A process that finds the window over frees the slot, whoever holds it.
Close(p, s) ==
    /\ s \in closed
    /\ Vacate(s)
    /\ claims' = [claims EXCEPT ![p] = @ \ {s}]
    /\ UNCHANGED mark

\* Leases of held slots run out and windows end; neither is ever undone.
Pass ==
    /\ overdue \subseteq overdue' /\ overdue' \subseteq {s \in Slots : holder[s] # None}
    /\ closed \subseteq closed' /\ closed' \subseteq Slots
    /\ UNCHANGED <<holder, mark, claims>>

SlotNext ==
    \/ \E p \in Owners, S \in SUBSET Slots : Grant(p, S) \/ Leave(p, S)
    \/ \E p \in Owners, s \in Slots :
          \/ Close(p, s)
          \/ \E m \in Marks : Settle(p, s, m)
          \/ \E S \in SUBSET Slots : Release(p, s, S)
    \/ Pass

SlotSpec == SlotInit /\ [][SlotNext]_slotVars
=============================================================================
