------------------------------ MODULE PinSlots ------------------------------
(***************************************************************************)
(* makeSemaphore of src/src/server/archive/storage.ts, which bounds the    *)
(* pins that Kubo fetches from the network at the same time.               *)
(*                                                                         *)
(* A slot that is given back is announced to the first waiter, but the     *)
(* waiter counts itself in only when its continuation runs; what runs      *)
(* before it may take the slot as well.                                    *)
(***************************************************************************)
EXTENDS Integers, Sequences, FiniteSets

CONSTANTS
    Pins,           \* calls of kuboNetworkPin
    MaxSlots        \* KUBO_NETWORK_PIN_MAX_CONCURRENCY

ASSUME SlotsAssumption == MaxSlots \in Nat \ {0} /\ IsFiniteSet(Pins)

VARIABLES
    active,     \* the counter
    waiters,    \* the calls that wait, in order
    pin         \* where each call is

slotVars == <<active, waiters, pin>>

SlotsInit ==
    /\ active = 0 /\ waiters = <<>>
    /\ pin = [p \in Pins |-> "idle"]

Become(p, from, to) == pin[p] = from /\ pin' = [pin EXCEPT ![p] = to]

Acquire(p) ==
    IF active >= MaxSlots
    THEN /\ Become(p, "idle", "waiting")
         /\ waiters' = Append(waiters, p)
         /\ UNCHANGED active
    ELSE /\ Become(p, "idle", "pinning")
         /\ active' = active + 1
         /\ UNCHANGED waiters

\* The continuation of a waiter that was woken.
Resume(p) ==
    /\ Become(p, "woken", "pinning")
    /\ active' = active + 1
    /\ UNCHANGED waiters

\* Mutant: the slot is given back, but nobody is woken.
ReleaseUnnoticed(p) ==
    /\ Become(p, "pinning", "done")
    /\ active' = active - 1
    /\ UNCHANGED waiters

\* Kubo has answered or the request has timed out.
Release(p) ==
    /\ pin[p] = "pinning"
    /\ active' = active - 1
    /\ IF waiters = <<>>
       THEN Become(p, "pinning", "done") /\ UNCHANGED waiters
       ELSE /\ pin' = [pin EXCEPT ![p] = "done", ![Head(waiters)] = "woken"]
            /\ waiters' = Tail(waiters)

SlotStep(p) == Acquire(p) \/ Resume(p) \/ Release(p)
SlotsNext == \E p \in Pins : SlotStep(p)

SlotsSpec == SlotsInit /\ [][SlotsNext]_slotVars

-----------------------------------------------------------------------------
AtStep(step) == {p \in Pins : pin[p] = step}

\* Safety of makeSemaphore: no slot is idle while somebody waits for one, so
\* no waiter can be forgotten; and the counter is the number of pins under
\* way.
NoSlotIsWasted ==
    /\ active = Cardinality(AtStep("pinning"))
    /\ waiters # <<>> => active + Cardinality(AtStep("woken")) >= MaxSlots
=============================================================================
