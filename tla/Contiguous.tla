----------------------------- MODULE Contiguous -----------------------------
(***************************************************************************)
(* ContiguousAllocator of llmkit/simulator/paged.py: every sequence gets   *)
(* one reservation of reserve_len tokens, first fit over a list of slots.  *)
(* X_Y is a wrong variant of X, unused by the model.                       *)
(***************************************************************************)
EXTENDS Integers, Sequences, FiniteSets, SequencesExt

CONSTANTS Owners, Capacity, ReserveLen

NoOwner == "none"
ASSUME ContiguousAssumption ==
  Capacity \in Nat /\ ReserveLen \in Nat \ {0} /\ NoOwner \notin Owners

VARIABLES slots, rejections    \* [start, size, owner], and a capped count

slotVars == <<slots, rejections>>
MaxRejections == 2             \* bound
Slot(start, size, o) == [start |-> start, size |-> size, owner |-> o]
Free(s) == s.owner = NoOwner

\* The first free slot that is large enough, 0 without one.
Fit_Strictly == SelectInSeq(slots, LAMBDA s : Free(s) /\ s.size > ReserveLen)
Fit == SelectInSeq(slots, LAMBDA s : Free(s) /\ s.size >= ReserveLen)
Allocate(o) ==
  /\ \A i \in DOMAIN slots : slots[i].owner # o
  /\ IF Fit = 0
     THEN /\ rejections < MaxRejections /\ rejections' = rejections + 1
          /\ UNCHANGED slots
     ELSE LET s == slots[Fit]
              mine == Slot(s.start, ReserveLen, o)
              rest == Slot(s.start + ReserveLen, s.size - ReserveLen, NoOwner)
          IN /\ slots' = ReplaceAt(IF s.size > ReserveLen THEN InsertAt(slots, Fit + 1, rest) ELSE slots,
                                   Fit, mine)
             /\ UNCHANGED rejections

\* free: the slot is given back, then _coalesce joins each slot to the one
\* before it when both are free.
Joined(merged, s) ==
  IF merged # <<>> /\ Free(s) /\ Free(Last(merged)) /\ Last(merged).start + Last(merged).size = s.start
  THEN ReplaceAt(merged, Len(merged), Slot(Last(merged).start, Last(merged).size + s.size, NoOwner))
  ELSE Append(merged, s)
Coalesced(q) ==
  LET merged[i \in 0..Len(q)] == IF i = 0 THEN <<>> ELSE Joined(merged[i - 1], q[i])
  IN merged[Len(q)]
Release(o) ==
  /\ \E i \in DOMAIN slots : slots[i].owner = o
  /\ slots' = Coalesced([i \in DOMAIN slots |->
                           IF slots[i].owner = o THEN [slots[i] EXCEPT !.owner = NoOwner] ELSE slots[i]])
  /\ UNCHANGED rejections

ContiguousInit == slots = <<Slot(0, Capacity, NoOwner)>> /\ rejections = 0
ContiguousNext == \E o \in Owners : Allocate(o) \/ Release(o)
ContiguousSpec == ContiguousInit /\ [][ContiguousNext]_slotVars

-----------------------------------------------------------------------------
\* The slots tile the memory in order, no two free ones side by side, and an
\* owner's reservation is one whole slot.
SlotsTile ==
  /\ slots[1].start = 0 /\ Last(slots).start + Last(slots).size = Capacity
  /\ \A i \in 1..Len(slots) - 1 :
       /\ slots[i].start + slots[i].size = slots[i + 1].start
       /\ ~(Free(slots[i]) /\ Free(slots[i + 1]))
  /\ \A i \in DOMAIN slots : ~Free(slots[i]) => slots[i].size = ReserveLen

\* All reservations have one size, so its free memory is never too scattered:
\* a sequence is rejected only when less than a reservation is free in all.
FreeTokens == Capacity - ReserveLen * Cardinality({i \in DOMAIN slots : ~Free(slots[i])})
RejectedOnlyWhenFull == [][rejections' # rejections => FreeTokens < ReserveLen]_slotVars

ReservationsSound == []SlotsTile /\ RejectedOnlyWhenFull

\* What the repository says of the same memory, and the code does not do: "Free
\* alternating slots and you have plenty of free memory in pieces too small to
\* serve a full-size request", and with half the memory free it is "still
\* rejected": no run of free tokens is longer than a slot, and nobody gets in.
Holders == {o \in Owners : \E i \in DOMAIN slots : slots[i].owner = o}
Scattered ==
  /\ \A i \in DOMAIN slots : slots[i].size <= ReserveLen
  /\ 2 * FreeTokens >= Capacity /\ FreeTokens > ReserveLen
ScatteredIsRejected ==
  [][Scattered => Holders' \subseteq Holders]_slotVars
=============================================================================
