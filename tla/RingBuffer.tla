----------------------------- MODULE RingBuffer -----------------------------
(***************************************************************************)
(* The ring buffer of stap_edr_monitor (ring_buffer.cpp): the monitors'    *)
(* threads push, the statistics loop pops, and no lock is taken by the     *)
(* buffer itself.  The check, the access to the slot, and the computation  *)
(* and the store of the new index are steps of their own, in program order *)
(* (the indices are volatile).  A thread's reads of its own index within   *)
(* one of these steps see one value, which only overlapping pushes could   *)
(* tell from reading it twice.                                             *)
(*                                                                         *)
(* The items are numbered in the order in which a push is started.  They   *)
(* are pointers to heap objects: whoever gets one frees it.                *)
(***************************************************************************)
EXTENDS Integers, Sequences

CONSTANTS
  Size,         \* rb->size
  Producers,    \* the threads that push
  Serialised,   \* TRUE: they push under net_monitor_lock, as on_http does
  WithCallback, \* TRUE: ring_buffer_clear_destroy is given a free_callback
  MaxOffered    \* bound: number of pushes

ASSUME SizeAssumption ==
  /\ Size \in Nat /\ Size >= 2
  /\ Serialised \in BOOLEAN
  /\ WithCallback \in BOOLEAN
  /\ MaxOffered \in Nat

VARIABLES
  read_idx,
  write_idx,
  buffer,
  ppc,      \* where each producer is in ring_buffer_push
  item,     \* ptr: what each producer pushes
  next,     \* the value of write_idx that each producer has computed
  cpc,      \* where the consumer is in ring_buffer_pop
  res,      \* res of ring_buffer_pop
  phase,    \* "open", "clearing" or "destroyed"
  offered,  \* number of pushes so far
  accepted, \* number of pushes that have returned 0
  rejected, \* the items whose push has returned -1; their producer frees them
  out       \* the items the consumer has got, in their order

vars == <<read_idx, write_idx, buffer, ppc, item, next, cpc, res, phase,
          offered, accepted, rejected, out>>

producerVars == <<write_idx, buffer, ppc, item, next, offered, accepted, rejected>>
consumerVars == <<read_idx, cpc, res, out>>

Slots == 0 .. Size - 1
-----------------------------------------------------------------------------
(* up_to_ceiling: the first of 2, 4, 8, ... that is not below n.           *)
UpToCeiling(n) ==
  LET powers == { 2^k : k \in 1 .. 30 }
  IN  CHOOSE r \in powers : r >= n /\ \A s \in powers : s >= n => r =< s

(* idx & mask: the mask is Size - 1 and Size is a power of two.            *)
index_format(idx) == idx % Size

(* Mutant: a full buffer is not noticed.                                   *)
Push_NoFullCheck(p) ==
  /\ phase = "open" /\ ppc[p] = "idle"
  /\ Serialised => \A q \in Producers : ppc[q] = "idle"
  /\ offered < MaxOffered
  /\ offered' = offered + 1
  /\ item' = [item EXCEPT ![p] = offered + 1]
  /\ ppc' = [ppc EXCEPT ![p] = "write"]
  /\ UNCHANGED <<write_idx, buffer, next, accepted, rejected, phase, consumerVars>>

(* ring_buffer_push looks whether there is room: one slot stays free, so   *)
(* that a full buffer is not taken for an empty one.                       *)
Push(p) ==
  /\ phase = "open" /\ ppc[p] = "idle"
  /\ Serialised => \A q \in Producers : ppc[q] = "idle"
  /\ offered < MaxOffered
  /\ offered' = offered + 1
  /\ IF index_format(write_idx + 1) # read_idx
     THEN /\ item' = [item EXCEPT ![p] = offered + 1]
          /\ ppc' = [ppc EXCEPT ![p] = "write"]
          /\ UNCHANGED rejected
     ELSE /\ rejected' = rejected \cup {offered + 1}
          /\ UNCHANGED <<item, ppc>>
  /\ UNCHANGED <<write_idx, buffer, next, accepted, phase, consumerVars>>

WriteSlot(p) ==
  /\ ppc[p] = "write"
  /\ buffer' = [buffer EXCEPT ![write_idx] = item[p]]
  /\ ppc' = [ppc EXCEPT ![p] = "advance"]
  /\ UNCHANGED <<write_idx, item, next, offered, accepted, rejected, phase, consumerVars>>

AdvanceWrite(p) ==
  /\ ppc[p] = "advance"
  /\ next' = [next EXCEPT ![p] = index_format(write_idx + 1)]
  /\ ppc' = [ppc EXCEPT ![p] = "publish"]
  /\ UNCHANGED <<write_idx, buffer, item, offered, accepted, rejected, phase, consumerVars>>

PublishWrite(p) ==
  /\ ppc[p] = "publish"
  /\ write_idx' = next[p]
  /\ accepted' = accepted + 1
  /\ ppc' = [ppc EXCEPT ![p] = "idle"]
  /\ UNCHANGED <<buffer, item, next, offered, rejected, phase, consumerVars>>

-----------------------------------------------------------------------------
(* Mutant: an empty buffer is not noticed.                                 *)
Pop_NoEmptyCheck ==
  /\ phase \in {"open", "clearing"} /\ cpc = "idle"
  /\ cpc' = "read"
  /\ UNCHANGED <<producerVars, read_idx, res, phase, out>>

(* ring_buffer_pop finds an item (it returns NULL when there is none)...   *)
Pop ==
  /\ phase \in {"open", "clearing"} /\ cpc = "idle"
  /\ read_idx # write_idx
  /\ cpc' = "read"
  /\ UNCHANGED <<producerVars, read_idx, res, phase, out>>

(* ...reads its slot...                                                    *)
ReadSlot ==
  /\ cpc = "read"
  /\ res' = buffer[read_idx]
  /\ cpc' = "publish"
  /\ UNCHANGED <<producerVars, read_idx, phase, out>>

(* Mutant: the index is not wrapped around.                                *)
PublishRead_NoMask ==
  /\ cpc = "publish"
  /\ read_idx' = read_idx + 1
  /\ out' = Append(out, res)
  /\ cpc' = "idle"
  /\ UNCHANGED <<producerVars, res, phase>>

(* ...and gives the slot back.                                             *)
PublishRead ==
  /\ cpc = "publish"
  /\ read_idx' = index_format(read_idx + 1)
  /\ out' = Append(out, res)
  /\ cpc' = "idle"
  /\ UNCHANGED <<producerVars, res, phase>>

-----------------------------------------------------------------------------
(* Mutant: the buffer is freed without clearing it.                        *)
ClearDestroy_NoClear ==
  /\ phase = "open"
  /\ cpc = "idle" /\ \A p \in Producers : ppc[p] = "idle"
  /\ phase' = "destroyed"
  /\ UNCHANGED <<producerVars, consumerVars>>

(* ring_buffer_clear_destroy, after sys_info_statis_stop has joined the    *)
(* threads: without a callback ring_buffer_clear returns at once.          *)
ClearDestroy ==
  /\ phase = "open"
  /\ cpc = "idle" /\ \A p \in Producers : ppc[p] = "idle"
  /\ phase' = IF WithCallback THEN "clearing" ELSE "destroyed"
  /\ UNCHANGED <<producerVars, consumerVars>>

ClearFinished ==
  /\ phase = "clearing" /\ cpc = "idle"
  /\ read_idx = write_idx
  /\ phase' = "destroyed"
  /\ UNCHANGED <<producerVars, consumerVars>>

Destroyed == phase = "destroyed" /\ UNCHANGED vars
-----------------------------------------------------------------------------
(* ring_buffer_create: calloc leaves NULL, here 0, in the slots.           *)
Init ==
  /\ read_idx = 0 /\ write_idx = 0
  /\ buffer = [i \in Slots |-> 0]
  /\ ppc = [p \in Producers |-> "idle"]
  /\ item = [p \in Producers |-> 0]
  /\ next = [p \in Producers |-> 0]
  /\ cpc = "idle" /\ res = 0
  /\ phase = "open"
  /\ offered = 0 /\ accepted = 0
  /\ rejected = {}
  /\ out = << >>

Next ==
  \/ \E p \in Producers : Push(p) \/ WriteSlot(p) \/ AdvanceWrite(p) \/ PublishWrite(p)
  \/ Pop \/ ReadSlot \/ PublishRead
  \/ ClearDestroy \/ ClearFinished \/ Destroyed

Spec == Init /\ [][Next]_vars
-----------------------------------------------------------------------------
(***************************************************************************)
(* Types of the state.                                                     *)
(***************************************************************************)
TypeOK ==
  /\ read_idx \in Slots /\ write_idx \in Slots
  /\ buffer \in [Slots -> Nat]
  /\ ppc \in [Producers -> {"idle", "write", "advance", "publish"}]
  /\ item \in [Producers -> Nat]
  /\ next \in [Producers -> Slots]
  /\ cpc \in {"idle", "read", "publish"} /\ res \in Nat
  /\ phase \in {"open", "clearing", "destroyed"}
  /\ offered \in Nat /\ accepted \in Nat
  /\ rejected \subseteq Nat
  /\ out \in Seq(Nat)

(* What lies between two indices r and w of the buffer b.                  *)
Distance(r, w) == IF w >= r THEN w - r ELSE w - r + Size

ContentOf(b, r, w) == [i \in 1 .. Distance(r, w) |-> b[index_format(r + i - 1)]]

Content == ContentOf(buffer, read_idx, write_idx)

(***************************************************************************)
(* The buffer is a FIFO queue that holds Size - 1 items: a push takes      *)
(* effect when write_idx is published, a pop when read_idx is.  It rejects *)
(* only when it is full, and never hands out a slot that is not written    *)
(* yet or already written again.                                           *)
(***************************************************************************)
Fifo == INSTANCE BoundedFifo WITH
          Items <- 1 .. MaxOffered, Capacity <- Size - 1, queue <- Content

IsBoundedFifo == Fifo!Spec

(***************************************************************************)
(* The slot that the consumer reads is never the one a producer writes:    *)
(* the accesses to the buffer, which are not volatile, do not race.        *)
(***************************************************************************)
NoSlotRace ==
  \A p \in Producers :
    ~ (ppc[p] = "write" /\ cpc = "read" /\ write_idx = read_idx)

(***************************************************************************)
(* With a callback, destroying the buffer leaves no item behind: each one  *)
(* was rejected, or has come out exactly once.                             *)
(***************************************************************************)
NothingLeaks ==
  phase = "destroyed" /\ WithCallback =>
    /\ \A v \in 1 .. offered : v \in rejected \/ \E i \in DOMAIN out : out[i] = v
    /\ Len(out) = accepted
=============================================================================
