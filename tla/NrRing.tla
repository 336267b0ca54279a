------------------------------- MODULE NrRing --------------------------------
(***************************************************************************)
(* The query log of the nullroute filter (NrRingWriter.cpp): a ring of      *)
(* records in shared memory that the threads answering queries write        *)
(* without a lock and the app reads.                                        *)
(*                                                                         *)
(* A record's body is two fields, each standing for the ticket of the       *)
(* writer whose bytes it holds: enough to tell a torn record.  Steps        *)
(* interleave at every access to the shared page, in program order.  The    *)
(* time to the next attempt at opening the ring is only running or over.    *)
(***************************************************************************)
EXTENDS Integers, FiniteSets

CONSTANTS
    Threads,
    NR_RING_SLOTS, NR_RING_MAX_FAULTS,
    MaxTickets          \* bound: records written

ASSUME RingAssumption ==
    NR_RING_SLOTS \in Nat \ {0} /\ NR_RING_MAX_FAULTS \in Nat \ {0} /\ MaxTickets \in Nat

VARIABLES
    ring,       \* g_ring_state, g_ring_faults, whether g_ring_retry_ms is ahead, and the file
    w,          \* w[t]: the call of nr_ring_write() thread t is in
    reader,     \* the app's reading of one record
    lapped      \* history: the slots two writers have been in at once

ringVars == <<ring, w, reader, lapped>>

NoTicket == -1
Blank == [seq |-> 0, a |-> NoTicket, b |-> NoTicket]
Out == [at |-> "out", ticket |-> NoTicket, counted |-> 0]
Looking == [at |-> "seq", slot |-> 0, seq |-> 0, a |-> NoTicket, b |-> NoTicket]

RingInit ==
    /\ ring = [state |-> "UNINIT", faults |-> 0, waiting |-> FALSE, magic |-> "zero",
               head |-> 0, recs |-> [s \in 0..(NR_RING_SLOTS - 1) |-> Blank]]
    /\ w = [t \in Threads |-> Out]
    /\ reader = Looking
    /\ lapped = {}

\* nr_ring_write() begins; evaluate() calls it only with logging on.
ring_write_begin(t) ==
    /\ w[t].at = "out"
    /\ w' = [w EXCEPT ![t] = [Out EXCEPT !.at = "state"]]
    /\ UNCHANGED <<ring, reader, lapped>>

----------------------------------------------------------------------------
(* ring_map()                                                               *)

\* ring_drop(), and nr_ring_write() returns.
Dropped(c) == [c EXCEPT !.at = "done", !.counted = @ + 1]

\* The tests that need no ownership: ready, off or busy, backing off.
ring_map_test(t) ==
    /\ w[t].at = "state"
    /\ w' = [w EXCEPT ![t] =
               IF ring.state = "READY" THEN [@ EXCEPT !.at = "ticket"]
               ELSE IF ring.state = "UNINIT" /\ ~ring.waiting THEN [@ EXCEPT !.at = "cas"]
               ELSE Dropped(@)]
    /\ UNCHANGED <<ring, reader, lapped>>

Claimed(r) == r.state = "UNINIT"

\* compare_exchange: one thread opens the ring, the others drop their record.
ring_map_claim(t) ==
    /\ w[t].at = "cas"
    /\ IF Claimed(ring)
       THEN ring' = [ring EXCEPT !.state = "BUSY"] /\ w' = [w EXCEPT ![t].at = "open"]
       ELSE w' = [w EXCEPT ![t] = Dropped(@)] /\ UNCHANGED ring
    /\ UNCHANGED <<reader, lapped>>

\* ring_fail(): back off, and give up for good after NR_RING_MAX_FAULTS hard faults.
ring_fail(r, hard) ==
    LET faults == r.faults + (IF hard THEN 1 ELSE 0) IN
    [r EXCEPT !.faults = faults, !.waiting = TRUE,
              !.state = IF faults >= NR_RING_MAX_FAULTS THEN "OFF" ELSE "UNINIT"]

\* The file cannot be mapped: it is not there yet, or something is wrong with it.
ring_map_fails(t) ==
    /\ w[t].at = "open"
    /\ \E hard \in BOOLEAN : ring' = ring_fail(ring, hard)
    /\ w' = [w EXCEPT ![t] = Dropped(@)]
    /\ UNCHANGED <<reader, lapped>>

\* The file is mapped: stamped when new, left alone for good when it is not ours.
ring_map_opens(t) ==
    /\ w[t].at = "open"
    /\ IF ring.magic = "foreign"
       THEN /\ ring' = [ring EXCEPT !.state = "OFF"]
            /\ w' = [w EXCEPT ![t] = Dropped(@)]
       ELSE /\ ring' = [ring EXCEPT !.magic = "ours", !.state = "READY", !.faults = 0]
            /\ w' = [w EXCEPT ![t].at = "ticket"]
    /\ UNCHANGED <<reader, lapped>>

\* g_ring_retry_ms passes.
RingTick ==
    /\ ring.waiting
    /\ ring' = [ring EXCEPT !.waiting = FALSE]
    /\ UNCHANGED <<w, reader, lapped>>

\* Another program has left its own file under this name.
RingForeign ==
    /\ ring.magic = "zero" /\ ring.state = "UNINIT"
    /\ ring' = [ring EXCEPT !.magic = "foreign"]
    /\ UNCHANGED <<w, reader, lapped>>

----------------------------------------------------------------------------
(* nr_ring_write(), once the ring is mapped                                 *)

Slot(ticket) == ticket % NR_RING_SLOTS

Writers(s) == {t \in Threads : w[t].at \in {"seq0", "a", "b", "seq"} /\ Slot(w[t].ticket) = s}

\* One fetch_add; a slot that still has a writer is lapped.
ring_ticket(t) ==
    /\ w[t].at = "ticket"
    /\ ring' = [ring EXCEPT !.head = @ + 1]
    /\ w' = [w EXCEPT ![t] = [@ EXCEPT !.at = "seq0", !.ticket = ring.head, !.counted = w[t].counted + 1]]
    /\ lapped' = IF Writers(Slot(ring.head)) # {} THEN lapped \cup {Slot(ring.head)} ELSE lapped
    /\ UNCHANGED reader

\* A field of the record, then the next step.
Store(t, from, field, value, to) ==
    /\ w[t].at = from
    /\ ring' = [ring EXCEPT !.recs[Slot(w[t].ticket)] = [@ EXCEPT ![field] = value]]
    /\ w' = [w EXCEPT ![t].at = to]
    /\ UNCHANGED <<reader, lapped>>

\* Mutant: the old sequence number stays while the body is written.
ring_invalidate_Not(t) == Store(t, "seq0", "seq", ring.recs[Slot(w[t].ticket)].seq, "a")

\* "Invalidate before writing the body, publish after."
ring_invalidate(t) == Store(t, "seq0", "seq", 0, "a")
ring_body(t) == Store(t, "a", "a", w[t].ticket, "b") \/ Store(t, "b", "b", w[t].ticket, "seq")
ring_publish(t) == Store(t, "seq", "seq", w[t].ticket + 1, "done")

ring_step(t) ==
    \/ ring_map_test(t) \/ ring_map_claim(t) \/ ring_map_fails(t) \/ ring_map_opens(t)
    \/ ring_ticket(t) \/ ring_invalidate(t) \/ ring_body(t) \/ ring_publish(t)

----------------------------------------------------------------------------
(* The app's reader, as the comments of nr_ring_write() describe it         *)

Rec == ring.recs[reader.slot]

ReadRecord ==
    /\ ring.magic = "ours"
    /\ \/ /\ reader.at = "seq"
          /\ \E s \in 0..(NR_RING_SLOTS - 1) :
               /\ ring.recs[s].seq # 0
               /\ reader' = [Looking EXCEPT !.at = "a", !.slot = s, !.seq = ring.recs[s].seq]
       \/ reader.at = "a" /\ reader' = [reader EXCEPT !.at = "b", !.a = Rec.a]
       \/ reader.at = "b" /\ reader' = [reader EXCEPT !.at = "again", !.b = Rec.b]
       \/ /\ reader.at = "again"
          /\ reader' = IF Rec.seq = reader.seq THEN [reader EXCEPT !.at = "got"] ELSE Looking
       \/ reader.at = "got" /\ reader' = Looking
    /\ UNCHANGED <<ring, w, lapped>>

----------------------------------------------------------------------------

RingTypeOK ==
    /\ ring.state \in {"UNINIT", "BUSY", "READY", "OFF"} /\ ring.faults \in 0..NR_RING_MAX_FAULTS
    /\ ring.waiting \in BOOLEAN /\ ring.magic \in {"zero", "ours", "foreign"}
    /\ ring.head \in 0..(MaxTickets + Cardinality(Threads))
    /\ \A t \in Threads : w[t].counted \in Nat
    /\ reader.at \in {"seq", "a", "b", "again", "got"}

\* A record the app accepts (the same non-zero seq before and after) is one writer's,
\* whole, and the one its seq names, however writers and the app interleave, as long
\* as no writer has been lapped in that slot (nr_ring_write()).
RecordWhole ==
    reader.at = "got" /\ reader.slot \notin lapped =>
        reader.a = reader.seq - 1 /\ reader.b = reader.seq - 1

\* "EVERY nullptr return counts the drop": a call of nr_ring_write() that is over has
\* either taken one ticket or counted one drop, whatever state it met the ring in.
DropsCounted == \A t \in Threads : w[t].at = "done" => w[t].counted = 1

\* One thread at a time opens ring.bin, and none does once the ring is off: the state
\* RING_BUSY and g_ring_faults belong to that thread (ring_map()).
OneOpener ==
    /\ Cardinality({t \in Threads : w[t].at = "open"}) <= 1
    /\ (\E t \in Threads : w[t].at = "open") <=> ring.state = "BUSY"
============================================================================
