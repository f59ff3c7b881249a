--------------------------- MODULE JbpfDispatcher ---------------------------
(***************************************************************************)
(* The jbpf output channel of one stream and the dispatcher that polls it  *)
(* (include/jbpf_dispatcher.h), driven by the main thread's poll loop      *)
(* (src/e3_controller.cpp).                                                *)
(*                                                                         *)
(* The channel is outside this repository.  It is modelled from how the    *)
(* controller uses it: the codelet takes a free buffer, writes a           *)
(* descriptor into it and submits it; the poll thread receives submitted   *)
(* buffers in batches and somebody must hand each one back.  Every load of *)
(* the codelet makes a new channel with its own pool; a pointer carries    *)
(* the load it came from, because a pointer of an earlier load addresses   *)
(* memory that no longer belongs to the stream.                            *)
(***************************************************************************)
EXTENDS Integers, Sequences, FiniteSets

CONSTANTS
    Buffers,    \* the buffers of the channel's pool (32 for slot_iq)
    MaxSlots,   \* bound: slots the codelet captures in a behaviour
    MaxLoads    \* bound: codelet loads in a behaviour

ASSUME BoundsAssumption == MaxSlots \in Nat /\ MaxLoads \in Nat
ASSUME PoolAssumption == IsFiniteSet(Buffers)

VARIABLES
    load_id,      \* which codelet load the channel belongs to
    channel_up,   \* the codelet is loaded and its channels exist
    free_bufs,    \* buffers in the pool
    out_ring,     \* buffers submitted by the codelet, not yet polled
    slot_in,      \* slot_in[b]: the slot whose descriptor b holds
    slots,        \* slots captured so far
    registered,   \* handlers_ has an entry for the stream (defer_release)
    poll_pc,      \* where the main thread is
    bufs          \* the batch the poll callback was called with

channelVars == <<load_id, channel_up, free_bufs, out_ring, slot_in, slots>>
dispatchVars == <<registered, poll_pc, bufs>>

Pointer == [load : 0..MaxLoads, buf : Buffers]

-----------------------------------------------------------------------------
(* The channel, as the controller sees it. *)

\* The hook runs the codelet on a completed uplink slot.  With no free buffer
\* the codelet returns without output, so there is nothing to model.
CodeletOutput ==
    /\ channel_up
    /\ slots < MaxSlots
    /\ \E b \in free_bufs :
          /\ free_bufs' = free_bufs \ {b}
          /\ slot_in' = [slot_in EXCEPT ![b] = slots + 1]
          /\ out_ring' = Append(out_ring, b)
    /\ slots' = slots + 1
    /\ UNCHANGED <<load_id, channel_up>>

\* A load creates the channels with empty queues and a full pool.
CreateChannel ==
    /\ load_id < MaxLoads
    /\ load_id' = load_id + 1
    /\ channel_up' = TRUE
    /\ free_bufs' = Buffers
    /\ out_ring' = <<>>
    /\ UNCHANGED <<slot_in, slots>>

\* An unload destroys them, with whatever they hold.
DestroyChannel ==
    /\ channel_up' = FALSE
    /\ free_bufs' = {}
    /\ out_ring' = <<>>
    /\ UNCHANGED <<load_id, slot_in, slots>>

Live(p) == channel_up /\ p.load = load_id

\* jbpf_io_channel_release_buf.  A pointer of an earlier load has no pool to
\* go back to: its release changes nothing the current channel can see.
Release(p) ==
    /\ free_bufs' = IF Live(p) THEN free_bufs \cup {p.buf} ELSE free_bufs
    /\ UNCHANGED <<load_id, channel_up, out_ring, slot_in, slots>>

-----------------------------------------------------------------------------
(* The poll thread. *)

\* jbpf_io_channel_handle_out_bufs calls back with the first n buffers.
Poll ==
    /\ poll_pc = "idle"
    /\ \E n \in 1..Len(out_ring) :
          /\ bufs' = [i \in 1..n |-> [load |-> load_id, buf |-> out_ring[i]]]
          /\ out_ring' = SubSeq(out_ring, n + 1, Len(out_ring))
    /\ poll_pc' = "lookup"
    /\ UNCHANGED <<load_id, channel_up, free_bufs, slot_in, slots, registered>>

\* dispatch() copies the handler under mu_ and calls the copy after unlocking:
\* from here on the handler runs whether or not the stream stays registered.
Lookup ==
    /\ poll_pc = "lookup"
    /\ poll_pc' = IF registered THEN "handler" ELSE "discard"
    /\ UNCHANGED <<channelVars, registered, bufs>>

\* The thread is done with the first buffer of its batch.
NextBuf(pc) ==
    /\ bufs' = Tail(bufs)
    /\ poll_pc' = IF Len(bufs) = 1 THEN "idle" ELSE pc
    /\ UNCHANGED registered

\* No handler: dispatch() releases the batch itself, buffer by buffer.
Discard ==
    /\ poll_pc = "discard"
    /\ Release(Head(bufs))
    /\ NextBuf("discard")

InHandler == poll_pc \in {"handler", "send_shm", "send_sel", "mark_sent",
                          "enqueue", "drop", "write", "publish"}

RegisterStream == registered' = TRUE /\ UNCHANGED <<poll_pc, bufs>>
UnregisterStream == registered' = FALSE /\ UNCHANGED <<poll_pc, bufs>>

-----------------------------------------------------------------------------
DispatcherInit(up) ==
    /\ load_id = 0
    /\ channel_up = up
    /\ free_bufs = IF up THEN Buffers ELSE {}
    /\ out_ring = <<>>
    /\ slot_in = [b \in Buffers |-> 0]
    /\ slots = 0
    /\ registered = FALSE
    /\ poll_pc = "idle"
    /\ bufs = <<>>

DispatcherTypeOK ==
    /\ load_id \in 0..MaxLoads
    /\ channel_up \in BOOLEAN
    /\ free_bufs \subseteq Buffers
    /\ out_ring \in Seq(Buffers)
    /\ slot_in \in [Buffers -> 0..MaxSlots]
    /\ slots \in 0..MaxSlots
    /\ registered \in BOOLEAN
    /\ poll_pc \in {"idle", "lookup", "discard", "handler", "send_shm",
                    "send_sel", "mark_sent", "enqueue", "drop", "write",
                    "publish", "stopping", "joining", "exited"}
    /\ bufs \in Seq(Pointer)
=============================================================================
