---------------------------- MODULE ShmIqWriter ----------------------------
(***************************************************************************)
(* The region /e3_ran_buffers: ShmIqWriter (src/e3sm/utils/                *)
(* e3sm_shm_writer.cpp) creates it and, with shm.writer "controller",      *)
(* writes its rows; with "gnb" the helper in the gNB writes them with      *)
(* convert_slot() (codelets/include/e3_slot_convert.h).  A dApp finds a    *)
(* row through the header and the two indices of an indication.            *)
(* The content of an antenna's samples is the slot they belong to.         *)
(***************************************************************************)
EXTENDS RadioGeometry, Sequences

CONSTANTS
    Configs,     \* configurations the process may be started with
    UInt32,      \* 2^32: where the uint32_t sizes wrap
    Ports,       \* port counts a slot may report
    MaxSlots,    \* bound: slots published
    MaxOpens     \* bound: calls of open()

Writers == {"controller", "gnb"}

\* No region takes 4 TiB, since open() zeroes it and it has to be in memory: a
\* buffer's rows, of 576 bytes at least, are counted in a uint32_t.
ASSUME WriterAssumption ==
    /\ UInt32 \in Nat \ {0}
    /\ Configs # {}
    /\ \A c \in Configs : /\ c.radio \in Geometry
                          /\ c.size_bytes \in Nat
                          /\ c.size_bytes < 2^10 * UInt32
                          /\ c.writer \in Writers
    /\ Ports \subseteq Nat /\ MaxSlots \in Nat /\ MaxOpens \in Nat

VARIABLES
    cfg,         \* the configuration of the running process
    mapped,      \* mapped_ # nullptr
    header,      \* the fields of *header_ that a dApp reads
    mem,         \* the blocks of the region that are not zero
    cursor,      \* next_buf_ and next_row_ of each writer
    attached,    \* the gNB's helper has attached to this region
    gnb_ports,   \* the port count of that gNB's slots
    pc, cur,     \* the publish in progress
    published,   \* history: slots whose indices were returned, oldest first
    slots,       \* history: slots published so far
    opens,       \* calls of open() so far
    open_ok      \* history: the region was large enough for open()

regionVars == <<cfg, mapped, header, opens, open_ok>>
helperVars == <<attached, gnb_ports>>
vars == <<regionVars, mem, cursor, helperVars, pc, cur, published, slots>>

-----------------------------------------------------------------------------
(* Layout: open() computes it, the dApp reads it from the header. *)

num_fh_rows(c) ==
    LET usable == IF c.size_bytes > HeaderBytes THEN c.size_bytes - HeaderBytes ELSE 0
    IN (usable \div NumBuffers) \div row_bytes(c.radio)

Header(c) ==
    [fh_buffer_size |-> (num_fh_rows(c) * row_bytes(c.radio)) % UInt32,
     num_fh_samples |-> num_fh_samples(c.radio),
     num_fh_rows |-> num_fh_rows(c)]

\* The size of a buffer fits its uint32_t.
SizeFits(c) == num_fh_rows(c) * row_bytes(c.radio) < UInt32

\* row_base of publish_row*().
RowBase(b, r) ==
    HeaderBytes + b * header.fh_buffer_size + r * row_bytes(cfg.radio)

\* Bytes of one antenna in a row.
AntBytes == u16_per_ant(cfg.radio) * 2

\* Where a dApp looks for a row (the offset in e3sm_shm_writer.h).
ReadOffset(b, r) ==
    HeaderBytes + b * header.fh_buffer_size + r * (header.num_fh_samples * 2)

\* The rows of the ring.
RingRows == NumBuffers * header.num_fh_rows

-----------------------------------------------------------------------------
(* The region's bytes, as blocks; one that is overwritten in part counts as    *)
(* gone, which can only happen when the size of a buffer does not fit.         *)

Overlaps(e, off, len) == e.off < off + len /\ off < e.off + e.len

Erase(m, off, len) == {e \in m : ~ Overlaps(e, off, len)}

Store(m, off, len, s, a) ==
    Erase(m, off, len) \cup {[off |-> off, len |-> len, slot |-> s, ant |-> a]}

\* Reads as slot s, antenna a / reads as silence.
Holds(off, len, s, a) == [off |-> off, len |-> len, slot |-> s, ant |-> a] \in mem
Silent(off, len) == \A e \in mem : ~ Overlaps(e, off, len)

-----------------------------------------------------------------------------
NoSlot == [slot |-> 0, ports |-> 0, ant |-> 0, buf |-> 0, row |-> 0, by |-> "controller"]
Start == [buf |-> 0, row |-> 0]
NoHeader == [fh_buffer_size |-> 0, num_fh_samples |-> 0, num_fh_rows |-> 0]

Init ==
    /\ cfg \in {c \in Configs : load_config(c)}
    /\ mapped = FALSE
    /\ header = NoHeader
    /\ mem = {}
    /\ cursor = [w \in Writers |-> Start]
    /\ attached = FALSE /\ gnb_ports = 0
    /\ pc = "idle" /\ cur = NoSlot
    /\ published = <<>>
    /\ slots = 0 /\ opens = 0
    /\ open_ok = TRUE

\* Mutant of Open: the region is not zeroed, as if it were always new.
OpenKeepsRows(c) ==
    /\ ~ mapped /\ opens < MaxOpens /\ load_config(c)
    /\ opens' = opens + 1
    /\ cfg' = c
    /\ header' = Header(c)
    /\ open_ok' = (num_fh_rows(c) # 0)
    /\ mapped' = (num_fh_rows(c) # 0)
    /\ cursor' = [cursor EXCEPT !["controller"] = Start]
    /\ UNCHANGED <<mem, helperVars, pc, cur, published, slots>>

\* A process starts, with a configuration load_config() accepts, and calls
\* open().  The region may be left over from a process that died; it is zeroed
\* either way.  One too small for a row per buffer is closed again.
Open(c) ==
    /\ ~ mapped /\ opens < MaxOpens /\ load_config(c)
    /\ opens' = opens + 1
    /\ cfg' = c
    /\ header' = Header(c)
    /\ open_ok' = (num_fh_rows(c) # 0)
    /\ mapped' = (num_fh_rows(c) # 0)
    /\ mem' = {}
    /\ cursor' = [cursor EXCEPT !["controller"] = Start]
    /\ UNCHANGED <<helperVars, pc, cur, published, slots>>

\* The gNB's helper writes a region only after it was told to attach to it.
Unmap ==
    /\ mapped
    /\ mapped' = FALSE
    /\ attached' = FALSE
    /\ pc' = "idle" /\ cur' = NoSlot
    /\ published' = <<>>
    /\ UNCHANGED <<cfg, header, opens, open_ok, cursor, gnb_ports, slots>>

\* close(), once the worker has stopped: the name is unlinked, so that the
\* next open() gets a new region.
Close ==
    /\ ~ (pc = "write" /\ cur.by = "controller")
    /\ mem' = {}
    /\ Unmap

\* The process dies, at any point: the name and the rows stay behind.
Die == UNCHANGED mem /\ Unmap

\* jbpf_e3_attach() in the gNB; where its cursor starts is the helper's own.
\* The ports of a gNB do not change while it runs.
Attach(b, r, p) ==
    /\ mapped /\ ~ attached /\ cfg.writer = "gnb"
    /\ attached' = TRUE /\ gnb_ports' = p
    /\ cursor' = [cursor EXCEPT !["gnb"] = [buf |-> b, row |-> r]]
    /\ UNCHANGED <<regionVars, mem, pc, cur, published, slots>>

-----------------------------------------------------------------------------
(* Publishing a row. *)

\* Mutant of MayWrite: the controller writes whoever the writer is.
MayWriteAnyone(w) == w = "gnb" => attached

\* writes_rows() for the controller; the helper is only told to attach when
\* the configuration says "gnb".
MayWrite(w) == w = cfg.writer /\ (w = "gnb" => attached)

PortsWritten(p) ==
    IF p = 0 THEN 1
    ELSE IF p > cfg.radio.nof_ports THEN cfg.radio.nof_ports ELSE p

\* publish_row_cbf16(p), and publish_row(), which is p = 1: take the indices.
Publish(w, p) ==
    /\ mapped /\ pc = "idle" /\ slots < MaxSlots
    /\ MayWrite(w) /\ (w = "gnb" => p = gnb_ports)
    /\ slots' = slots + 1
    /\ cur' = [slot |-> slots + 1, ports |-> PortsWritten(p), ant |-> 0,
               buf |-> cursor[w].buf, row |-> cursor[w].row, by |-> w]
    /\ pc' = "write"
    /\ UNCHANGED <<regionVars, mem, cursor, helperVars, published>>

\* One antenna converted into the row.
WriteAnt ==
    /\ pc = "write" /\ cur.ant < cur.ports
    /\ mem' = Store(mem, RowBase(cur.buf, cur.row) + cur.ant * AntBytes, AntBytes,
                    cur.slot, cur.ant)
    /\ cur' = [cur EXCEPT !.ant = @ + 1]
    /\ UNCHANGED <<regionVars, cursor, helperVars, pc, published, slots>>

\* Mutant of Advance: one row too late.
AdvanceLate(c) ==
    IF c.row + 1 > header.num_fh_rows
    THEN [buf |-> (c.buf + 1) % NumBuffers, row |-> 0]
    ELSE [c EXCEPT !.row = @ + 1]

\* The next row; past the last one, the first row of the other buffer.
Advance(c) ==
    IF c.row + 1 >= header.num_fh_rows
    THEN [buf |-> (c.buf + 1) % NumBuffers, row |-> 0]
    ELSE [c EXCEPT !.row = @ + 1]

\* Mutant of ClearTail: antennas the slot does not have are left alone.
ClearTailNot(m) == m

\* memset of the antennas this slot did not fill.  convert_slot(), the helper's,
\* leaves them "untouched (the row is zero-filled once at region creation)"; that
\* the helper clears them all the same is outside the repository.
ClearTail(m) ==
    LET written == cur.ports * AntBytes
    IN IF cur.by = "controller" /\ written < row_bytes(cfg.radio)
       THEN Erase(m, RowBase(cur.buf, cur.row) + written, row_bytes(cfg.radio) - written)
       ELSE m

\* At most a ring of history is kept.
Remember(p) ==
    IF Len(published) < RingRows THEN Append(published, p)
    ELSE Append(Tail(published), p)

\* The rest of publish_row*(): the indices are the caller's from here on.
Return ==
    /\ pc = "write" /\ cur.ant = cur.ports
    /\ mem' = ClearTail(mem)
    /\ cursor' = [cursor EXCEPT ![cur.by] = Advance(@)]
    /\ published' = Remember([buf |-> cur.buf, row |-> cur.row,
                              slot |-> cur.slot, ports |-> cur.ports])
    /\ pc' = "idle" /\ cur' = NoSlot
    /\ UNCHANGED <<regionVars, helperVars, slots>>

Next ==
    \/ \E c \in Configs : Open(c)
    \/ Close \/ Die
    \/ \E b \in 0 .. NumBuffers - 1, r \in 0 .. header.num_fh_rows - 1, p \in Ports :
          Attach(b, r, p)
    \/ \E w \in Writers, p \in Ports : Publish(w, p)
    \/ WriteAnt \/ Return

Spec == Init /\ [][Next]_vars

-----------------------------------------------------------------------------
(* Properties. *)

Block == [off : Nat, len : Nat, slot : Nat, ant : Nat]
Index == [buf : Nat, row : Nat]

\* Every variable holds a value of its kind, and a mapped region has the header
\* open() writes for the configuration of the process.
TypeOK ==
    /\ cfg \in Configs /\ load_config(cfg)
    /\ mapped \in BOOLEAN /\ attached \in BOOLEAN /\ open_ok \in BOOLEAN
    /\ mapped => header = Header(cfg)
    /\ mem \subseteq Block
    /\ cursor \in [Writers -> Index]
    /\ pc \in {"idle", "write"}
    /\ cur \in [slot : Nat, ports : Nat, ant : Nat, buf : Nat, row : Nat, by : Writers]
    /\ published \in Seq([buf : Nat, row : Nat, slot : Nat, ports : Nat])
    /\ slots \in Nat /\ opens \in Nat /\ gnb_ports \in Nat

\* A region that load_config() accepts is one that open() can lay out: the two
\* size checks, made from the same figures in two places, agree.
AcceptedOpens == open_ok

\* Every byte a publish writes belongs to the antenna block, of a row of the
\* header's ring, at which a dApp would look for it, and lies in the region
\* (row_base of publish_row*() against the offset in e3sm_shm_writer.h).
WritesInsideRows ==
    mapped =>
    \A e \in mem :
        /\ e.off >= HeaderBytes /\ e.off + e.len <= cfg.size_bytes
        /\ \E b \in 0 .. NumBuffers - 1, r \in 0 .. header.num_fh_rows - 1 :
               e.off = ReadOffset(b, r) + e.ant * AntBytes /\ e.ant < cfg.radio.nof_ports

\* The slots whose row the ring has not come round to.
Intact == LET n == Len(published)
              k == IF pc = "idle" THEN RingRows ELSE RingRows - 1
          IN {i \in 1 .. n : i > n - k}

\* Until a whole ring of later slots has been published, an indication's row
\* reads back as its slot: every antenna it has, silence on the others, also
\* while the next row is being written.  This is how long a dApp may take.  It
\* is so in a region below 8 GiB, where fh_buffer_size_ does not wrap.
RowIntact ==
    SizeFits(cfg) =>
    \A i \in Intact :
        LET p == published[i]
            At(a) == ReadOffset(p.buf, p.row) + a * AntBytes
        IN \A a \in 0 .. cfg.radio.nof_ports - 1 :
               IF a < p.ports THEN Holds(At(a), AntBytes, p.slot, a)
               ELSE Silent(At(a), AntBytes)

\* Samples in the region are those of a slot published since it was opened:
\* neither a recycled row nor a region left by a dead process shows older ones
\* (the memset of open() and of publish_row*()).  The row being written may
\* still show the slot it replaces.  Again in a region below 8 GiB.
NoStaleIq ==
    mapped /\ SizeFits(cfg) =>
    \A e \in mem :
        \/ \E i \in DOMAIN published : published[i].slot = e.slot
        \/ pc = "write" /\ RowBase(cur.buf, cur.row) <= e.off
                        /\ e.off < RowBase(cur.buf, cur.row) + row_bytes(cfg.radio)

\* "double-buffered ring" (e3sm_shm_writer.cpp:174): the buffers have no byte in
\* common, whatever region load_config() accepts.
BuffersApart ==
    mapped => header.fh_buffer_size >= header.num_fh_rows * row_bytes(cfg.radio)
=============================================================================
