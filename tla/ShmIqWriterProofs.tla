------------------------- MODULE ShmIqWriterProofs -------------------------
(***************************************************************************)
(* Proofs about ShmIqWriter for every configuration load_config() accepts, *)
(* every number of slots and restarts: what a dApp finds in the region.    *)
(***************************************************************************)
EXTENDS ShmIqWriter, TLAPS

-----------------------------------------------------------------------------
(* The region seen as a grid of cells, one per row of the ring and antenna of *)
(* the row: the arithmetic on byte offsets, done once, for every              *)
(* configuration load_config() accepts.                                       *)

Good == {c \in Configs : load_config(c)}
Ring(c) == 0 .. 2 * num_fh_rows(c) - 1
Ants(c) == 0 .. c.radio.nof_ports - 1
AB(c) == u16_per_ant(c.radio) * 2
Off(c, k, a) == HeaderBytes + k * row_bytes(c.radio) + a * AB(c)
Cell(c, k, a, s) == [off |-> Off(c, k, a), len |-> AB(c), slot |-> s, ant |-> a]

\* The position of a pair of indices in the ring.
Idx(c, p) == p.buf * num_fh_rows(c) + p.row
InRing(c, p) == p.buf \in {0, 1} /\ p.row \in 0 .. num_fh_rows(c) - 1

Grid(c, m) == \A e \in m : \E k \in Ring(c), a \in Ants(c), s \in Nat : e = Cell(c, k, a, s)

-----------------------------------------------------------------------------
(* Layout. *)

\* A later row starts after an earlier one ends.
LEMMA Spacing ==
    ASSUME NEW k \in Nat, NEW j \in Nat, NEW w \in Nat, k < j
    PROVE  k * w + w <= j * w
  OBVIOUS

\* Whole rows fit into what they divide.
LEMMA DivMul ==
    ASSUME NEW a \in Nat, NEW b \in Nat, b > 0
    PROVE  /\ a \div b \in Nat
           /\ (a \div b) * b <= a
           /\ a >= b => a \div b >= 1
  OBVIOUS

\* What a number becomes in a uint32_t.
LEMMA Wraps ==
    ASSUME NEW y \in Nat, NEW u \in Nat \ {0}
    PROVE  y % u \in Nat /\ y % u <= y /\ (y < u => y % u = y)
<1>1. y % u \in 0 .. u - 1 /\ y = u * (y \div u) + (y % u) /\ y \div u \in Nat
  OBVIOUS
<1>2. u * (y \div u) \in Nat
  BY <1>1
<1>3. y < u => y % u = y
  OBVIOUS
<1> QED
  BY <1>1, <1>2, <1>3

\* The sizes of an accepted geometry: an antenna takes room, and a row is its
\* antennas.
LEMMA RowSizes ==
    ASSUME NEW c \in Good
    PROVE  /\ c.radio.nof_ports \in 1 .. 8
           /\ AB(c) \in Nat /\ AB(c) > 0
           /\ row_bytes(c.radio) = c.radio.nof_ports * AB(c)
           /\ row_bytes(c.radio) \in Nat /\ row_bytes(c.radio) > 0
<1> DEFINE P == c.radio.nof_ports
           X == c.radio.nof_prbs
           Y == c.radio.nof_symbols
<1>1. P \in 1 .. 8 /\ X \in 1 .. 275 /\ Y \in {12, 14}
  BY DEF Good, load_config, validate
<1>2. AB(c) = Y * (X * 12) * 2 * 2
  BY DEF AB, u16_per_ant, nof_subcarriers
<1>3. row_bytes(c.radio) = P * (Y * (X * 12) * 2) * 2
  BY DEF row_bytes, num_fh_samples, u16_per_ant, nof_subcarriers
<1> HIDE DEF P, X, Y
<1>4. AB(c) \in Nat /\ AB(c) > 0
  BY <1>1, <1>2
<1>5. row_bytes(c.radio) = P * AB(c)
  BY <1>1, <1>2, <1>3
<1>6. row_bytes(c.radio) \in Nat /\ row_bytes(c.radio) > 0
  BY <1>1, <1>4, <1>5
<1> QED
  BY <1>1, <1>4, <1>5, <1>6, Zenon DEF P

\* open() finds room for a row per buffer in a region load_config() accepts,
\* and both buffers fit; the size of a buffer may wrap, to less than it is.
LEMMA Layout ==
    ASSUME NEW c \in Good
    PROVE  /\ num_fh_rows(c) \in Nat /\ num_fh_rows(c) >= 1
           /\ Header(c).fh_buffer_size \in Nat
           /\ Header(c).fh_buffer_size <= num_fh_rows(c) * row_bytes(c.radio)
           /\ SizeFits(c) =>
                 Header(c).fh_buffer_size = num_fh_rows(c) * row_bytes(c.radio)
           /\ Header(c).num_fh_samples * 2 = row_bytes(c.radio)
           /\ HeaderBytes + 2 * (num_fh_rows(c) * row_bytes(c.radio)) <= c.size_bytes
<1> DEFINE rb == row_bytes(c.radio)
           S == c.size_bytes
           half == (S - 64) \div 2
<1>1. rb \in Nat /\ rb > 0
  BY RowSizes
<1>2. S \in Nat /\ S > 64 /\ half >= rb /\ UInt32 \in Nat \ {0}
  BY WriterAssumption DEF Good, load_config, RegionHoldsARow, HeaderBytes, NumBuffers
<1>3. num_fh_rows(c) = half \div rb
  BY <1>2 DEF num_fh_rows, HeaderBytes, NumBuffers
<1>4. half \in Nat /\ half * 2 <= S - 64
  BY <1>2, DivMul
<1> HIDE DEF half, rb, S
<1>5. /\ num_fh_rows(c) \in Nat /\ num_fh_rows(c) >= 1
      /\ num_fh_rows(c) * rb <= half
  BY <1>1, <1>2, <1>3, <1>4, DivMul
<1> DEFINE y == num_fh_rows(c) * rb
<1>6. y \in Nat
  BY <1>1, <1>5
<1>7. y % UInt32 \in Nat /\ y % UInt32 <= y /\ (y < UInt32 => y % UInt32 = y)
  BY <1>2, <1>6, Wraps, Zenon
<1>8. /\ Header(c).fh_buffer_size \in Nat /\ Header(c).fh_buffer_size <= y
      /\ SizeFits(c) => Header(c).fh_buffer_size = y
  BY <1>7, Zenon DEF Header, SizeFits, rb
<1>9. Header(c).num_fh_samples * 2 = rb
  BY DEF Header, rb, row_bytes
<1>10. 64 + 2 * (num_fh_rows(c) * rb) <= S
  BY <1>1, <1>2, <1>4, <1>5, <1>6
<1> QED
  BY <1>5, <1>8, <1>9, <1>10, Zenon DEF rb, S, HeaderBytes

-----------------------------------------------------------------------------
(* Cells. *)

\* A cell lies inside its row.
LEMMA CellTypes ==
    ASSUME NEW c \in Good, NEW k \in Ring(c), NEW a \in Ants(c)
    PROVE  /\ k \in Nat /\ a \in Nat /\ a < c.radio.nof_ports
           /\ Off(c, k, a) \in Nat
           /\ k * row_bytes(c.radio) \in Nat /\ a * AB(c) \in Nat
           /\ a * AB(c) + AB(c) <= row_bytes(c.radio)
<1>1. k \in Nat /\ a \in Nat /\ a < c.radio.nof_ports /\ c.radio.nof_ports \in Nat
  BY RowSizes, Layout DEF Ring, Ants
<1>2. k * row_bytes(c.radio) \in Nat /\ a * AB(c) \in Nat
  BY <1>1, RowSizes
<1>3. a * AB(c) + AB(c) <= c.radio.nof_ports * AB(c)
  BY <1>1, RowSizes, Spacing
<1>4. Off(c, k, a) \in Nat
  BY <1>2 DEF Off, HeaderBytes
<1> QED
  BY <1>1, <1>2, <1>3, <1>4, RowSizes

\* Different rows share no cell.
LEMMA RowsApart ==
    ASSUME NEW x \in Nat, NEW y \in Nat, NEW u \in Nat, NEW v \in Nat,
           NEW rb \in Nat, NEW w \in Nat, u + w <= rb, x + rb <= y
    PROVE  64 + x + u + w <= 64 + y + v
  OBVIOUS

\* Two cells of the grid share no byte.
LEMMA CellsApart ==
    ASSUME NEW c \in Good, NEW k \in Ring(c), NEW a \in Ants(c),
           NEW j \in Ring(c), NEW b \in Ants(c), k # j \/ a # b
    PROVE  \/ Off(c, k, a) + AB(c) <= Off(c, j, b)
           \/ Off(c, j, b) + AB(c) <= Off(c, k, a)
<1> DEFINE rb == row_bytes(c.radio)
           w == AB(c)
<1>1. /\ rb \in Nat /\ w \in Nat
      /\ k \in Nat /\ a \in Nat /\ j \in Nat /\ b \in Nat
      /\ k * rb \in Nat /\ j * rb \in Nat /\ a * w \in Nat /\ b * w \in Nat
      /\ a * w + w <= rb /\ b * w + w <= rb
  BY RowSizes, CellTypes
<1>2. Off(c, k, a) = 64 + k * rb + a * w /\ Off(c, j, b) = 64 + j * rb + b * w
  BY DEF Off, HeaderBytes
<1> HIDE DEF rb, w
<1>3. CASE k < j
  <2>1. k * rb + rb <= j * rb
    BY <1>1, <1>3, Spacing
  <2>2. 64 + k * rb + a * w + w <= 64 + j * rb + b * w
    BY <1>1, <2>1, RowsApart
  <2> QED
    BY <1>2, <2>2 DEF w
<1>4. CASE j < k
  <2>1. j * rb + rb <= k * rb
    BY <1>1, <1>4, Spacing
  <2>2. 64 + j * rb + b * w + w <= 64 + k * rb + a * w
    BY <1>1, <2>1, RowsApart
  <2> QED
    BY <1>2, <2>2 DEF w
<1>5. CASE k = j /\ a < b
  <2>1. a * w + w <= b * w
    BY <1>1, <1>5, Spacing
  <2> QED
    BY <1>1, <1>2, <1>5, <2>1 DEF w
<1>6. CASE k = j /\ b < a
  <2>1. b * w + w <= a * w
    BY <1>1, <1>6, Spacing
  <2> QED
    BY <1>1, <1>2, <1>6, <2>1 DEF w
<1> QED
  BY <1>1, <1>3, <1>4, <1>5, <1>6

\* A cell overlaps itself and no other one.
LEMMA CellOverlaps ==
    ASSUME NEW c \in Good, NEW k \in Ring(c), NEW a \in Ants(c),
           NEW j \in Ring(c), NEW b \in Ants(c), NEW t \in Nat
    PROVE  Overlaps(Cell(c, j, b, t), Off(c, k, a), AB(c)) <=> (j = k /\ b = a)
<1>1. /\ Off(c, k, a) \in Nat /\ Off(c, j, b) \in Nat /\ AB(c) \in Nat /\ AB(c) > 0
  BY CellTypes, RowSizes
<1>2. Cell(c, j, b, t).off = Off(c, j, b) /\ Cell(c, j, b, t).len = AB(c)
  BY DEF Cell
<1>3. CASE j = k /\ b = a
  BY <1>1, <1>2, <1>3 DEF Overlaps
<1>4. CASE ~ (j = k /\ b = a)
  <2>1. \/ Off(c, k, a) + AB(c) <= Off(c, j, b)
        \/ Off(c, j, b) + AB(c) <= Off(c, k, a)
    BY <1>4, CellsApart
  <2> QED
    BY <1>1, <1>2, <1>4, <2>1 DEF Overlaps
<1> QED
  BY <1>3, <1>4

\* Cells are equal only if all their parts are.
LEMMA CellEqual ==
    ASSUME NEW c \in Good, NEW k \in Ring(c), NEW a \in Ants(c), NEW s \in Nat,
           NEW j \in Ring(c), NEW b \in Ants(c), NEW t \in Nat,
           Cell(c, j, b, t) = Cell(c, k, a, s)
    PROVE  j = k /\ b = a /\ t = s
<1>1. Off(c, j, b) = Off(c, k, a) /\ t = s /\ b = a
  BY DEF Cell
<1>2. /\ Off(c, k, a) \in Nat /\ AB(c) \in Nat /\ AB(c) > 0
  BY CellTypes, RowSizes
<1> QED
  BY <1>1, <1>2, CellsApart

\* Writing an antenna changes its cell and nothing else.
LEMMA StoreCell ==
    ASSUME NEW c \in Good, NEW m, Grid(c, m),
           NEW k \in Ring(c), NEW a \in Ants(c), NEW s \in Nat
    PROVE  LET n == Store(m, Off(c, k, a), AB(c), s, a)
           IN /\ Grid(c, n)
              /\ \A j \in Ring(c), b \in Ants(c), t \in Nat :
                    Cell(c, j, b, t) \in n <=>
                        IF j = k /\ b = a THEN t = s ELSE Cell(c, j, b, t) \in m
<1> DEFINE n == Store(m, Off(c, k, a), AB(c), s, a)
<1>1. n = {e \in m : ~ Overlaps(e, Off(c, k, a), AB(c))} \cup {Cell(c, k, a, s)}
  BY DEF Store, Erase, Cell
<1> HIDE DEF n
<1>2. Grid(c, n)
  BY <1>1 DEF Grid
<1>3. ASSUME NEW j \in Ring(c), NEW b \in Ants(c), NEW t \in Nat
      PROVE  Cell(c, j, b, t) \in n <=>
                IF j = k /\ b = a THEN t = s ELSE Cell(c, j, b, t) \in m
  <2>1. Overlaps(Cell(c, j, b, t), Off(c, k, a), AB(c)) <=> (j = k /\ b = a)
    BY CellOverlaps
  <2>2. Cell(c, j, b, t) = Cell(c, k, a, s) <=> (j = k /\ b = a /\ t = s)
    BY CellEqual
  <2> QED
    BY <1>1, <2>1, <2>2
<1> QED
  BY <1>2, <1>3 DEF n

\* The bytes from antenna p to the end of row k overlap the cells they hold.
LEMMA TailOverlaps ==
    ASSUME NEW c \in Good, NEW k \in Ring(c), NEW p \in 1 .. c.radio.nof_ports - 1,
           NEW j \in Ring(c), NEW b \in Ants(c), NEW t \in Nat
    PROVE  Overlaps(Cell(c, j, b, t), Off(c, k, p), row_bytes(c.radio) - p * AB(c))
              <=> (j = k /\ b >= p)
<1> DEFINE rb == row_bytes(c.radio)
           w == AB(c)
           K == k * rb
           J == j * rb
           B == b * w
           Q == p * w
<1>1. p \in Ants(c)
  BY RowSizes DEF Ants
<1>2. /\ rb \in Nat /\ w \in Nat /\ w > 0
      /\ k \in Nat /\ j \in Nat /\ b \in Nat /\ p \in Nat
      /\ K \in Nat /\ J \in Nat /\ B \in Nat /\ Q \in Nat
      /\ B + w <= rb /\ Q + w <= rb
  BY <1>1, RowSizes, CellTypes, Zenon
<1>3. /\ k < j => K + rb <= J
      /\ j < k => J + rb <= K
      /\ k = j => K = J
      /\ b < p => B + w <= Q
      /\ b > p => Q + w <= B
      /\ b = p => B = Q
  BY <1>2, Spacing, Zenon
<1>4. Overlaps(Cell(c, j, b, t), Off(c, k, p), rb - Q)
         <=> 64 + J + B < 64 + K + Q + (rb - Q) /\ 64 + K + Q < 64 + J + B + w
  BY DEF Overlaps, Cell, Off, HeaderBytes
<1> HIDE DEF rb, w, K, J, B, Q
<1>5. (64 + J + B < 64 + K + Q + (rb - Q) /\ 64 + K + Q < 64 + J + B + w)
         <=> (j = k /\ b >= p)
  BY <1>2, <1>3
<1> QED
  BY <1>4, <1>5 DEF rb, w, Q

\* Clearing the tail of a row empties its cells from antenna p on and no other.
LEMMA EraseTail ==
    ASSUME NEW c \in Good, NEW m, Grid(c, m),
           NEW k \in Ring(c), NEW p \in 1 .. c.radio.nof_ports
    PROVE  LET n == IF p * AB(c) < row_bytes(c.radio)
                    THEN Erase(m, Off(c, k, p), row_bytes(c.radio) - p * AB(c)) ELSE m
           IN /\ Grid(c, n)
              /\ \A j \in Ring(c), b \in Ants(c), t \in Nat :
                    Cell(c, j, b, t) \in n <=>
                        Cell(c, j, b, t) \in m /\ ~ (j = k /\ b >= p)
<1> DEFINE n == IF p * AB(c) < row_bytes(c.radio)
                THEN Erase(m, Off(c, k, p), row_bytes(c.radio) - p * AB(c)) ELSE m
<1>1. c.radio.nof_ports \in Nat /\ p \in Nat /\ AB(c) \in Nat /\ AB(c) > 0
  BY RowSizes
<1>2. CASE p = c.radio.nof_ports
  <2>1. ~ (p * AB(c) < row_bytes(c.radio))
    BY <1>1, <1>2, RowSizes
  <2>2. n = m
    BY <2>1
  <2>3. \A b \in Ants(c) : ~ (b >= p)
    BY <1>1, <1>2 DEF Ants
  <2> QED
    BY <2>2, <2>3
<1>3. CASE p # c.radio.nof_ports
  <2>1. p \in 1 .. c.radio.nof_ports - 1
    BY <1>1, <1>3
  <2>2. p * AB(c) + AB(c) <= row_bytes(c.radio) /\ p * AB(c) \in Nat
    BY <1>1, <2>1, RowSizes, CellTypes DEF Ants
  <2>6. p * AB(c) < row_bytes(c.radio)
    BY <1>1, <2>2, RowSizes
  <2>3. n = {e \in m : ~ Overlaps(e, Off(c, k, p), row_bytes(c.radio) - p * AB(c))}
    BY <2>6 DEF Erase
  <2> HIDE DEF n
  <2>4. Grid(c, n)
    BY <2>3 DEF Grid
  <2>5. ASSUME NEW j \in Ring(c), NEW b \in Ants(c), NEW t \in Nat
        PROVE  Cell(c, j, b, t) \in n <=>
                  Cell(c, j, b, t) \in m /\ ~ (j = k /\ b >= p)
    <3>1. Overlaps(Cell(c, j, b, t), Off(c, k, p), row_bytes(c.radio) - p * AB(c))
             <=> (j = k /\ b >= p)
      BY <2>1, TailOverlaps
    <3> QED
      BY <2>3, <3>1
  <2> QED
    BY <2>4, <2>5 DEF n
<1> QED
  BY <1>2, <1>3

-----------------------------------------------------------------------------
(* What the writer and a dApp do with the cells. *)

\* A pair of indices in the ring is one of its rows.
LEMMA RingIndex ==
    ASSUME TypeOK, mapped, NEW p, InRing(cfg, p)
    PROVE  Idx(cfg, p) \in Ring(cfg)
<1> DEFINE R == num_fh_rows(cfg)
<1>1. R \in Nat /\ R >= 1
  BY Layout, Zenon DEF TypeOK, Good
<1>2. p.buf \in {0, 1} /\ p.row \in 0 .. R - 1 /\ Idx(cfg, p) = p.buf * R + p.row
  BY Zenon DEF InRing, Idx
<1> HIDE DEF R
<1>3. Idx(cfg, p) \in 0 .. 2 * R - 1
  BY <1>1, <1>2
<1> QED
  BY <1>3, Zenon DEF Ring, R

\* The writer's row_base is where the dApp looks, and inside the region with
\* the whole antenna.
LEMMA RowBases ==
    ASSUME TypeOK, mapped, NEW b \in {0, 1}, NEW r \in 0 .. num_fh_rows(cfg) - 1,
           NEW a \in Ants(cfg)
    PROVE  /\ RowBase(b, r) + a * AntBytes = ReadOffset(b, r) + a * AntBytes
           /\ RowBase(b, r) + a * AntBytes \in Nat /\ AntBytes \in Nat
           /\ RowBase(b, r) + a * AntBytes >= HeaderBytes
           /\ RowBase(b, r) + a * AntBytes + AntBytes <= cfg.size_bytes
           /\ a \in Nat /\ a < cfg.radio.nof_ports
<1> DEFINE R == num_fh_rows(cfg)
           rb == row_bytes(cfg.radio)
           w == AB(cfg)
           fh == header.fh_buffer_size
           S == cfg.size_bytes
<1>1. cfg \in Good /\ header = Header(cfg)
  BY Zenon DEF TypeOK, Good
<1>2. /\ R \in Nat /\ R >= 1 /\ rb \in Nat /\ w \in Nat
      /\ fh \in Nat /\ fh <= R * rb /\ header.num_fh_samples * 2 = rb
      /\ 64 + 2 * (R * rb) <= S
  BY <1>1, Layout, RowSizes, Zenon DEF HeaderBytes
<1>3. S \in Nat
  BY <1>1, WriterAssumption, Zenon DEF Good
<1>4. 0 \in Ring(cfg)
  BY <1>2 DEF Ring
<1>5. a \in Nat /\ a < cfg.radio.nof_ports /\ a * w \in Nat /\ a * w + w <= rb
  BY <1>1, <1>4, CellTypes, Zenon
<1>6. AntBytes = w
  BY Zenon DEF AntBytes, AB
<1>7. RowBase(b, r) = 64 + b * fh + r * rb /\ ReadOffset(b, r) = 64 + b * fh + r * rb
  BY <1>2, Zenon DEF RowBase, ReadOffset, HeaderBytes
<1> HIDE DEF R, rb, w, fh, S
<1>8. r \in Nat /\ r < R
  BY <1>2 DEF R
<1> DEFINE x == r * rb
           y == R * rb
           z == b * fh
           u == a * w
<1>9. x \in Nat /\ y \in Nat /\ x + rb <= y
  BY <1>2, <1>8, Spacing
<1>10. z \in Nat /\ z <= y
  BY <1>2, <1>9
<1>11. u \in Nat /\ u + w <= rb /\ 64 + 2 * y <= S
  BY <1>2, <1>5, Zenon
<1> HIDE DEF x, y, z, u
<1>12. /\ 64 + z + x + u \in Nat /\ 64 + z + x + u >= 64
       /\ 64 + z + x + u + w <= S
  BY <1>2, <1>3, <1>9, <1>10, <1>11
<1> QED
  BY <1>2, <1>5, <1>6, <1>7, <1>12, Zenon DEF x, z, u, S, HeaderBytes

\* The writer's row_base and the dApp's offset are the cell's, where the size of
\* a buffer fits.
LEMMA Addresses ==
    ASSUME TypeOK, mapped, SizeFits(cfg), NEW p, InRing(cfg, p), NEW a \in Nat
    PROVE  /\ Idx(cfg, p) \in Ring(cfg)
           /\ RowBase(p.buf, p.row) + a * AntBytes = Off(cfg, Idx(cfg, p), a)
           /\ ReadOffset(p.buf, p.row) + a * AntBytes = Off(cfg, Idx(cfg, p), a)
<1> DEFINE R == num_fh_rows(cfg)
           rb == row_bytes(cfg.radio)
           w == AB(cfg)
           aw == a * w
<1>1. cfg \in Good /\ header = Header(cfg)
  BY Zenon DEF TypeOK, Good
<1>2. /\ R \in Nat /\ R >= 1 /\ rb \in Nat
      /\ header.fh_buffer_size = R * rb /\ header.num_fh_samples * 2 = rb
  BY <1>1, Layout, RowSizes, Zenon
<1>3. p.buf \in {0, 1} /\ p.row \in 0 .. R - 1
  BY Zenon DEF InRing
<1>4. aw \in Nat /\ AntBytes = w
  BY <1>1, RowSizes DEF AB, AntBytes
<1>5. Idx(cfg, p) = p.buf * R + p.row
  BY Zenon DEF Idx
<1> HIDE DEF R, rb
<1>6. Idx(cfg, p) \in 0 .. 2 * R - 1
  BY <1>2, <1>3, <1>5
<1>7. (p.buf * R + p.row) * rb = p.buf * (R * rb) + p.row * rb
  BY <1>2, <1>3
<1>8. RowBase(p.buf, p.row) = 64 + p.buf * (R * rb) + p.row * rb
  BY <1>2, Zenon DEF RowBase, HeaderBytes, rb
<1>9. ReadOffset(p.buf, p.row) = 64 + p.buf * (R * rb) + p.row * rb
  BY <1>2, Zenon DEF ReadOffset, HeaderBytes
<1>10. Off(cfg, Idx(cfg, p), a) = 64 + Idx(cfg, p) * rb + aw
  BY Zenon DEF Off, HeaderBytes, rb
<1> HIDE DEF w, aw
<1>11. p.buf * (R * rb) \in Nat /\ p.row * rb \in Nat
  BY <1>2, <1>3
<1>12. 64 + (p.buf * (R * rb) + p.row * rb) + aw = 64 + p.buf * (R * rb) + p.row * rb + aw
  BY <1>4, <1>11
<1> QED
  BY <1>4, <1>5, <1>6, <1>7, <1>8, <1>9, <1>10, <1>12, Zenon DEF Ring, R, aw

-----------------------------------------------------------------------------
(* The inductive invariant. *)

\* The row of p holds its slot on its antennas and nothing else.
RowHolds(c, m, p) ==
    \A a \in Ants(c), t \in Nat :
        Cell(c, Idx(c, p), a, t) \in m <=> a < p.ports /\ t = p.slot

\* Where the writer stands: its cursor is in the ring, and a publish in
\* progress is at the cursor.
CursorInv ==
    /\ cfg.writer = "controller" \/ attached => InRing(cfg, cursor[cfg.writer])
    /\ cfg.writer = "gnb" /\ ~ attached => published = <<>> /\ pc = "idle"
    /\ pc = "write" =>
          /\ cur.by = cfg.writer
          /\ cur.buf = cursor[cfg.writer].buf /\ cur.row = cursor[cfg.writer].row
          /\ cur.ports \in 1 .. cfg.radio.nof_ports
          /\ cur.ant <= cur.ports

\* The last n rows published are the n rows before the cursor, in order.
ChainInv ==
    LET n == Len(published)
        R == num_fh_rows(cfg)
        K == Idx(cfg, cursor[cfg.writer])
    IN /\ n <= 2 * R
       /\ \A i \in 1 .. n :
             /\ InRing(cfg, published[i])
             /\ \/ Idx(cfg, published[i]) = K - (n + 1 - i)
                \/ Idx(cfg, published[i]) = K - (n + 1 - i) + 2 * R

\* What the cells hold: intact rows their slot, the row being written its slot
\* up to where the writer is, any other row nothing.
CellInv ==
    /\ Grid(cfg, mem)
    /\ \A i \in Intact : RowHolds(cfg, mem, published[i])
    /\ pc = "write" =>
          \A a \in Ants(cfg), t \in Nat :
              a < cur.ant => (Cell(cfg, Idx(cfg, cur), a, t) \in mem <=> t = cur.slot)
    /\ \A k \in Ring(cfg), a \in Ants(cfg), t \in Nat :
          Cell(cfg, k, a, t) \in mem =>
              \/ \E i \in Intact : Idx(cfg, published[i]) = k
              \/ pc = "write" /\ k = Idx(cfg, cur)

\* The helper clears nothing: antennas its gNB does not have stay as open() left
\* them, because it writes the same ones in every row.
TailInv ==
    cfg.writer = "gnb" =>
        /\ pc = "write" => cur.ports = PortsWritten(gnb_ports)
        /\ \A k \in Ring(cfg), a \in Ants(cfg), t \in Nat :
              Cell(cfg, k, a, t) \in mem => a < PortsWritten(gnb_ports)

\* What is in the region was written for an antenna of a row of the ring.
BlockInv ==
    \A e \in mem :
        \E b \in {0, 1}, r \in 0 .. num_fh_rows(cfg) - 1, a \in Ants(cfg) :
            /\ e.off = RowBase(b, r) + a * AntBytes
            /\ e.len = AntBytes /\ e.ant = a

\* The grid is the region's where the size of a buffer fits its uint32_t.
FitInv == SizeFits(cfg) => CellInv /\ TailInv

IInv ==
    /\ TypeOK
    /\ open_ok
    /\ ~ mapped => pc = "idle" /\ ~ attached /\ published = <<>>
    /\ mapped => CursorInv /\ ChainInv /\ BlockInv /\ FitInv

PubRec == [buf : Nat, row : Nat, slot : Nat, ports : Nat]

\* The ring's size as the dApp knows it.
LEMMA RingSize ==
    ASSUME TypeOK, mapped
    PROVE  /\ cfg \in Good /\ header = Header(cfg)
           /\ RingRows = 2 * num_fh_rows(cfg)
           /\ num_fh_rows(cfg) \in Nat /\ num_fh_rows(cfg) >= 1
           /\ RingRows \in Nat
           /\ header.num_fh_rows = num_fh_rows(cfg)
<1>1. cfg \in Good /\ header = Header(cfg)
  BY Zenon DEF TypeOK, Good
<1>2. num_fh_rows(cfg) \in Nat /\ num_fh_rows(cfg) >= 1
  BY <1>1, Layout, Zenon
<1>3. header.num_fh_rows = num_fh_rows(cfg)
  BY <1>1, Zenon DEF Header
<1>4. RingRows = 2 * num_fh_rows(cfg)
  BY <1>3, Zenon DEF RingRows, NumBuffers
<1> QED
  BY <1>1, <1>2, <1>3, <1>4

\* Before open() nothing is mapped.
LEMMA InitHolds == Init => IInv
<1> SUFFICES ASSUME Init PROVE IInv
  BY Zenon
<1>1. published \in Seq(PubRec) /\ Len(published) = 0
  BY DEF Init
<1>2. mapped \in BOOLEAN /\ attached \in BOOLEAN /\ open_ok \in BOOLEAN
  BY Zenon DEF Init
<1>3. cursor \in [Writers -> Index]
  BY Zenon DEF Init, Start, Index
<1>4. cur \in [slot : Nat, ports : Nat, ant : Nat, buf : Nat, row : Nat, by : Writers]
  BY Zenon DEF Init, NoSlot, Writers
<1>5. TypeOK
  BY <1>1, <1>2, <1>3, <1>4, Zenon DEF Init, TypeOK, PubRec
<1> QED
  BY <1>5, Zenon DEF Init, IInv

\* open(): an empty region.
LEMMA OpenStep ==
    ASSUME IInv, NEW c \in Configs, Open(c)
    PROVE  IInv'
<1>1. c \in Good
  BY Zenon DEF Open, Good
<1>2. num_fh_rows(c) # 0 /\ num_fh_rows(c) \in Nat /\ num_fh_rows(c) >= 1
  BY <1>1, Layout
<1>3. mapped' = TRUE /\ open_ok' = TRUE
  BY <1>2, Zenon DEF Open
<1>4. /\ cfg' = c /\ header' = Header(c) /\ mem' = {}
      /\ pc' = pc /\ cur' = cur /\ published' = published /\ attached' = attached
      /\ slots' = slots /\ opens' = opens + 1 /\ gnb_ports' = gnb_ports
      /\ cursor' = [cursor EXCEPT !["controller"] = Start]
  BY Zenon DEF Open, helperVars
<1>5. pc = "idle" /\ attached = FALSE /\ published = <<>>
  BY Zenon DEF IInv, Open, TypeOK
<1>6. cursor' \in [Writers -> Index] /\ cursor'["controller"] = Start
  BY <1>4, Zenon DEF IInv, TypeOK, Index, Start, Writers
<1>7. TypeOK'
  <2>1. mapped' \in BOOLEAN /\ attached' \in BOOLEAN /\ open_ok' \in BOOLEAN
    BY <1>3, <1>4, <1>5, Zenon
  <2>2. mem' \subseteq Block
    BY <1>4, Zenon
  <2> QED
    BY <1>1, <1>4, <1>6, <2>1, <2>2 DEF IInv, TypeOK, Good
<1>8. CursorInv'
  <2>1. c.writer = "controller" => InRing(c, cursor'[c.writer])
    BY <1>2, <1>6 DEF InRing, Start
  <2> QED
    BY <1>4, <1>5, <2>1, Zenon DEF CursorInv
<1>9. ChainInv'
  BY <1>2, <1>4, <1>5 DEF ChainInv
<1>10. CellInv'
  <2>1. Intact' = {}
    BY <1>4, <1>5 DEF Intact
  <2> QED
    BY <1>4, <1>5, <2>1, Zenon DEF CellInv, Grid
<1>11. TailInv'
  BY <1>4, <1>5, Zenon DEF TailInv
<1>12. BlockInv'
  BY <1>4, Zenon DEF BlockInv
<1> QED
  BY <1>3, <1>7, <1>8, <1>9, <1>10, <1>11, <1>12, Zenon DEF IInv, FitInv

\* close() and the death of the process: nothing is said of the region.
LEMMA UnmapStep ==
    ASSUME IInv, Unmap, mem' = mem \/ mem' = {}
    PROVE  IInv'
<1>1. /\ mapped' = FALSE /\ attached' = FALSE /\ pc' = "idle" /\ cur' = NoSlot
      /\ published' = <<>> /\ cfg' = cfg /\ header' = header /\ opens' = opens
      /\ open_ok' = open_ok /\ cursor' = cursor /\ slots' = slots
      /\ gnb_ports' = gnb_ports
  BY Zenon DEF Unmap
<1>2. published' \in Seq(PubRec)
  BY <1>1
<1>3. mapped' \in BOOLEAN /\ attached' \in BOOLEAN
  BY <1>1, Zenon
<1>4. cur' \in [slot : Nat, ports : Nat, ant : Nat, buf : Nat, row : Nat, by : Writers]
  BY <1>1, Zenon DEF NoSlot, Writers
<1>5. TypeOK'
  BY <1>1, <1>2, <1>3, <1>4, Zenon DEF IInv, TypeOK, PubRec
<1> QED
  BY <1>1, <1>5, Zenon DEF IInv

\* jbpf_e3_attach(): nothing has been published into the region yet.
LEMMA AttachStep ==
    ASSUME IInv, NEW b \in 0 .. NumBuffers - 1, NEW r \in 0 .. header.num_fh_rows - 1,
           NEW p \in Ports, Attach(b, r, p)
    PROVE  IInv'
<1> DEFINE R == num_fh_rows(cfg)
<1>1. /\ mapped /\ attached = FALSE /\ cfg.writer = "gnb" /\ attached' = TRUE
      /\ cursor' = [cursor EXCEPT !["gnb"] = [buf |-> b, row |-> r]]
      /\ mapped' = mapped /\ cfg' = cfg /\ header' = header /\ opens' = opens
      /\ open_ok' = open_ok /\ mem' = mem /\ pc' = pc /\ cur' = cur
      /\ published' = published /\ slots' = slots /\ gnb_ports' = p
  BY Zenon DEF Attach, regionVars, IInv, TypeOK
<1>2. TypeOK /\ CursorInv /\ ChainInv /\ BlockInv /\ FitInv
  BY <1>1, Zenon DEF IInv
<1>3. published = <<>> /\ pc = "idle"
  BY <1>1, <1>2, Zenon DEF CursorInv
<1>4. R \in Nat /\ R >= 1 /\ b \in {0, 1} /\ r \in 0 .. R - 1
  BY <1>1, <1>2, RingSize DEF NumBuffers
<1>5. cursor' \in [Writers -> Index] /\ cursor'["gnb"] = [buf |-> b, row |-> r]
  BY <1>1, <1>2, <1>4 DEF TypeOK, Writers, Index
<1>6. TypeOK'
  <2>1. attached' \in BOOLEAN
    BY <1>1, Zenon
  <2>2. gnb_ports' \in Nat
    BY <1>1, WriterAssumption, Zenon
  <2> QED
    BY <1>1, <1>2, <1>5, <2>1, <2>2, Zenon DEF TypeOK
<1>7. CursorInv'
  <2>1. InRing(cfg, cursor'["gnb"])
    BY <1>4, <1>5 DEF InRing
  <2> QED
    BY <1>1, <1>3, <2>1, Zenon DEF CursorInv
<1>8. ChainInv'
  BY <1>1, <1>3, <1>4 DEF ChainInv
<1>9. ASSUME SizeFits(cfg) PROVE CellInv' /\ TailInv'
  <2>1. CellInv
    BY <1>2, <1>9, Zenon DEF FitInv
  <2>2. Intact' = Intact
    BY <1>1, Zenon DEF Intact, RingRows
  <2>3. CellInv'
    BY <1>1, <2>1, <2>2, Zenon DEF CellInv
  <2>4. Intact = {}
    BY <1>3 DEF Intact
  <2>5. \A k \in Ring(cfg), a \in Ants(cfg), t \in Nat : Cell(cfg, k, a, t) \notin mem
    BY <1>3, <2>1, <2>4, Zenon DEF CellInv
  <2>6. TailInv'
    BY <1>1, <1>3, <2>5, Zenon DEF TailInv
  <2> QED
    BY <2>3, <2>6, Zenon
<1>10. BlockInv' /\ FitInv'
  BY <1>1, <1>2, <1>9, Zenon DEF BlockInv, FitInv, RowBase, AntBytes
<1> QED
  BY <1>1, <1>6, <1>7, <1>8, <1>10, Zenon DEF IInv

\* The cursor of the writer at work is in the ring.
LEMMA CursorInRing ==
    ASSUME IInv, mapped, pc = "write"
    PROVE  /\ TypeOK /\ CursorInv /\ ChainInv /\ BlockInv /\ FitInv /\ cfg \in Good
           /\ InRing(cfg, cursor[cfg.writer]) /\ InRing(cfg, cur)
           /\ Idx(cfg, cur) = Idx(cfg, cursor[cfg.writer])
           /\ Idx(cfg, cur) \in Ring(cfg)
<1>1. TypeOK /\ CursorInv /\ ChainInv /\ BlockInv /\ FitInv /\ cfg \in Good
  BY RingSize, Zenon DEF IInv
<1>2. cfg.writer \in Writers
  BY <1>1, WriterAssumption, Zenon DEF Good
<1>3. InRing(cfg, cursor[cfg.writer])
  BY <1>1, <1>2, Zenon DEF CursorInv, Writers, TypeOK
<1>4. InRing(cfg, cur) /\ Idx(cfg, cur) = Idx(cfg, cursor[cfg.writer])
  BY <1>1, <1>3, Zenon DEF CursorInv, InRing, Idx
<1>5. Idx(cfg, cur) \in Ring(cfg)
  BY <1>1, <1>4, RingIndex, Zenon
<1> QED
  BY <1>1, <1>3, <1>4, <1>5, Zenon

\* A row counted as intact while another is written is not that other row.
LEMMA NotAtCursor ==
    ASSUME IInv, mapped, pc = "write", NEW i \in Intact
    PROVE  /\ i \in 1 .. Len(published)
           /\ Idx(cfg, published[i]) \in Ring(cfg)
           /\ Idx(cfg, published[i]) # Idx(cfg, cur)
<1> DEFINE n == Len(published)
           R == num_fh_rows(cfg)
           K == Idx(cfg, cur)
           I == Idx(cfg, published[i])
<1>1. /\ TypeOK /\ ChainInv /\ cfg \in Good
      /\ K = Idx(cfg, cursor[cfg.writer]) /\ K \in Ring(cfg)
  BY CursorInRing, Zenon
<1>2. R \in Nat /\ R >= 1 /\ RingRows = 2 * R
  BY <1>1, RingSize, Zenon
<1>3. n \in Nat
  BY <1>1 DEF TypeOK
<1>4. i \in 1 .. n /\ i > n - (2 * R - 1)
  BY <1>2, Zenon DEF Intact
<1>5. InRing(cfg, published[i]) /\ (I = K - (n + 1 - i) \/ I = K - (n + 1 - i) + 2 * R)
  BY <1>1, <1>4, Zenon DEF ChainInv
<1>6. I \in Ring(cfg) /\ K \in Int
  BY <1>1, <1>2, <1>5, RingIndex DEF Ring
<1> HIDE DEF n, R, K, I
<1>7. I # K
  BY <1>2, <1>3, <1>4, <1>5, <1>6
<1> QED
  BY <1>4, <1>6, <1>7, Zenon DEF n, K, I

\* publish_row*() takes the indices: the row it will write is no longer intact.
LEMMA PublishStep ==
    ASSUME IInv, NEW w \in Writers, NEW p \in Ports, Publish(w, p)
    PROVE  IInv'
<1> DEFINE n == Len(published)
           R == num_fh_rows(cfg)
           K == Idx(cfg, cursor[cfg.writer])
<1>1. /\ mapped /\ pc = "idle" /\ w = cfg.writer /\ (w = "gnb" => attached)
      /\ (w = "gnb" => p = gnb_ports) /\ gnb_ports' = gnb_ports
      /\ slots' = slots + 1 /\ pc' = "write"
      /\ cur' = [slot |-> slots + 1, ports |-> PortsWritten(p), ant |-> 0,
                 buf |-> cursor[w].buf, row |-> cursor[w].row, by |-> w]
      /\ mapped' = mapped /\ cfg' = cfg /\ header' = header /\ opens' = opens
      /\ open_ok' = open_ok /\ mem' = mem /\ cursor' = cursor
      /\ attached' = attached /\ published' = published
  BY Zenon DEF Publish, MayWrite, regionVars, helperVars
<1>2. TypeOK /\ CursorInv /\ ChainInv /\ BlockInv /\ FitInv /\ cfg \in Good
  BY <1>1, RingSize, Zenon DEF IInv
<1>3. InRing(cfg, cursor[cfg.writer])
  BY <1>1, <1>2, Zenon DEF CursorInv, Writers
<1>4. PortsWritten(p) \in 1 .. cfg.radio.nof_ports
  <2>1. p \in Nat /\ cfg.radio.nof_ports \in 1 .. 8
    BY <1>2, WriterAssumption, RowSizes, Zenon
  <2> QED
    BY <2>1 DEF PortsWritten
<1>5. cursor[w] \in Index /\ slots \in Nat /\ PortsWritten(p) \in Nat
  BY <1>2, <1>4, RowSizes DEF TypeOK
<1>6. cur' \in [slot : Nat, ports : Nat, ant : Nat, buf : Nat, row : Nat, by : Writers]
  BY <1>1, <1>5 DEF Index
<1>7. TypeOK'
  BY <1>1, <1>2, <1>5, <1>6, Zenon DEF TypeOK
<1>8. CursorInv'
  <2>1. /\ cur'.by = cfg.writer /\ cur'.buf = cursor[cfg.writer].buf
        /\ cur'.row = cursor[cfg.writer].row
        /\ cur'.ports = PortsWritten(p) /\ cur'.ant = 0
    BY <1>1, Zenon
  <2>2. cur'.ant <= cur'.ports
    BY <1>5, <2>1
  <2> QED
    BY <1>1, <1>2, <1>3, <1>4, <2>1, <2>2, Zenon DEF CursorInv, Writers
<1>9. ChainInv'
  BY <1>1, <1>2, Zenon DEF ChainInv
<1>10. Idx(cfg, cur') = K
  BY <1>1, Zenon DEF Idx
<1>11. R \in Nat /\ R >= 1 /\ RingRows = 2 * R /\ n \in Nat /\ n <= 2 * R
  BY <1>1, <1>2, RingSize DEF TypeOK, ChainInv
<1>12. Intact = 1 .. n
  BY <1>1, <1>11 DEF Intact
<1>13. Intact' = {i \in 1 .. n : i > n - (2 * R - 1)}
  BY <1>1, <1>11, Zenon DEF Intact, RingRows
<1>14. ASSUME NEW i \in Intact, i \notin Intact'
       PROVE  Idx(cfg, published[i]) = K
  <2>1. i \in 1 .. n /\ i <= n - (2 * R - 1)
    BY <1>11, <1>12, <1>13, <1>14
  <2> HIDE DEF n, R, K
  <2>2. n = 2 * R /\ i = 1
    BY <1>11, <2>1
  <2>3. /\ InRing(cfg, published[i])
        /\ \/ Idx(cfg, published[i]) = K - (n + 1 - i)
           \/ Idx(cfg, published[i]) = K - (n + 1 - i) + 2 * R
    BY <1>2, <2>1, Zenon DEF ChainInv, n, R, K
  <2>4. Idx(cfg, published[i]) \in 0 .. 2 * R - 1 /\ K \in 0 .. 2 * R - 1
    BY <1>1, <1>2, <1>3, <2>3, RingIndex, Zenon DEF Ring, R, K
  <2> QED
    BY <1>11, <2>2, <2>3, <2>4
<1>15. ASSUME SizeFits(cfg) PROVE CellInv'
  <2>0. CellInv
    BY <1>2, <1>15, Zenon DEF FitInv
  <2>1. Grid(cfg, mem)' /\ \A i \in Intact' : RowHolds(cfg, mem, published[i])'
    BY <1>1, <2>0, <1>12, <1>13, Zenon DEF CellInv
  <2>2. \A a \in Ants(cfg) : ~ (a < cur'.ant)
    BY <1>1, <1>2, RowSizes DEF Ants
  <2>3. ASSUME NEW k \in Ring(cfg), NEW a \in Ants(cfg), NEW t \in Nat,
               Cell(cfg, k, a, t) \in mem
        PROVE  (\E i \in Intact' : Idx(cfg, published[i]) = k) \/ k = Idx(cfg, cur')
    <3>1. PICK i \in Intact : Idx(cfg, published[i]) = k
      BY <1>1, <2>0, <2>3, Zenon DEF CellInv
    <3> QED
      BY <1>10, <1>14, <3>1, Zenon
  <2> QED
    BY <1>1, <2>1, <2>2, <2>3, Zenon DEF CellInv
<1>16. ASSUME SizeFits(cfg) PROVE TailInv'
  <2>0. TailInv
    BY <1>2, <1>16, Zenon DEF FitInv
  <2>1. cur'.ports = PortsWritten(p)
    BY <1>1, Zenon
  <2>2. PortsWritten(gnb_ports)' = PortsWritten(gnb_ports)
    BY <1>1, Zenon DEF PortsWritten
  <2> QED
    BY <1>1, <2>0, <2>1, <2>2, Zenon DEF TailInv
<1>17. BlockInv' /\ FitInv'
  BY <1>1, <1>2, <1>15, <1>16, Zenon DEF BlockInv, FitInv, RowBase, AntBytes
<1> QED
  BY <1>1, <1>7, <1>8, <1>9, <1>17, Zenon DEF IInv

\* One antenna is written: its cell, in the row at the cursor.
LEMMA WriteAntStep ==
    ASSUME IInv, WriteAnt
    PROVE  IInv'
<1> DEFINE K == Idx(cfg, cur)
           Written ==
               /\ Grid(cfg, mem')
               /\ \A j \in Ring(cfg), b \in Ants(cfg), t \in Nat :
                     Cell(cfg, j, b, t) \in mem' <=>
                         IF j = K /\ b = cur.ant THEN t = cur.slot
                         ELSE Cell(cfg, j, b, t) \in mem
<1>1. /\ pc = "write" /\ cur.ant < cur.ports
      /\ cur' = [cur EXCEPT !.ant = @ + 1]
      /\ mem' = Store(mem, RowBase(cur.buf, cur.row) + cur.ant * AntBytes, AntBytes,
                      cur.slot, cur.ant)
      /\ mapped' = mapped /\ cfg' = cfg /\ header' = header /\ opens' = opens
      /\ open_ok' = open_ok /\ cursor' = cursor /\ attached' = attached
      /\ pc' = pc /\ published' = published /\ slots' = slots
      /\ gnb_ports' = gnb_ports
  BY Zenon DEF WriteAnt, regionVars, helperVars
<1>2. mapped
  BY <1>1, Zenon DEF IInv, TypeOK
<1>3. /\ TypeOK /\ CursorInv /\ ChainInv /\ BlockInv /\ FitInv /\ cfg \in Good
      /\ InRing(cfg, cur) /\ K \in Ring(cfg)
  BY <1>1, <1>2, CursorInRing, Zenon
<1>4. /\ cur.ant \in Nat /\ cur.slot \in Nat /\ cur.ports \in 1 .. cfg.radio.nof_ports
      /\ cfg.radio.nof_ports \in Nat
  <2>1. cur.ant \in Nat /\ cur.slot \in Nat
    BY <1>3, Zenon DEF TypeOK
  <2>2. cfg.radio.nof_ports \in Nat
    BY <1>3, RowSizes
  <2> QED
    BY <1>1, <1>3, <2>1, <2>2, Zenon DEF CursorInv
<1>5. cur.ant \in Ants(cfg)
  BY <1>1, <1>4 DEF Ants
<1>6. /\ cur'.ant = cur.ant + 1 /\ cur'.buf = cur.buf /\ cur'.row = cur.row
      /\ cur'.slot = cur.slot /\ cur'.ports = cur.ports /\ cur'.by = cur.by
  BY <1>1, <1>3, Zenon DEF TypeOK
<1>7. ASSUME SizeFits(cfg)
      PROVE  mem' = Store(mem, Off(cfg, K, cur.ant), AB(cfg), cur.slot, cur.ant)
  <2>1. RowBase(cur.buf, cur.row) + cur.ant * AntBytes = Off(cfg, K, cur.ant)
    BY <1>2, <1>3, <1>4, <1>7, Addresses, Zenon
  <2>2. AntBytes = AB(cfg)
    BY Zenon DEF AntBytes, AB
  <2> QED
    BY <1>1, <2>1, <2>2, Zenon
<1>8. ASSUME SizeFits(cfg) PROVE CellInv /\ TailInv /\ Written
  <2>1. CellInv /\ TailInv /\ Grid(cfg, mem)
    BY <1>3, <1>8, Zenon DEF FitInv, CellInv
  <2>2. mem' = Store(mem, Off(cfg, K, cur.ant), AB(cfg), cur.slot, cur.ant)
    BY <1>7, <1>8, Zenon
  <2> HIDE DEF K
  <2>3. Written
    BY <1>3, <1>4, <1>5, <2>1, <2>2, StoreCell, Zenon
  <2> QED
    BY <2>1, <2>3, Zenon
<1> HIDE DEF Written
<1>16. /\ cur.buf \in {0, 1} /\ cur.row \in 0 .. num_fh_rows(cfg) - 1
       /\ mem' = Erase(mem, RowBase(cur.buf, cur.row) + cur.ant * AntBytes, AntBytes)
                   \cup {[off |-> RowBase(cur.buf, cur.row) + cur.ant * AntBytes,
                          len |-> AntBytes, slot |-> cur.slot, ant |-> cur.ant]}
  BY <1>1, <1>3, Zenon DEF InRing, Store
<1>17. BlockInv'
  <2>1. RowBase(cur.buf, cur.row)' = RowBase(cur.buf, cur.row) /\ AntBytes' = AntBytes
    BY <1>1, <1>6, Zenon DEF RowBase, AntBytes
  <2>2. \A b, r : RowBase(b, r)' = RowBase(b, r)
    BY <1>1, Zenon DEF RowBase
  <2>3. ASSUME NEW e \in mem'
        PROVE  \E b \in {0, 1}, r \in 0 .. num_fh_rows(cfg) - 1, a \in Ants(cfg) :
                  /\ e.off = RowBase(b, r) + a * AntBytes
                  /\ e.len = AntBytes /\ e.ant = a
    <3>1. CASE e \in mem
      BY <1>3, <3>1, Zenon DEF BlockInv
    <3>2. CASE e \notin mem
      <4>1. e = [off |-> RowBase(cur.buf, cur.row) + cur.ant * AntBytes,
                 len |-> AntBytes, slot |-> cur.slot, ant |-> cur.ant]
        BY <1>16, <3>2, Zenon DEF Erase
      <4>2. /\ e.off = RowBase(cur.buf, cur.row) + cur.ant * AntBytes
            /\ e.len = AntBytes /\ e.ant = cur.ant
        BY <4>1, Zenon
      <4> QED
        BY <1>5, <1>16, <4>2, Zenon
    <3> QED
      BY <3>1, <3>2, Zenon
  <2> QED
    BY <1>1, <2>1, <2>2, <2>3, Zenon DEF BlockInv
<1>9. TypeOK'
  <2>1. cur' \in [slot : Nat, ports : Nat, ant : Nat, buf : Nat, row : Nat, by : Writers]
    <3>1. cur \in [slot : Nat, ports : Nat, ant : Nat, buf : Nat, row : Nat, by : Writers]
      BY <1>3, Zenon DEF TypeOK
    <3>2. cur.ant + 1 \in Nat
      BY <1>4
    <3> QED
      BY <1>1, <3>1, <3>2, Zenon
  <2>2. mem' \subseteq Block
    <3>1. /\ RowBase(cur.buf, cur.row) + cur.ant * AntBytes \in Nat
          /\ AntBytes \in Nat
      BY <1>2, <1>3, <1>5, <1>16, RowBases, Zenon
    <3> QED
      BY <1>3, <1>4, <1>16, <3>1 DEF TypeOK, Erase, Block
  <2> QED
    BY <1>1, <1>3, <2>1, <2>2, Zenon DEF TypeOK
<1>10. CursorInv'
  <2>1. cur'.ant <= cur'.ports
    BY <1>1, <1>4, <1>6
  <2> QED
    BY <1>1, <1>3, <1>6, <2>1, Zenon DEF CursorInv
<1>11. ChainInv'
  BY <1>1, <1>3, Zenon DEF ChainInv
<1>12. Intact' = Intact
  BY <1>1, Zenon DEF Intact, RingRows
<1>13. Idx(cfg, cur') = K
  BY <1>6, Zenon DEF Idx
<1>14. ASSUME SizeFits(cfg) PROVE CellInv'
  <2>0. CellInv /\ Written
    BY <1>8, <1>14, Zenon
  <2>1. ASSUME NEW i \in Intact
        PROVE  RowHolds(cfg, mem', published[i])
    <3>1. Idx(cfg, published[i]) \in Ring(cfg) /\ Idx(cfg, published[i]) # K
      BY <1>1, <1>2, NotAtCursor, Zenon
    <3>2. RowHolds(cfg, mem, published[i])
      BY <2>0, Zenon DEF CellInv
    <3> HIDE DEF K
    <3> QED
      BY <2>0, <3>1, <3>2, Zenon DEF RowHolds, Written
  <2>2. ASSUME NEW a \in Ants(cfg), NEW t \in Nat, a < cur'.ant
        PROVE  Cell(cfg, K, a, t) \in mem' <=> t = cur.slot
    <3>1. a = cur.ant \/ a < cur.ant
      BY <1>3, <1>4, <1>6, <2>2, RowSizes DEF Ants
    <3>2. a < cur.ant => (Cell(cfg, K, a, t) \in mem <=> t = cur.slot)
      BY <1>1, <2>0, Zenon DEF CellInv
    <3> HIDE DEF K
    <3> QED
      BY <1>3, <2>0, <3>1, <3>2, Zenon DEF Written
  <2>3. ASSUME NEW k \in Ring(cfg), NEW a \in Ants(cfg), NEW t \in Nat,
               Cell(cfg, k, a, t) \in mem'
        PROVE  (\E i \in Intact : Idx(cfg, published[i]) = k) \/ k = K
    <3>1. k = K \/ Cell(cfg, k, a, t) \in mem
      BY <2>0, <2>3, Zenon DEF Written
    <3> QED
      BY <1>1, <2>0, <3>1, Zenon DEF CellInv
  <2>4. (pc = "write")' /\ cur'.slot = cur.slot
    BY <1>1, <1>6, Zenon
  <2> HIDE DEF K
  <2> QED
    BY <1>1, <1>6, <1>12, <1>13, <2>0, <2>1, <2>2, <2>3, <2>4, ZenonT(60)
       DEF CellInv, Written
<1>15. ASSUME SizeFits(cfg) PROVE TailInv'
  <2>0. TailInv /\ Written
    BY <1>8, <1>15, Zenon
  <2>1. PortsWritten(gnb_ports)' = PortsWritten(gnb_ports)
    BY <1>1, Zenon DEF PortsWritten
  <2>2. ASSUME cfg.writer = "gnb", NEW k \in Ring(cfg), NEW a \in Ants(cfg), NEW t \in Nat,
               Cell(cfg, k, a, t) \in mem'
        PROVE  a < PortsWritten(gnb_ports)
    <3>1. a = cur.ant \/ Cell(cfg, k, a, t) \in mem
      BY <2>0, <2>2, Zenon DEF Written
    <3>2. cur.ports = PortsWritten(gnb_ports)
      BY <1>1, <2>0, <2>2, Zenon DEF TailInv
    <3> QED
      BY <1>1, <2>0, <2>2, <3>1, <3>2, Zenon DEF TailInv
  <2>3. cfg.writer = "gnb" => cur'.ports = PortsWritten(gnb_ports)
    BY <1>1, <1>6, <2>0, Zenon DEF TailInv
  <2> QED
    BY <1>1, <2>1, <2>2, <2>3, Zenon DEF TailInv
<1>18. FitInv'
  BY <1>1, <1>14, <1>15, Zenon DEF FitInv
<1> QED
  BY <1>1, <1>2, <1>3, <1>9, <1>10, <1>11, <1>17, <1>18, Zenon DEF IInv

\* The history after a publish: the oldest entry goes when the ring is full.
LEMMA Remembered ==
    ASSUME published \in Seq(PubRec), RingRows \in Nat, RingRows >= 1,
           Len(published) <= RingRows, NEW r \in PubRec
    PROVE  \E d \in {0, 1} :
              /\ Len(published) - d < RingRows
              /\ d = 1 => Len(published) = RingRows
              /\ Remember(r) \in Seq(PubRec)
              /\ Len(Remember(r)) = Len(published) + 1 - d
              /\ Remember(r)[Len(published) + 1 - d] = r
              /\ \A i \in 1 .. Len(published) - d : Remember(r)[i] = published[i + d]
<1>1. CASE Len(published) < RingRows
  <2>1. Remember(r) = Append(published, r)
    BY <1>1, Zenon DEF Remember
  <2>2. /\ Len(published) - 0 < RingRows
        /\ Remember(r) \in Seq(PubRec)
        /\ Len(Remember(r)) = Len(published) + 1 - 0
        /\ Remember(r)[Len(published) + 1 - 0] = r
        /\ \A i \in 1 .. Len(published) - 0 : Remember(r)[i] = published[i + 0]
    BY <1>1, <2>1
  <2> QED
    BY <2>2
<1>2. CASE Len(published) = RingRows
  <2>1. Remember(r) = Append(Tail(published), r)
    BY <1>2 DEF Remember
  <2>2. published # <<>> /\ Len(published) \in Nat
    BY <1>2
  <2>3. /\ Tail(published) \in Seq(PubRec) /\ Len(Tail(published)) = Len(published) - 1
        /\ \A i \in 1 .. Len(published) - 1 : Tail(published)[i] = published[i + 1]
    BY <2>2
  <2>4. /\ Len(published) - 1 < RingRows
        /\ Remember(r) \in Seq(PubRec)
        /\ Len(Remember(r)) = Len(published) + 1 - 1
        /\ Remember(r)[Len(published) + 1 - 1] = r
        /\ \A i \in 1 .. Len(published) - 1 : Remember(r)[i] = published[i + 1]
    BY <1>2, <2>1, <2>2, <2>3
  <2> QED
    BY <1>2, <2>4, Zenon
<1>3. Len(published) < RingRows \/ Len(published) = RingRows
  OBVIOUS
<1> QED
  BY <1>1, <1>2, <1>3, Zenon

\* Advance() goes to the next row of the ring.
LEMMA Advanced ==
    ASSUME TypeOK, mapped, NEW c \in Index, InRing(cfg, c)
    PROVE  /\ Advance(c) \in Index /\ InRing(cfg, Advance(c))
           /\ \/ Idx(cfg, Advance(c)) = Idx(cfg, c) + 1
              \/ /\ Idx(cfg, Advance(c)) = Idx(cfg, c) + 1 - 2 * num_fh_rows(cfg)
                 /\ Idx(cfg, c) = 2 * num_fh_rows(cfg) - 1
<1> DEFINE R == num_fh_rows(cfg)
<1>1. R \in Nat /\ R >= 1 /\ header.num_fh_rows = R
  BY RingSize, Zenon
<1>2. c.buf \in {0, 1} /\ c.row \in 0 .. R - 1
  BY Zenon DEF InRing
<1>3. CASE c.row + 1 >= R
  <2>1. Advance(c) = [buf |-> (c.buf + 1) % 2, row |-> 0]
    BY <1>1, <1>3, Zenon DEF Advance, NumBuffers
  <2>2. c.row = R - 1 /\ R \in Nat /\ R >= 1
    BY <1>1, <1>2, <1>3
  <2> HIDE DEF R
  <2>3. CASE c.buf = 0
    <3>1. Advance(c) = [buf |-> 1, row |-> 0]
      BY <2>1, <2>3
    <3>2. Advance(c).buf = 1 /\ Advance(c).row = 0
      BY <3>1
    <3> QED
      BY <2>2, <2>3, <3>1, <3>2 DEF Index, InRing, Idx, R
  <2>4. CASE c.buf = 1
    <3>1. Advance(c) = [buf |-> 0, row |-> 0]
      BY <2>1, <2>4
    <3>2. Advance(c).buf = 0 /\ Advance(c).row = 0
      BY <3>1
    <3> QED
      BY <2>2, <2>4, <3>1, <3>2 DEF Index, InRing, Idx, R
  <2> QED
    BY <1>2, <2>3, <2>4, Zenon
<1>4. CASE ~ (c.row + 1 >= R)
  <2>1. Advance(c) = [c EXCEPT !.row = @ + 1]
    BY <1>1, <1>4, Zenon DEF Advance
  <2>2. Advance(c).buf = c.buf /\ Advance(c).row = c.row + 1 /\ Advance(c) \in Index
    BY <1>2, <2>1 DEF Index
  <2> HIDE DEF R
  <2> QED
    BY <1>1, <1>2, <1>4, <2>2 DEF InRing, Idx, R
<1> QED
  BY <1>3, <1>4, Zenon

\* publish_row*() returns: the rest of the row is silent, the cursor moves on.
LEMMA ReturnStep ==
    ASSUME IInv, Return
    PROVE  IInv'
<1> DEFINE n == Len(published)
           R == num_fh_rows(cfg)
           K == Idx(cfg, cur)
           rec == [buf |-> cur.buf, row |-> cur.row, slot |-> cur.slot, ports |-> cur.ports]
           K1 == Idx(cfg, cursor'[cfg.writer])
           Cleared ==
               /\ Grid(cfg, mem')
               /\ \A j \in Ring(cfg), b \in Ants(cfg), t \in Nat :
                     Cell(cfg, j, b, t) \in mem' <=>
                         Cell(cfg, j, b, t) \in mem /\ ~ (j = K /\ b >= cur.ports)
<1>1. /\ pc = "write" /\ cur.ant = cur.ports
      /\ mem' = ClearTail(mem)
      /\ cursor' = [cursor EXCEPT ![cur.by] = Advance(@)]
      /\ published' = Remember(rec)
      /\ pc' = "idle" /\ cur' = NoSlot
      /\ mapped' = mapped /\ cfg' = cfg /\ header' = header /\ opens' = opens
      /\ open_ok' = open_ok /\ attached' = attached /\ slots' = slots
      /\ gnb_ports' = gnb_ports
  BY Zenon DEF Return, regionVars, helperVars
<1>2. mapped
  BY <1>1, Zenon DEF IInv, TypeOK
<1>3. /\ TypeOK /\ CursorInv /\ ChainInv /\ BlockInv /\ FitInv /\ cfg \in Good
      /\ InRing(cfg, cursor[cfg.writer]) /\ InRing(cfg, cur)
      /\ K = Idx(cfg, cursor[cfg.writer]) /\ K \in Ring(cfg)
  BY <1>1, <1>2, CursorInRing, Zenon
<1>4. /\ cur.by = cfg.writer /\ cfg.writer \in Writers
      /\ cur.ports \in 1 .. cfg.radio.nof_ports
  BY <1>1, <1>3, WriterAssumption, Zenon DEF CursorInv, Good
<1>5. /\ cur \in [slot : Nat, ports : Nat, ant : Nat, buf : Nat, row : Nat, by : Writers]
      /\ published \in Seq(PubRec) /\ cursor \in [Writers -> Index]
  BY <1>3, Zenon DEF TypeOK, PubRec
<1>6. /\ rec \in PubRec /\ rec.slot = cur.slot /\ rec.ports = cur.ports
      /\ Idx(cfg, rec) = K /\ InRing(cfg, rec)
  BY <1>3, <1>5, Zenon DEF PubRec, Idx, InRing
<1>7. R \in Nat /\ R >= 1 /\ RingRows = 2 * R /\ n \in Nat /\ n <= 2 * R
  BY <1>2, <1>3, <1>5, RingSize DEF ChainInv
<1>8. PICK d \in {0, 1} :
         /\ n - d < 2 * R
         /\ d = 1 => n = 2 * R
         /\ published' \in Seq(PubRec)
         /\ Len(published') = n + 1 - d
         /\ published'[n + 1 - d] = rec
         /\ \A i \in 1 .. n - d : published'[i] = published[i + d]
  <2> HIDE DEF rec
  <2>1. RingRows \in Nat /\ RingRows >= 1 /\ Len(published) <= RingRows
    BY <1>7
  <2> QED
    BY <1>1, <1>5, <1>6, <1>7, <2>1, Remembered, Zenon
<1>9. (d = 0 \/ d = 1) /\ n - d < 2 * R /\ (d = 1 => n = 2 * R)
  BY <1>8, Zenon
<1>10. /\ cursor' \in [Writers -> Index] /\ InRing(cfg, cursor'[cfg.writer])
       /\ K1 = K + 1 \/ (K1 = K + 1 - 2 * R /\ K = 2 * R - 1)
  <2>1. cursor'[cfg.writer] = Advance(cursor[cfg.writer])
    BY <1>1, <1>4, <1>5, Zenon
  <2>2. cursor[cfg.writer] \in Index
    BY <1>4, <1>5, Zenon
  <2>3. Advance(cursor[cfg.writer]) \in Index
    BY <1>2, <1>3, <2>2, Advanced, Zenon
  <2>4. cursor' \in [Writers -> Index]
    BY <1>1, <1>4, <1>5, <2>3, Zenon
  <2> QED
    BY <1>2, <1>3, <2>1, <2>2, <2>4, Advanced, Zenon
<1>11. ASSUME SizeFits(cfg) PROVE CellInv /\ TailInv /\ Cleared
  <2>0. CellInv /\ TailInv
    BY <1>3, <1>11, Zenon DEF FitInv
  <2>1. AntBytes = AB(cfg)
    BY Zenon DEF AntBytes, AB
  <2>2. RowBase(cur.buf, cur.row) + cur.ports * AB(cfg) = Off(cfg, K, cur.ports)
    BY <1>2, <1>3, <1>5, <1>11, <2>1, Addresses, Zenon
  <2>3. Grid(cfg, mem)
    BY <2>0, Zenon DEF CellInv
  <2>4. CASE cur.by = "controller"
    <3>1. mem' = IF cur.ports * AB(cfg) < row_bytes(cfg.radio)
                 THEN Erase(mem, Off(cfg, K, cur.ports),
                            row_bytes(cfg.radio) - cur.ports * AB(cfg))
                 ELSE mem
      BY <1>1, <2>1, <2>2, <2>4, Zenon DEF ClearTail
    <3> HIDE DEF K
    <3> QED
      BY <1>3, <1>4, <2>0, <2>3, <3>1, EraseTail, Zenon
  <2>5. CASE cur.by # "controller"
    <3>1. mem' = mem
      BY <1>1, <2>5, Zenon DEF ClearTail
    <3>2. cfg.writer = "gnb" /\ cur.ports = PortsWritten(gnb_ports)
      BY <1>1, <1>4, <2>0, <2>5, Zenon DEF TailInv, Writers
    <3>3. ASSUME NEW b \in Ants(cfg), b < cur.ports
          PROVE  ~ (b >= cur.ports)
      BY <1>3, <1>5, <3>3, RowSizes DEF Ants
    <3>4. \A j \in Ring(cfg), b \in Ants(cfg), t \in Nat :
             Cell(cfg, j, b, t) \in mem => ~ (b >= cur.ports)
      BY <2>0, <3>2, <3>3, Zenon DEF TailInv
    <3> QED
      BY <2>0, <2>3, <3>1, <3>4, Zenon
  <2> QED
    BY <2>4, <2>5, Zenon
<1> HIDE DEF Cleared
<1>19. mem' \subseteq mem
  BY <1>1, Zenon DEF ClearTail, Erase
<1>12. TypeOK'
  <2>1. cur' \in [slot : Nat, ports : Nat, ant : Nat, buf : Nat, row : Nat, by : Writers]
    BY <1>1, Zenon DEF NoSlot, Writers
  <2>2. mem' \subseteq Block
    BY <1>3, <1>19, Zenon DEF TypeOK
  <2>3. cursor' \in [Writers -> Index] /\ published' \in Seq(PubRec)
    BY <1>8, <1>10, Zenon
  <2>4. /\ mapped' = mapped /\ cfg' = cfg /\ header' = header /\ opens' = opens
        /\ open_ok' = open_ok /\ attached' = attached /\ slots' = slots /\ pc' = "idle"
        /\ gnb_ports' = gnb_ports
    BY <1>1, Zenon
  <2> QED
    BY <1>3, <2>1, <2>2, <2>3, <2>4, Zenon DEF TypeOK, PubRec
<1>13. CursorInv'
  <2>1. cfg.writer = "gnb" => attached
    BY <1>1, <1>3, <1>4, Zenon DEF CursorInv
  <2>2. pc' # "write" /\ cfg' = cfg /\ attached' = attached
    BY <1>1, Zenon
  <2>3. InRing(cfg, cursor'[cfg.writer])
    BY <1>10, Zenon
  <2> QED
    BY <2>1, <2>2, <2>3, Zenon DEF CursorInv
<1>14. ASSUME NEW i \in 1 .. n - d
       PROVE  /\ i + d \in 1 .. n /\ i + d \in Intact
              /\ published'[i] = published[i + d]
  <2>1. i \in 1 .. n - d /\ (d = 0 \/ d = 1)
    BY <1>14, Zenon
  <2>2. published'[i] = published[i + d]
    BY <1>8, <2>1, Zenon
  <2>3. Intact = {j \in 1 .. n : j > n - (2 * R - 1)}
    BY <1>1, <1>7, Zenon DEF Intact
  <2> HIDE DEF n, R
  <2> QED
    BY <1>7, <1>8, <2>1, <2>2, <2>3
<1>15. ChainInv'
  <2> DEFINE m == Len(published')
  <2>1. m = n + 1 - d /\ m <= 2 * R
    <3>1. m = n + 1 - d
      BY <1>8, Zenon
    <3> HIDE DEF n, R, K, K1, rec, m
    <3> QED
      BY <1>7, <1>9, <3>1
  <2>2. ASSUME NEW i \in 1 .. m
        PROVE  /\ InRing(cfg, published'[i])
               /\ \/ Idx(cfg, published'[i]) = K1 - (m + 1 - i)
                  \/ Idx(cfg, published'[i]) = K1 - (m + 1 - i) + 2 * R
    <3>1. CASE i = n + 1 - d
      <4>1. published'[i] = rec
        BY <1>8, <3>1, Zenon
      <4>2. InRing(cfg, published'[i]) /\ Idx(cfg, published'[i]) = K
        BY <1>6, <4>1, Zenon
      <4>3. K \in Int /\ m \in Int
        BY <1>3, <1>7, <2>1 DEF Ring
      <4> HIDE DEF n, R, K, K1, m
      <4> QED
        BY <1>7, <1>10, <2>1, <3>1, <4>2, <4>3
    <3>2. CASE i # n + 1 - d
      <4>1. i \in 1 .. n - d
        BY <1>7, <2>1, <2>2, <3>2
      <4> DEFINE I == Idx(cfg, published[i + d])
      <4>2. i + d \in 1 .. n /\ published'[i] = published[i + d]
        BY <1>14, <4>1, Zenon
      <4>3. /\ InRing(cfg, published[i + d])
            /\ I = K - (n + 1 - (i + d)) \/ I = K - (n + 1 - (i + d)) + 2 * R
        BY <1>3, <4>2, Zenon DEF ChainInv
      <4>4. I \in 0 .. 2 * R - 1 /\ K \in Int
        BY <1>2, <1>3, <1>7, <4>3, RingIndex, SMTT(30) DEF Ring
      <4> HIDE DEF n, R, K, K1, m, I
      <4>5. I = K1 - (m + 1 - i) \/ I = K1 - (m + 1 - i) + 2 * R
        BY <1>7, <1>10, <1>9, <2>1, <4>1, <4>3, <4>4
      <4> QED
        BY <4>2, <4>3, <4>5, Zenon DEF I
    <3> QED
      BY <3>1, <3>2, Zenon
  <2> QED
    BY <1>1, <2>1, <2>2, Zenon DEF ChainInv
<1>16. Intact' = 1 .. n + 1 - d
  <2> DEFINE m == Len(published')
  <2>1. m = n + 1 - d /\ m \in Int /\ m <= 2 * R
    BY <1>7, <1>8, <1>9
  <2>2. Intact' = {i \in 1 .. m : i > m - 2 * R}
    BY <1>1, <1>7, Zenon DEF Intact, RingRows
  <2> HIDE DEF m, n, R
  <2>3. \A i \in 1 .. m : i > m - 2 * R
    BY <1>7, <2>1
  <2>4. Intact' = 1 .. m
    BY <2>2, <2>3, Zenon
  <2> QED
    BY <2>1, <2>4, Zenon
<1>17. ASSUME SizeFits(cfg) PROVE CellInv'
  <2>0. CellInv /\ Cleared
    BY <1>11, <1>17, Zenon
  <2>1. ASSUME NEW i \in 1 .. n - d
        PROVE  RowHolds(cfg, mem', published'[i])
    <3>1. i + d \in Intact /\ published'[i] = published[i + d]
      BY <1>14, Zenon
    <3>2. RowHolds(cfg, mem, published[i + d])
      BY <2>0, <3>1, Zenon DEF CellInv
    <3>3. Idx(cfg, published[i + d]) \in Ring(cfg) /\ Idx(cfg, published[i + d]) # K
      BY <1>1, <1>2, <3>1, NotAtCursor, Zenon
    <3> HIDE DEF K
    <3> QED
      BY <2>0, <3>1, <3>2, <3>3, Zenon DEF RowHolds, Cleared
  <2>2. RowHolds(cfg, mem', rec)
    <3> SUFFICES ASSUME NEW a \in Ants(cfg), NEW t \in Nat
                 PROVE  Cell(cfg, K, a, t) \in mem' <=> a < cur.ports /\ t = cur.slot
      BY <1>6, Zenon DEF RowHolds
    <3>1. a < cur.ports => (Cell(cfg, K, a, t) \in mem <=> t = cur.slot)
      BY <1>1, <2>0, Zenon DEF CellInv
    <3>2. a < cur.ports <=> ~ (a >= cur.ports)
      BY <1>3, <1>5, RowSizes DEF Ants
    <3> HIDE DEF K
    <3> QED
      BY <1>3, <2>0, <3>1, <3>2, Zenon DEF Cleared
  <2>3. \A i \in Intact' : RowHolds(cfg, mem', published'[i])
    <3> SUFFICES ASSUME NEW i \in 1 .. n + 1 - d
                 PROVE  RowHolds(cfg, mem', published'[i])
      BY <1>16, Zenon
    <3>1. i \in 1 .. n - d \/ i = n + 1 - d
      BY <1>7
    <3> QED
      BY <1>8, <2>1, <2>2, <3>1, Zenon
  <2>4. ASSUME NEW k \in Ring(cfg), NEW a \in Ants(cfg), NEW t \in Nat,
               Cell(cfg, k, a, t) \in mem'
        PROVE  \E i \in Intact' : Idx(cfg, published'[i]) = k
    <3>1. Cell(cfg, k, a, t) \in mem
      BY <2>0, <2>4, Zenon DEF Cleared
    <3>2. CASE k = K
      <4>1. n + 1 - d \in 1 .. n + 1 - d
        <5> HIDE DEF n, R, K, K1, rec
        <5> QED
          BY <1>7, <1>9
      <4> QED
        BY <1>6, <1>8, <1>16, <3>2, <4>1, Zenon
    <3>3. CASE k # K
      <4>1. PICK j \in Intact : Idx(cfg, published[j]) = k
        BY <2>0, <3>1, <3>3, Zenon DEF CellInv
      <4>2. j \in 1 .. n /\ j > n - (2 * R - 1)
        BY <1>1, <1>7, Zenon DEF Intact
      <4> HIDE DEF n, R
      <4>3. j - d \in 1 .. n - d /\ (j - d) + d = j /\ j - d \in 1 .. n + 1 - d
        BY <1>7, <1>9, <4>2
      <4>4. published'[j - d] = published[j]
        BY <1>14, <4>3, Zenon
      <4> QED
        BY <1>16, <4>1, <4>3, <4>4, Zenon
    <3> QED
      BY <3>2, <3>3, Zenon
  <2> QED
    BY <1>1, <2>0, <2>3, <2>4, SMTT(30) DEF CellInv, Cleared
<1>18. ASSUME SizeFits(cfg) PROVE TailInv'
  <2>0. TailInv /\ Cleared
    BY <1>11, <1>18, Zenon
  <2>1. PortsWritten(gnb_ports)' = PortsWritten(gnb_ports) /\ pc' # "write"
    BY <1>1, Zenon DEF PortsWritten
  <2> QED
    BY <1>1, <2>0, <2>1 DEF TailInv, Cleared
<1>20. BlockInv' /\ FitInv'
  BY <1>1, <1>3, <1>17, <1>18, <1>19, Zenon
     DEF BlockInv, FitInv, RowBase, AntBytes
<1> QED
  BY <1>1, <1>2, <1>12, <1>13, <1>15, <1>20, Zenon DEF IInv

-----------------------------------------------------------------------------
\* Every step keeps the invariant.
LEMMA NextStep == IInv /\ [Next]_vars => IInv'
<1> SUFFICES ASSUME IInv, [Next]_vars PROVE IInv'
  BY Zenon
<1>1. ASSUME NEW c \in Configs, Open(c) PROVE IInv'
  BY <1>1, OpenStep, Zenon
<1>2. CASE Close
  BY <1>2, UnmapStep, Zenon DEF Close
<1>3. CASE Die
  BY <1>3, UnmapStep, Zenon DEF Die
<1>4. ASSUME NEW b \in 0 .. NumBuffers - 1, NEW r \in 0 .. header.num_fh_rows - 1,
             NEW p \in Ports, Attach(b, r, p)
      PROVE  IInv'
  BY <1>4, AttachStep, Zenon
<1>5. ASSUME NEW w \in Writers, NEW p \in Ports, Publish(w, p) PROVE IInv'
  BY <1>5, PublishStep, Zenon
<1>6. CASE WriteAnt
  BY <1>6, WriteAntStep, Zenon
<1>7. CASE Return
  BY <1>7, ReturnStep, Zenon
<1>8. CASE UNCHANGED vars
  <2>1. /\ cfg' = cfg /\ mapped' = mapped /\ header' = header /\ opens' = opens
        /\ open_ok' = open_ok /\ mem' = mem /\ cursor' = cursor /\ attached' = attached
        /\ pc' = pc /\ cur' = cur /\ published' = published /\ slots' = slots
        /\ gnb_ports' = gnb_ports
    BY <1>8, Zenon DEF vars, regionVars, helperVars
  <2>2. TypeOK' = TypeOK /\ CursorInv' = CursorInv /\ ChainInv' = ChainInv
    BY <2>1, Zenon DEF TypeOK, CursorInv, ChainInv
  <2>3. Intact' = Intact
    BY <2>1, Zenon DEF Intact, RingRows
  <2>4. CellInv' = CellInv
    BY <2>1, <2>3, Zenon DEF CellInv
  <2>5. TailInv' = TailInv
    BY <2>1, Zenon DEF TailInv, PortsWritten
  <2>6. BlockInv => BlockInv'
    BY <2>1, Zenon DEF BlockInv, RowBase, AntBytes
  <2>7. SizeFits(cfg)' = SizeFits(cfg)
    BY <2>1, Zenon
  <2>8. FitInv' = FitInv
    BY <2>4, <2>5, <2>7, Zenon DEF FitInv
  <2> QED
    BY <2>1, <2>2, <2>6, <2>8, Zenon DEF IInv
<1> QED
  BY <1>1, <1>2, <1>3, <1>4, <1>5, <1>6, <1>7, <1>8, Zenon DEF Next

\* The inductive invariant holds in every state of the region's life.
THEOREM RegionInvariant == Spec => []IInv
<1>1. Init => IInv
  BY InitHolds, Zenon
<1>2. IInv /\ [Next]_vars => IInv'
  BY NextStep, Zenon
<1> QED
  BY <1>1, <1>2, PTL DEF Spec

\* open() never refuses a region that load_config() has accepted.
THEOREM AcceptedRegionOpens == Spec => []AcceptedOpens
<1>1. IInv => AcceptedOpens
  BY Zenon DEF IInv, AcceptedOpens
<1> QED
  BY <1>1, RegionInvariant, PTL

\* publish_row*() and the gNB's helper only write antenna blocks at which a
\* dApp looks, inside the region.
THEOREM WritesStayInRows == Spec => []WritesInsideRows
<1>1. IInv => WritesInsideRows
  <2> SUFFICES ASSUME IInv, mapped, NEW e \in mem
               PROVE  /\ e.off >= HeaderBytes /\ e.off + e.len <= cfg.size_bytes
                      /\ \E b \in 0 .. NumBuffers - 1, r \in 0 .. header.num_fh_rows - 1 :
                            /\ e.off = ReadOffset(b, r) + e.ant * AntBytes
                            /\ e.ant < cfg.radio.nof_ports
    BY Zenon DEF WritesInsideRows
  <2>1. TypeOK /\ BlockInv /\ header.num_fh_rows = num_fh_rows(cfg)
    BY RingSize, Zenon DEF IInv
  <2>2. PICK b \in {0, 1}, r \in 0 .. num_fh_rows(cfg) - 1, a \in Ants(cfg) :
           /\ e.off = RowBase(b, r) + a * AntBytes
           /\ e.len = AntBytes /\ e.ant = a
    BY <2>1, Zenon DEF BlockInv
  <2>3. b \in 0 .. NumBuffers - 1
    BY DEF NumBuffers
  <2> QED
    BY <2>1, <2>2, <2>3, RowBases, Zenon
<1> QED
  BY <1>1, RegionInvariant, PTL

\* In a region below 8 GiB the row an indication points at reads back as its
\* slot until the ring has come round to it, whatever the port counts of the
\* slots before it.
THEOREM RowsStayIntact == Spec => []RowIntact
<1>1. IInv => RowIntact
  <2> SUFFICES ASSUME IInv, SizeFits(cfg), NEW i \in Intact, NEW a \in Ants(cfg)
               PROVE  LET p == published[i]
                          At == ReadOffset(p.buf, p.row) + a * AntBytes
                      IN IF a < p.ports THEN Holds(At, AntBytes, p.slot, a)
                         ELSE Silent(At, AntBytes)
    BY Zenon DEF RowIntact, Ants
  <2> DEFINE p == published[i]
             K == Idx(cfg, p)
  <2>1. mapped
    BY DEF IInv, TypeOK, Intact
  <2>2. TypeOK /\ ChainInv /\ CellInv /\ cfg \in Good
    BY <2>1, RingSize, Zenon DEF IInv, FitInv
  <2>3. i \in 1 .. Len(published)
    BY Zenon DEF Intact
  <2>4. InRing(cfg, p)
    BY <2>2, <2>3, Zenon DEF ChainInv
  <2>5. p.slot \in Nat /\ p.ports \in Nat /\ a \in Nat
    <3>1. p \in PubRec
      <4>1. published \in Seq(PubRec)
        BY <2>2, Zenon DEF TypeOK, PubRec
      <4> QED
        BY <2>3, <4>1
    <3>2. a \in Nat
      BY <2>2, RowSizes DEF Ants
    <3> QED
      BY <3>1, <3>2, Zenon DEF PubRec
  <2>6. /\ ReadOffset(p.buf, p.row) + a * AntBytes = Off(cfg, K, a)
        /\ AntBytes = AB(cfg) /\ K \in Ring(cfg)
    BY <2>1, <2>2, <2>4, <2>5, Addresses, Zenon DEF AntBytes, AB
  <2>7. \A t \in Nat : Cell(cfg, K, a, t) \in mem <=> a < p.ports /\ t = p.slot
    BY <2>2, Zenon DEF CellInv, RowHolds
  <2> HIDE DEF p, K
  <2>8. CASE a < p.ports
    BY <2>5, <2>6, <2>7, <2>8, Zenon DEF Holds, Cell, p
  <2>9. CASE ~ (a < p.ports)
    <3>1. ASSUME NEW e \in mem
          PROVE  ~ Overlaps(e, Off(cfg, K, a), AB(cfg))
      <4>1. PICK j \in Ring(cfg), b \in Ants(cfg), t \in Nat : e = Cell(cfg, j, b, t)
        BY <2>2, Zenon DEF CellInv, Grid
      <4>2. ~ (j = K /\ b = a)
        BY <2>7, <2>9, <3>1, <4>1, Zenon
      <4> QED
        BY <2>2, <2>6, <4>1, <4>2, CellOverlaps
    <3> QED
      BY <2>6, <2>9, <3>1, Zenon DEF Silent, p
  <2> QED
    BY <2>8, <2>9, Zenon
<1> QED
  BY <1>1, RegionInvariant, PTL

\* No sample of a recycled row, or of a region a dead process left, is visible
\* outside the row being written, again below 8 GiB.
THEOREM NoOldSamples == Spec => []NoStaleIq
<1>1. IInv => NoStaleIq
  <2> SUFFICES ASSUME IInv, mapped, SizeFits(cfg), NEW e \in mem
               PROVE  \/ \E i \in DOMAIN published : published[i].slot = e.slot
                      \/ /\ pc = "write" /\ RowBase(cur.buf, cur.row) <= e.off
                         /\ e.off < RowBase(cur.buf, cur.row) + row_bytes(cfg.radio)
    BY Zenon DEF NoStaleIq
  <2>1. TypeOK /\ CellInv /\ cfg \in Good
    BY RingSize, Zenon DEF IInv, FitInv
  <2>2. PICK k \in Ring(cfg), a \in Ants(cfg), t \in Nat : e = Cell(cfg, k, a, t)
    BY <2>1, Zenon DEF CellInv, Grid
  <2>3. e.off = Off(cfg, k, a) /\ e.slot = t
    BY <2>2, Zenon DEF Cell
  <2>4. CASE \E i \in Intact : Idx(cfg, published[i]) = k
    <3>1. PICK i \in Intact : Idx(cfg, published[i]) = k
      BY <2>4, Zenon
    <3>2. RowHolds(cfg, mem, published[i])
      BY <2>1, Zenon DEF CellInv
    <3>3. published[i].slot = t
      BY <2>2, <3>1, <3>2, Zenon DEF RowHolds
    <3>4. i \in DOMAIN published
      BY <2>1 DEF Intact, TypeOK
    <3> QED
      BY <2>3, <3>3, <3>4, Zenon
  <2>5. CASE pc = "write" /\ k = Idx(cfg, cur)
    <3>1. InRing(cfg, cur)
      BY <2>5, CursorInRing, Zenon
    <3>2. RowBase(cur.buf, cur.row) + 0 * AntBytes = Off(cfg, k, 0)
      BY <2>1, <2>5, <3>1, Addresses, Zenon
    <3> DEFINE x == k * row_bytes(cfg.radio)
               u == a * AB(cfg)
               rb == row_bytes(cfg.radio)
               base == RowBase(cur.buf, cur.row)
    <3>3. /\ x \in Nat /\ u \in Nat /\ rb \in Nat /\ AB(cfg) \in Nat /\ AB(cfg) > 0
          /\ u + AB(cfg) <= rb
      BY <2>1, CellTypes, RowSizes, Zenon
    <3>4. e.off = 64 + x + u
      BY <2>3, Zenon DEF Off, HeaderBytes
    <3>5. 0 * AB(cfg) = 0 /\ AntBytes = AB(cfg)
      BY <3>3 DEF AntBytes, AB
    <3>6. base + 0 = 64 + x + 0
      BY <3>2, <3>5, Zenon DEF Off, HeaderBytes
    <3>7. base \in Int
      BY <2>1, <3>1, <3>3, RingSize, Layout DEF RowBase, InRing, HeaderBytes, IInv
    <3> HIDE DEF x, u, rb, base
    <3>8. base <= e.off /\ e.off < base + rb
      BY <3>3, <3>4, <3>6, <3>7
    <3> QED
      BY <2>5, <3>8, Zenon DEF base, rb
  <2> QED
    BY <2>1, <2>2, <2>4, <2>5, Zenon DEF CellInv
<1> QED
  BY <1>1, RegionInvariant, PTL
=============================================================================
