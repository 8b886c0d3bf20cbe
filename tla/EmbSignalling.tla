--------------------------- MODULE EmbSignalling ---------------------------
(***************************************************************************)
(* The link control that is spread over the embedded signalling of four    *)
(* voice bursts: emb.c packs it into 77 bits, vbptc_16_11.c puts these     *)
(* into a matrix with parities, and four fragments of 32 bits carry it.    *)
(* The receiver adds the fragments to a matrix of its own, which it        *)
(* checks, repairs and reads.                                              *)
(*                                                                         *)
(* A matrix is the set of its one cells, 16 to a row.                      *)
(***************************************************************************)
EXTENDS BurstCodes, Sequences

CONSTANTS
    EmbLcs,         \* the link controls that are sent
    UnsetBits,      \* what bits 64 .. 71 of the caller's array may hold: the
                    \* loop over the bytes ends at the size of a pointer
    HeapCells,      \* what a new matrix may hold
    FlipCells,      \* the cells that the channel may invert
    MaxCellFlips, MaxFragments      \* bounds

VARIABLES
    tx,         \* the sender's matrix
    rx,         \* the receiver's: its cells, and row and col of the next bit
    embSent,    \* history: the 77 bits in tx
    added,      \* history: the fragments added to rx since it was new or wiped
    inverted,   \* history: the cells of rx that the channel inverted
    verdict     \* what the last check returned, None before

embVars == <<tx, rx, embSent, added, inverted, verdict>>

Rows == 8
MatrixCells == 0 .. 16 * Rows - 1

-----------------------------------------------------------------------------
(* emb.c                                                                   *)

\* The nine bytes of dmr_emb_encode_signalling_lc.
LcBytes(l) ==
    <<IF l.flco = 1 THEN 3 ELSE 0, 0, 0,
      l.dst \div 65536, (l.dst \div 256) % 256, l.dst % 256,
      l.src \div 65536, (l.src \div 256) % 256, l.src % 256>>

\* dmr_emb_encode_signalling_lc_bytes.  A bit of the checksum is set when
\* anything is left above the shift; eight of the nine bytes are converted.
dmr_emb_encode_signalling_lc_bytes(bytes, unset) ==
    LET checksum == MapThenSumSet(LAMBDA i : bytes[i], 1 .. 9) % 31
    IN [checksum |-> {i \in 0 .. 4 : checksum \div 2^(4 - i) > 0},
        bits |-> UNION {Bits(bytes[i + 1], 8 * i, 8) : i \in 0 .. 7} \cup unset]

\* The checksum goes to the last bit of rows 2 .. 6, the others keep their order.
dmr_emb_signalling_lc_interlave(e) ==
    {i \in 0 .. 76 :
        IF i \in {32, 43, 54, 65, 76} THEN (i - 32) \div 11 \in e.checksum
        ELSE i - Cardinality({c \in {32, 43, 54, 65, 76} : c < i}) \in e.bits}

-----------------------------------------------------------------------------
(* vbptc_16_11.c                                                           *)

hamming_16_11_generator_matrix ==
    <<{0, 3, 4}, {0, 1, 3}, 0 .. 4, {0, 1, 2}, {1, 2, 3}, {0, 2, 4}, {1, 3, 4}, {0, 2, 3},
      {0, 1, 4}, {1, 2, 4}, {2, 3, 4}, {0}, {1}, {2}, {3}, {4}>>

MatrixRow(cells, r) == {c \in 0 .. 15 : 16 * r + c \in cells}
MatrixColumn(cells, c) == {r \in 0 .. Rows - 2 : 16 * r + c \in cells}

dmr_vbptc_16_11_parity_bits(row) ==
    {x \in 0 .. 4 : Odd({c \in row \cap (0 .. 10) : x \in hamming_16_11_generator_matrix[c + 1]})}

dmr_vbptc_16_11_check_row(row) ==
    dmr_vbptc_16_11_parity_bits(row) = {c - 11 : c \in row \ (0 .. 10)}

\* The position of the error is looked up from the parity of the data bits,
\* not from its difference to the parity received; {} when there is none.
dmr_vbptc_16_11_error_position(row) ==
    LET found == {c \in 0 .. 15 :
            hamming_16_11_generator_matrix[c + 1] = dmr_vbptc_16_11_parity_bits(row)}
    IN IF found = {} THEN {} ELSE {Min(found)}

\* A row after the repair.
Repaired(row) ==
    IF dmr_vbptc_16_11_check_row(row) THEN row
    ELSE SymDiff(row, dmr_vbptc_16_11_error_position(row))

ColumnParity(cells, c) == Odd(MatrixColumn(cells, c))

\* Mutant: a row that cannot be repaired is not reported.
CheckAndRepair_columns(cells) ==
    LET last == 16 * (Rows - 1)
        repaired == {q \in cells : q >= last}
            \cup UNION {{16 * r + c : c \in Repaired(MatrixRow(cells, r))} : r \in 0 .. Rows - 2}
    IN [cells |-> repaired,
        ok |-> \A c \in 0 .. 15 : ColumnParity(repaired, c) <=> last + c \in repaired]

\* The matrix after the repairs, and whether all rows and columns agree.
CheckAndRepair(cells) ==
    LET last == 16 * (Rows - 1)
        repaired == {q \in cells : q >= last}
            \cup UNION {{16 * r + c : c \in Repaired(MatrixRow(cells, r))} : r \in 0 .. Rows - 2}
    IN [cells |-> repaired,
        ok |-> /\ \A r \in 0 .. Rows - 2 : dmr_vbptc_16_11_check_row(MatrixRow(repaired, r))
               /\ \A c \in 0 .. 15 : ColumnParity(repaired, c) <=> last + c \in repaired]

dmr_vbptc_16_11_matrix_free(m) == 16 * Rows - (m.col * Rows + m.row)

\* dmr_vbptc_16_11_add fills the matrix by columns.
dmr_vbptc_16_11_add(m, bits, len) ==
    LET n == Min({len, dmr_vbptc_16_11_matrix_free(m)})
        at == m.col * Rows + m.row
        Cell(i) == (at + i) \div Rows + 16 * ((at + i) % Rows)
    IN [cells |-> (m.cells \ {Cell(i) : i \in 0 .. n - 1})
                    \cup {Cell(i) : i \in {i \in 0 .. n - 1 : i \in bits}},
        row |-> (at + n) % Rows, col |-> (at + n) \div Rows]

dmr_vbptc_16_11_get_fragment(cells, offset, len) ==
    {i \in 0 .. len - 1 : (offset + i) \div Rows + 16 * ((offset + i) % Rows) \in cells}

dmr_vbptc_16_11_decode(cells) == {i \in 0 .. 76 : 16 * (i \div 11) + (i % 11) \in cells}

\* dmr_vbptc_16_11_encode wipes the matrix first.  The column parity adds in
\* a bool, which is an or.
dmr_vbptc_16_11_encode(bits) ==
    LET data == {16 * (i \div 11) + (i % 11) : i \in bits}
        rows == data \cup UNION {{16 * r + 11 + x :
                    x \in dmr_vbptc_16_11_parity_bits(MatrixRow(data, r))} : r \in 0 .. Rows - 2}
    IN rows \cup {16 * (Rows - 1) + c : c \in {c \in 0 .. 15 : MatrixColumn(rows, c) # {}}}

-----------------------------------------------------------------------------
\* The first four fragments came in their order.
InOrder == Len(added) >= 4 /\ SubSeq(added, 1, 4) = <<0, 1, 2, 3>>

\* dmr_vbptc_16_11_new: row and col are zeroed, the matrix is not.
dmr_vbptc_16_11_new(heap) == [cells |-> heap, row |-> 0, col |-> 0]

EmbInit ==
    /\ tx = {} /\ embSent = None
    /\ \E heap \in HeapCells : rx = dmr_vbptc_16_11_new(heap)
    /\ added = <<>> /\ inverted = {} /\ verdict = None

\* A caller encodes a link control into the matrix of the sender.
dmr_emb_encode_signalling_lc(l, unset) ==
    LET bits == dmr_emb_signalling_lc_interlave(
                    dmr_emb_encode_signalling_lc_bytes(LcBytes(l), unset))
    IN /\ embSent = None
       /\ tx' = dmr_vbptc_16_11_encode(bits)
       /\ embSent' = bits
       /\ UNCHANGED <<rx, added, inverted, verdict>>

\* dmr_emb_lcss_fragment_encode puts the 32 bits of the fragment at bit 116 of
\* the burst.
dmr_emb_lcss_fragment_encode(fragment) ==
    {116 + i : i \in dmr_vbptc_16_11_get_fragment(tx, 32 * fragment, 32)}

\* A caller takes them from the burst and adds them; a full matrix refuses.
\* It may start with any fragment and miss one.
AddFragment(fragment) ==
    /\ embSent # None
    /\ added # <<>> => (fragment - added[Len(added)]) % 4 \in {1, 2}
    /\ Len(added) < MaxFragments
    /\ rx' = IF dmr_vbptc_16_11_matrix_free(rx) = 0 THEN rx
             ELSE dmr_vbptc_16_11_add(rx, {b - 116 : b \in dmr_emb_lcss_fragment_encode(fragment)}, 32)
    /\ added' = Append(added, fragment)
    /\ UNCHANGED <<tx, embSent, inverted, verdict>>

\* The channel inverts a cell.
FlipCell(q) ==
    /\ Cardinality(inverted) < MaxCellFlips
    /\ q \notin inverted
    /\ InOrder /\ verdict = None
    /\ rx' = [rx EXCEPT !.cells = SymDiff(@, {q})]
    /\ inverted' = inverted \cup {q}
    /\ UNCHANGED <<tx, embSent, added, verdict>>

\* The caller checks the matrix once all of it was added.
dmr_vbptc_16_11_check_and_repair ==
    /\ dmr_vbptc_16_11_matrix_free(rx) = 0
    /\ rx' = [rx EXCEPT !.cells = CheckAndRepair(rx.cells).cells]
    /\ verdict' = CheckAndRepair(rx.cells).ok
    /\ UNCHANGED <<tx, embSent, added, inverted>>

dmr_vbptc_16_11_wipe ==
    /\ added # <<>>
    /\ rx' = [cells |-> {}, row |-> 0, col |-> 0]
    /\ added' = <<>> /\ inverted' = {} /\ verdict' = None
    /\ UNCHANGED <<tx, embSent>>

EmbNext ==
    \/ \E l \in EmbLcs, unset \in UnsetBits : dmr_emb_encode_signalling_lc(l, unset)
    \/ \E f \in 0 .. 3 : AddFragment(f)
    \/ \E q \in FlipCells : FlipCell(q)
    \/ dmr_vbptc_16_11_check_and_repair
    \/ dmr_vbptc_16_11_wipe

-----------------------------------------------------------------------------
(***************************************************************************)
(* Four fragments added in their order give back the bits that the sender  *)
(* encoded, whatever the new matrix held, and further fragments, of the    *)
(* same or of the next link control, do not disturb them until the matrix  *)
(* is wiped.                                                               *)
(***************************************************************************)
FragmentsReadBack ==
    InOrder /\ inverted = {} /\ verdict = None
        => dmr_vbptc_16_11_decode(rx.cells) = embSent

(***************************************************************************)
(* A matrix that dmr_vbptc_16_11_check_and_repair accepts holds the bits   *)
(* that were sent, with up to two inverted cells, although the repair      *)
(* itself may invert further cells: the other parities refuse what it      *)
(* makes worse.                                                            *)
(***************************************************************************)
AcceptedIsSent ==
    InOrder /\ verdict = TRUE => dmr_vbptc_16_11_decode(rx.cells) = embSent

(***************************************************************************)
(* Of the matrices received without an error, exactly those are accepted   *)
(* in which no column has an even, positive number of ones: for the others *)
(* the or of the encoder is not the parity that the decoder expects.       *)
(***************************************************************************)
CleanAccepted ==
    InOrder /\ inverted = {} /\ verdict # None
        => (verdict <=> \A c \in 0 .. 15 :
                LET n == Cardinality(MatrixColumn(tx, c)) IN n = 0 \/ n % 2 = 1)

(***************************************************************************)
(* The embedded link control of four bursts is received as it was sent, or *)
(* refused by dmr_vbptc_16_11_check_and_repair: never accepted as another, *)
(* and without errors refused only where encoder and checker disagree.     *)
(***************************************************************************)
EmbLcReadBack == FragmentsReadBack /\ AcceptedIsSent /\ CleanAccepted
=============================================================================
