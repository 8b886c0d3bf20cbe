----------------------------- MODULE RawBuffer -----------------------------
(***************************************************************************)
(* The growing byte buffers of raw.c.                                      *)
(*                                                                         *)
(* A buffer is as long as its allocation; bytes are their values and the   *)
(* characters that are added their codes.  The allocator gives zeroed      *)
(* memory (malloc.h) and what it gives beyond a buffer that grew is        *)
(* garbage.                                                                *)
(***************************************************************************)
EXTENDS Integers, Sequences, SequencesExt

CONSTANTS
    RawSizes,       \* lengths asked of dmr_raw_new
    RawWords,       \* numbers that are added, with their width in bytes
    RawTexts,       \* what is added as bytes or formatted
    MaxRaw          \* no buffer grows longer

ASSUME RawConstants ==
    /\ RawSizes \subseteq Nat /\ MaxRaw \in Nat
    /\ RawTexts \subseteq Seq(0 .. 255)
    /\ \A w \in RawWords : w.size \in Nat \ {0} /\ w.value \in Nat

VARIABLES
    raw,            \* [buf, len], the buffer the caller has, or NoRaw
    added           \* history: the bytes that the calls so far stand for

rawVars == <<raw, added>>

NoRaw == [buf |-> <<>>, len |-> -1]
Garbage == 170

\* Allocations are multiples of it.
ROUND == 128

Zeros(n) == [i \in 1 .. n |-> 0]
RoundUp(len) == ((len + ROUND - 1) \div ROUND) * ROUND
Allocated(r) == Len(r.buf)
-----------------------------------------------------------------------------
dmr_raw_new(len) == [buf |-> Zeros(RoundUp(len)), len |-> 0]

\* Mutant: what the allocator adds is left as it is.
GrowKeeps(r, len) ==
    IF len < Allocated(r) THEN r
    ELSE [r EXCEPT !.buf = @ \o [i \in 1 .. RoundUp(len) - Allocated(r) |-> Garbage]]

dmr_raw_grow(r, len) ==
    IF len < Allocated(r) THEN r
    ELSE [r EXCEPT !.buf = SubSeq(@, 1, r.len) \o Zeros(RoundUp(len) - r.len)]

dmr_raw_grow_add(r, add) == dmr_raw_grow(r, r.len + add)

\* bytes is written at the end of r; the length grows by len.
PutAt(r, bytes, len) ==
    [buf |-> [i \in DOMAIN r.buf |-> IF i - r.len \in DOMAIN bytes THEN bytes[i - r.len] ELSE r.buf[i]],
     len |-> r.len + len]

dmr_raw_add(r, bytes) == PutAt(dmr_raw_grow_add(r, Len(bytes)), bytes, Len(bytes))

bhex == [d \in 0 .. 15 |-> IF d < 10 THEN 48 + d ELSE 87 + d]

HexOf(bytes) == [i \in 1 .. 2 * Len(bytes) |->
    LET b == bytes[(i + 1) \div 2] IN bhex[IF i % 2 = 1 THEN b \div 16 ELSE b % 16]]

dmr_raw_add_hex(r, bytes) == PutAt(dmr_raw_grow_add(r, 2 * Len(bytes)), HexOf(bytes), 2 * Len(bytes))

\* A number of some bytes, least significant byte first (AU), and the swapped
\* bytes of swap_uint32.
Bytes(word) == [i \in 1 .. word.size |-> (word.value \div 256^(i - 1)) % 256]
dmr_raw_add_uint(r, word) == dmr_raw_add(r, Bytes(word))
dmr_raw_add_uint32_le(r, word) == dmr_raw_add(r, Reverse(Bytes(word)))

\* snprintf writes at most size bytes, a NUL the last of them.
snprintf(text, size) == (IF Len(text) < size THEN text ELSE SubSeq(text, 1, size - 1)) \o <<0>>

\* dmr_raw_add_xuint8 writes its two digits itself; the others (AX) have them
\* formatted into a field of just as many bytes, and so lose the last.
AddDigits(r, bytes) ==
    LET digits == HexOf(bytes)
        size == 2 * Len(bytes)
        text == IF Len(bytes) = 1 THEN digits ELSE snprintf(digits, size)
    IN  PutAt(dmr_raw_grow_add(r, size), text, size)

dmr_raw_add_xuint(r, word) == AddDigits(r, Reverse(Bytes(word)))
dmr_raw_add_xuint32_le(r, word) == AddDigits(r, Bytes(word))

dmr_raw_addf(r, len, text) == PutAt(dmr_raw_grow_add(r, len + 1), snprintf(text, len + 1), len)

dmr_raw_reset(r) == [buf |-> Zeros(Allocated(r)), len |-> 0]

dmr_raw_zero(r) == [r EXCEPT !.buf = [i \in DOMAIN @ |-> IF i <= r.len THEN 0 ELSE @[i]]]
-----------------------------------------------------------------------------
\* The digits of a number wider than a byte as they are found in the buffer: a NUL
\* stands for the last.
CutDigits(digits) ==
    [i \in DOMAIN digits |-> IF i = Len(digits) /\ Len(digits) > 2 THEN 0 ELSE digits[i]]

RawInit == raw = NoRaw /\ added = <<>>

NewRaw == \E len \in RawSizes : raw = NoRaw /\ raw' = dmr_raw_new(len) /\ added' = <<>>

\* The caller has made r of the buffer, by adding what stands for bytes.
Adds(r, bytes) == raw # NoRaw /\ raw.len <= MaxRaw /\ raw' = r /\ added' = added \o bytes

AddBytes == \E t \in RawTexts : Adds(dmr_raw_add(raw, t), t)
AddHex == \E t \in RawTexts : Adds(dmr_raw_add_hex(raw, t), HexOf(t))
AddFormatted == \E t \in RawTexts, len \in RawSizes \ {0} :
    Adds(dmr_raw_addf(raw, len, t), SubSeq(t \o Zeros(len), 1, len))
AddUint == \E w \in RawWords : Adds(dmr_raw_add_uint(raw, w), Bytes(w))
AddUintLe == \E w \in RawWords :
    w.size = 4 /\ Adds(dmr_raw_add_uint32_le(raw, w), Reverse(Bytes(w)))
AddXuint == \E w \in RawWords :
    Adds(dmr_raw_add_xuint(raw, w), CutDigits(HexOf(Reverse(Bytes(w)))))
AddXuintLe == \E w \in RawWords :
    w.size = 4 /\ Adds(dmr_raw_add_xuint32_le(raw, w), CutDigits(HexOf(Bytes(w))))

ResetRaw == raw # NoRaw /\ raw' = dmr_raw_reset(raw) /\ added' = <<>>
ZeroRaw == raw # NoRaw /\ raw' = dmr_raw_zero(raw) /\ added' = Zeros(raw.len)
FreeRaw == raw # NoRaw /\ raw' = NoRaw /\ added' = <<>>

RawNext ==
    \/ NewRaw \/ AddBytes \/ AddHex \/ AddFormatted \/ AddUint \/ AddUintLe
    \/ AddXuint \/ AddXuintLe \/ ResetRaw \/ ZeroRaw \/ FreeRaw
-----------------------------------------------------------------------------
\* Whatever is added, in whatever order and however often the buffer moves, it
\* holds byte for byte what the calls stand for, in their order: nothing is written
\* past the allocation and nothing that was there before has changed.  What some
\* calls stand for is not what their documentation says, and is stated as the code
\* has it: the "little endian" calls (raw.h:57,75; raw.rst:84,108) put the most
\* significant byte or its digits first (raw.c:100-103, 126-129), where the plain
\* ones put the least significant byte first; and a "hex encoded" number of more
\* than one byte (raw.h:66-78, raw.rst:90-112) has a NUL for its last digit, which
\* does not fit the size that snprintf is given (raw.c:113).
RawHoldsAdded == raw.len <= Allocated(raw) /\ SubSeq(raw.buf, 1, raw.len) = added

\* The bytes behind the length are zero, so that a text shorter than its field
\* (dmr_raw_addf) and a length that is raised by hand (homebrew.c:419) show
\* nothing of what the memory held before.
RawTailZero == \A i \in DOMAIN raw.buf : i > raw.len => raw.buf[i] = 0
=============================================================================
