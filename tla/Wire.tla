-------------------------------- MODULE Wire --------------------------------
(***************************************************************************)
(* Numbers in a fixed byte order: Int (wire_int.hpp), Double               *)
(* (wire_double.hpp) and the conversion of whole arrays (byte_order.hpp).  *)
(* A value has Width digits of base Base, which stand for its bytes; a     *)
(* host keeps it in memory least or most significant byte first.           *)
(***************************************************************************)
EXTENDS Integers, Sequences, SequencesExt

CONSTANTS
    Base,   \* stands for 256
    Width   \* bytes of a value

ASSUME WireAssumption == Base \in Nat \ {0, 1} /\ Width \in Nat \ {0}

Hosts ==  {"little", "big"}
Endians == {"LITTLE", "BIG", "UNKNOWN", "NOT_APPLICABLE"}

\* The powers of Base.
Powers[n \in 0..Width] == IF n = 0 THEN 1 ELSE Base * Powers[n - 1]

WireValues == 0..Powers[Width] - 1

Byte(v, i) == (v \div Powers[i - 1]) % Base     \* the i-th least significant

\* What a host keeps in memory, and what it makes of it.
Image(host, v) ==
    [i \in 1..Width |-> Byte(v, IF host = "little" THEN i ELSE Width + 1 - i)]

ValueOf(host, bytes) == CHOOSE v \in WireValues : Image(host, v) = bytes

\* std::byteswap
byteswap(v) == ValueOf("big", Image("little", v))

\* Endian::native()
native(host) == IF host = "little" THEN "LITTLE" ELSE "BIG"

\* Int::need_swap, Double::need_swap
need_swap(host, E) ==
    \/ E = "LITTLE" /\ host = "big"
    \/ E = "BIG" /\ host = "little"

\* Int::encode and decode, and those of Double on its bits.
encode(host, E, v) == IF need_swap(host, E) THEN byteswap(v) ELSE v
decode(host, E, v) == IF need_swap(host, E) THEN byteswap(v) ELSE v

\* The bytes of an Int<T, E> that holds v, as they are sent or saved, and
\* the value of one that was received.
Sent(host, E, v)         == Image(host, encode(host, E, v))
Received(host, E, bytes) == decode(host, E, ValueOf(host, bytes))

-----------------------------------------------------------------------------
(***************************************************************************)
(* Double: the top half of the bits' range has the sign bit set.           *)
(***************************************************************************)

IsZero(bits) == bits \in {0, Powers[Width] \div 2}    \* plus and minus zero

\* operator== is numeric (NaNs left aside).
EqualDouble(host, E, a, b) ==
    LET x == decode(host, E, a)
        y == decode(host, E, b)
    IN  x = y \/ (IsZero(x) /\ IsZero(y))

\* std::hash: of the stored bits.
HashOf(d) == d

-----------------------------------------------------------------------------
(***************************************************************************)
(* convert: every element of size bytes is reversed in place.              *)
(***************************************************************************)
ByteOrders == [mendian : Hosts, minvariance : BOOLEAN, maddress_size : 1..2]

only_endian_differs(a, b) ==
    /\ a.mendian # b.mendian
    /\ a.minvariance = b.minvariance /\ a.maddress_size = b.maddress_size

\* Where the loop finds whole elements, for n >= size.
Elements(n, size) == {i \in 0..n - size : i % size = 0}

\* For data of two bytes or more that are shorter than an element, size() -
\* original_data_size wraps and the loop swaps bytes far beyond the data:
\* what is left is not defined, and stands here as no bytes at all.
Overrun == <<-1>>

convert(data, size, from, to) ==
    IF from = to \/ Len(data) <= 1 \/ ~only_endian_differs(from, to) \/ size <= 1
    THEN data
    ELSE IF Len(data) < size THEN Overrun
    ELSE [p \in DOMAIN data |->
            IF \E i \in Elements(Len(data), size) : p - i \in 1..size
            THEN LET i == ((p - 1) \div size) * size
                 IN  data[i + size + 1 - (p - i)]
            ELSE data[p]]

-----------------------------------------------------------------------------
(***************************************************************************)
(* Correctness.                                                            *)
(***************************************************************************)

\* What one host sends every other host receives, for a fixed byte order;
\* without one (native, unknown) only hosts of the same kind understand
\* each other.
WirePortable(v) ==
    \A h1, h2 \in Hosts, E \in Endians :
        /\ h1 = h2 => Received(h2, E, Sent(h1, E, v)) = v
        /\ E \in {"LITTLE", "BIG"} =>
             /\ Received(h2, E, Sent(h1, E, v)) = v
             /\ Sent(h1, E, v) = Sent(h2, E, v)
        /\ Received(h2, native(h2), Sent(h1, native(h1), v)) =
             IF h1 = h2 THEN v ELSE byteswap(v)

\* Doubles that compare equal have the same hash, on any host and in any
\* order, unless they are the two zeros.
HashAgrees(a, b) ==
    \A h \in Hosts, E \in Endians :
        LET d == encode(h, E, a)
            e == encode(h, E, b)
        IN  EqualDouble(h, E, d, e) =>
              HashOf(d) = HashOf(e) \/ (IsZero(a) /\ IsZero(b) /\ a # b)

\* convert from the order of a host to that of another gives the bytes the
\* other has for the same values, leaves an incomplete element at the end
\* alone, and is undone by the conversion back.  (For an incomplete element
\* alone it must not be called.)
ConvertExact(values, rest, from, to) ==
    LET Bytes(h) == FlattenSeq([i \in DOMAIN values |-> Image(h, values[i])]) \o rest
        there    == convert(Bytes(from.mendian), Width, from, to)
    IN  only_endian_differs(from, to) /\ (values # <<>> \/ Len(rest) <= 1) =>
          /\ there = Bytes(to.mendian)
          /\ convert(there, Width, to, from) = Bytes(from.mendian)
=============================================================================
