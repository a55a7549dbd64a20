---------------------------- MODULE EbpfRingBuffer ----------------------------
(* The ring of libs/runtime/ebpf_ring_buffer.c.  The buffer is mapped twice in *)
(* a row, so that a record is contiguous; the offsets only grow and are taken  *)
(* modulo the length on access.  Each operation is one critical section of the *)
(* ring's lock.  A cell is a unit of memory: the header of a record, which     *)
(* holds its length, or a part of its data; `record` tells whose.              *)
EXTENDS Naturals, Sequences

CONSTANTS
  Length,      \* of the buffer, in units
  DataLengths, \* lengths of the data of a record
  MaxRecords   \* bound: records written

HeaderSize == 1    \* EBPF_OFFSET_OF(ebpf_ring_buffer_record_t, data)

\* ebpf_ring_buffer_create asks for a power of two; the model needs no more.
RingConstants ==
  Length \in Nat \ {0} /\ DataLengths \subseteq Nat /\ MaxRecords \in Nat

VARIABLES
  consumer_offset, producer_offset, buffer,
  output       \* history: offset and length of every record written

ring == <<consumer_offset, producer_offset, buffer, output>>

Positions == 0..Length - 1
At(offset) == buffer[offset % Length]
UsedCapacity == producer_offset - consumer_offset

RingTypeOK ==
  /\ consumer_offset \in Nat /\ producer_offset \in Nat
  /\ buffer \in [Positions -> [length : Nat, record : 0..MaxRecords]]
  /\ output \in Seq([offset : Nat, length : Nat])
  /\ Len(output) <= MaxRecords

\* ebpf_ring_buffer_create.
RingInit ==
  /\ consumer_offset = 0 /\ producer_offset = 0
  /\ buffer = [i \in Positions |-> [length |-> 0, record |-> 0]]
  /\ output = <<>>

-----------------------------------------------------------------------------
\* Mutant: a record may fill the ring completely and more.
Fits_OneMore(requested) == Length - UsedCapacity + 1 > requested

\* _ring_buffer_acquire_record leaves at least one unit free.
Fits(requested) == Length - UsedCapacity > requested

\* The header and the data of record k at offset.
Written(offset, requested, k) ==
  [i \in Positions |->
     IF i = offset % Length THEN [length |-> requested, record |-> k]
     ELSE IF \E j \in 1..requested - 1 : i = (offset + j) % Length
     THEN [length |-> 0, record |-> k]
     ELSE buffer[i]]

\* ebpf_ring_buffer_output of n units of data.
Output(n) ==
  LET requested == n + HeaderSize IN
  /\ Fits(requested)
  /\ buffer' = Written(producer_offset, requested, Len(output) + 1)
  /\ producer_offset' = producer_offset + requested
  /\ output' = Append(output, [offset |-> producer_offset, length |-> requested])
  /\ UNCHANGED consumer_offset

OutOfSpace(n) == ~Fits(n + HeaderSize) /\ UNCHANGED ring

\* The loop of ebpf_ring_buffer_return: what is left of the length after the
\* whole records from the consumer offset on.
Rest(length) ==
  LET rest[r \in 0..length] ==
        LET record == At(consumer_offset + length - r).length
        IN  IF r = 0 \/ r < record THEN r ELSE rest[r - record]
  IN  rest[length]

\* ebpf_ring_buffer_return succeeds: length ends on a record boundary.
MayReturn(length) ==
  /\ length <= Length /\ length <= UsedCapacity
  /\ Rest(length) = 0

Return(length) ==
  /\ consumer_offset' = consumer_offset + length
  /\ UNCHANGED <<producer_offset, buffer, output>>

-----------------------------------------------------------------------------
\* Record k is in the ring: header and data are as they were written.
Intact(k) ==
  LET r == output[k] IN
  /\ At(r.offset) = [length |-> r.length, record |-> k]
  /\ \A j \in 1..r.length - 1 : At(r.offset + j).record = k

\* The record that starts at an offset, as it was written.
StartsAt(offset) == {k \in DOMAIN output : output[k].offset = offset}

\* The ring is a bounded FIFO: the records from the consumer to the producer
\* offset are there, unbroken and in the order of the outputs, and both offsets
\* are record boundaries (ebpf_ring_buffer_output, ebpf_ring_buffer_return).
RingConsistent ==
  /\ consumer_offset <= producer_offset /\ UsedCapacity < Length
  /\ \A k \in DOMAIN output : output[k].offset >= consumer_offset => Intact(k)
  /\ consumer_offset < producer_offset => StartsAt(consumer_offset) # {}
  /\ \A k \in DOMAIN output :
        output[k].offset + output[k].length =
          IF k = Len(output) THEN producer_offset ELSE output[k + 1].offset
=============================================================================
