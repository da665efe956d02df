---------------------------- MODULE Base64Stream ----------------------------
(***************************************************************************)
(* The two base64 streams of the Rust proxy, whose lengths are announced   *)
(* in a Content-Length header: images written into a request body          *)
(* (request_encode.rs, write_blob_as_base64) and images of a response      *)
(* decoded on the way to an image host (upload.rs, Base64DecodedReader).   *)
(*                                                                         *)
(* The bytes of an image are named by their positions 1 .. size.  A text   *)
(* is the sequence of the bytes its groups of four characters stand for,   *)
(* three to a group, Pad where a group is padded.  ImageTransfer composes  *)
(* the encoder with the download of the image.                             *)
(***************************************************************************)
EXTENDS Integers, Sequences

CONSTANTS
  Chunk,        \* CHUNK_BYTES
  StreamChars,  \* BASE64_STREAM_INPUT_CHARS
  MaxSize,      \* bound: size of an image
  MaxRead       \* bound: buffer a reader is polled with

ASSUME ChunkAssumption == Chunk \in Nat \ {0}
ASSUME StreamCharsAssumption == StreamChars \in Nat \ {0} /\ StreamChars % 4 = 0
ASSUME BoundsAssumption == MaxSize \in Nat /\ MaxRead \in Nat \ {0}

VARIABLES
  stage,          \* what the stream is doing
  size,           \* bytes of the image
  (* encoder *)
  input,          \* the buffer, with what earlier rounds left in it
  carry,          \* carry_len
  consumed,       \* bytes read from the blob
  text,           \* what was written, as groups of three
  contentLength,  \* content_length
  (* decoder *)
  rest,           \* characters beyond the last group of four
  hashing,        \* the host is R2, which wants a payload hash
  bad,            \* the group that does not belong in a base64 text, 0 for none
  padded,         \* padding in that group, before the end; 0: an invalid symbol
  offset,         \* offset of the next chunk
  pending,        \* decoded bytes that were not delivered yet
  pendingOffset,
  room,           \* buf.remaining()
  filled,         \* whether this poll has put anything into buf
  announced,      \* decoded_base64_len
  hashed,         \* bytes the payload hash covers
  delivered       \* bytes the host has received

encoderVars == <<input, carry, consumed, text, contentLength>>
sourceVars == <<size, rest, hashing, bad, padded>>
readerVars == <<offset, pending, pendingOffset, room, filled, delivered>>
streamVars == <<stage, encoderVars, sourceVars, readerVars, announced, hashed>>

Pad == 0

Groups(n) == (n + 2) \div 3

Least(x, y) == IF x < y THEN x ELSE y

(* STANDARD.encode_slice of the first n bytes of a buffer: whole groups,   *)
(* the last one padded.                                                    *)
EncodeSlice(buffer, n) ==
  [i \in 1 .. 3 * Groups(n) |-> IF i <= n THEN buffer[i - 1] ELSE Pad]

(* The bytes from one position to another.                                 *)
Bytes(from, to) == [i \in 1 .. to - from + 1 |-> from + i - 1]

StreamInit ==
  /\ hashing \in BOOLEAN
  /\ stage \in {"encode", IF hashing THEN "hash" ELSE "announce"}
  /\ size \in 0 .. MaxSize
  /\ input = [i \in 0 .. Chunk + 1 |-> Pad]
  /\ carry = 0 /\ consumed = 0 /\ text = <<>> /\ contentLength = 0
  /\ rest \in 0 .. 3
  /\ bad \in 0 .. Groups(size)
  /\ padded \in IF bad \in 1 .. Groups(size) - 1 THEN 0 .. 2 ELSE {0}
  /\ stage = "encode" => rest = 0 /\ ~hashing /\ bad = 0
  /\ offset = 0 /\ pending = <<>> /\ pendingOffset = 0 /\ room = 0 /\ filled = FALSE
  /\ announced = 0 /\ hashed = <<>> /\ delivered = <<>>

-----------------------------------------------------------------------------
(* write_blob_as_base64                                                    *)

(* write_counted of an encoded slice.                                      *)
WriteSlice(buffer, n) ==
  /\ text' = text \o EncodeSlice(buffer, n)
  /\ contentLength' = contentLength + 4 * Groups(n)

EncoderOnly == UNCHANGED <<sourceVars, readerVars, announced, hashed>>

(* write_base64_bytes for a blob in memory: one slice.                     *)
EncodeInline ==
  /\ stage = "encode" /\ consumed = 0
  /\ WriteSlice([i \in 0 .. size - 1 |-> i + 1], size)
  /\ stage' = "encoded"
  /\ consumed' = size
  /\ UNCHANGED <<input, carry>>
  /\ EncoderOnly

(* The buffer after read bytes have come in behind the carried ones.       *)
AfterRead(read) ==
  [i \in 0 .. Chunk + 1 |->
     IF i \in carry .. carry + read - 1 THEN consumed + i - carry + 1 ELSE input[i]]

(* copy_within: the last bytes of the buffer move to its front.            *)
MoveToFront(buffer, from, to) ==
  [i \in 0 .. Chunk + 1 |-> IF i < to - from THEN buffer[from + i] ELSE buffer[i]]

(* Mutant: the carried bytes are not moved to the front of the buffer.     *)
ReadChunkStale(read) ==
  LET total == carry + read
      complete == (total \div 3) * 3
  IN  /\ stage = "encode"
      /\ read <= Chunk /\ consumed + read <= size
      /\ consumed' = consumed + read
      /\ carry' = total - complete
      /\ input' = AfterRead(read)
      /\ WriteSlice(AfterRead(read), complete)
      /\ UNCHANGED stage
      /\ EncoderOnly

(* Mutant: bytes are collected until there is a whole chunk.               *)
ReadChunkLate(read) ==
  LET total == carry + read
      complete == IF total < Chunk THEN 0 ELSE (total \div 3) * 3
  IN  /\ stage = "encode"
      /\ read <= Chunk /\ consumed + read <= size
      /\ consumed' = consumed + read
      /\ carry' = total - complete
      /\ input' = MoveToFront(AfterRead(read), complete, total)
      /\ WriteSlice(AfterRead(read), complete)
      /\ UNCHANGED stage
      /\ EncoderOnly

(* A read of any length: the whole groups are written, the rest of at most *)
(* two bytes is carried over.                                              *)
ReadChunk(read) ==
  LET total == carry + read
      complete == (total \div 3) * 3
  IN  /\ stage = "encode"
      /\ read <= Chunk /\ consumed + read <= size
      /\ consumed' = consumed + read
      /\ carry' = total - complete
      /\ input' = MoveToFront(AfterRead(read), complete, total)
      /\ WriteSlice(AfterRead(read), complete)
      /\ UNCHANGED stage
      /\ EncoderOnly

(* The read of length 0: what is carried is written as the last group.     *)
EncodeEnd ==
  /\ stage = "encode" /\ consumed = size
  /\ WriteSlice(input, carry)
  /\ stage' = "encoded"
  /\ UNCHANGED <<input, carry, consumed>>
  /\ EncoderOnly

-----------------------------------------------------------------------------
(* The decoder.                                                            *)

Chars == 4 * Groups(size) + rest

(* next_base64_chunk_end *)
NextChunkEnd(from) ==
  IF Chars - from <= StreamChars THEN Chars ELSE from + StreamChars

(* decode_base64_chunk decodes a chunk as if it were a text of its own: it *)
(* fails on an odd length, on invalid symbols and on padding, except in    *)
(* the last group of the chunk, be it the last of the text or not.         *)
Decodes(from, to) ==
  /\ (to - from) % 4 = 0
  /\ 4 * bad > from /\ 4 * bad <= to => padded > 0 /\ 4 * bad = to

(* The bytes that padding before the end takes from the first characters.  *)
Lost(to) == IF bad # 0 /\ 4 * bad <= to THEN padded ELSE 0

(* What the chunk stands for.  The bytes are numbered as they come out, so *)
(* that a text with padding inside stands for size - padded bytes.         *)
Decoded(from, to) ==
  Bytes(3 * (from \div 4) - Lost(from) + 1, Least(3 * (to \div 4), size) - Lost(to))

(* sha256_hex_base64, one chunk a step; only R2 needs the hash.            *)
HashChunk ==
  /\ stage = "hash"
  /\ IF offset >= Chars
       THEN /\ stage' = "announce" /\ offset' = 0
            /\ UNCHANGED hashed
       ELSE LET end == NextChunkEnd(offset)
            IN  \/ /\ ~Decodes(offset, end)
                   /\ stage' = "failed"
                   /\ UNCHANGED <<offset, hashed>>
                \/ /\ Decodes(offset, end)
                   /\ hashed' = hashed \o Decoded(offset, end)
                   /\ offset' = end
                   /\ UNCHANGED stage
  /\ UNCHANGED <<encoderVars, sourceVars, pending, pendingOffset, room, filled, delivered, announced>>

(* The padding at the end of the text: what it takes to fill the group.    *)
Padding == 3 * Groups(size) - size

(* Mutant: padding counts like data.                                       *)
DecodedLenPadded == (Chars \div 4) * 3

(* decoded_base64_len of a text whose length is a multiple of four: only   *)
(* the padding at its end is looked at.                                    *)
DecodedLen == IF Chars = 0 THEN 0 ELSE (Chars \div 4) * 3 - Padding

Announce ==
  /\ stage = "announce"
  /\ \/ rest # 0 /\ stage' = "failed" /\ UNCHANGED announced
     \/ rest = 0 /\ stage' = "poll" /\ announced' = DecodedLen
  /\ UNCHANGED <<encoderVars, sourceVars, readerVars, hashed>>

(* poll_read with a buffer of this size.                                   *)
PollRead(capacity) ==
  /\ stage = "poll"
  /\ stage' = "fill"
  /\ room' = capacity
  /\ filled' = FALSE
  /\ UNCHANGED <<encoderVars, sourceVars, offset, pending, pendingOffset, delivered, announced, hashed>>

(* What was decoded before is copied; the poll returns when some is left.  *)
CopyPending ==
  /\ stage = "fill" /\ room > 0
  /\ pendingOffset < Len(pending)
  /\ LET copied == Least(Len(pending) - pendingOffset, room)
         more == pendingOffset + copied < Len(pending)
     IN  /\ delivered' = delivered \o SubSeq(pending, pendingOffset + 1, pendingOffset + copied)
         /\ room' = room - copied
         /\ filled' = TRUE
         /\ stage' = IF more THEN "poll" ELSE "fill"
         /\ pending' = IF more THEN pending ELSE <<>>
         /\ pendingOffset' = IF more THEN pendingOffset + copied ELSE 0
  /\ UNCHANGED <<encoderVars, sourceVars, offset, announced, hashed>>

(* The next chunk is decoded, or the stream breaks off.                    *)
DecodeNext ==
  /\ stage = "fill" /\ room > 0
  /\ pendingOffset >= Len(pending)
  /\ offset < Chars
  /\ LET end == NextChunkEnd(offset)
     IN  \/ /\ ~Decodes(offset, end)
            /\ stage' = "failed"
            /\ UNCHANGED <<pending, offset>>
         \/ /\ Decodes(offset, end)
            /\ pending' = Decoded(offset, end)
            /\ offset' = end
            /\ UNCHANGED stage
  /\ UNCHANGED <<encoderVars, sourceVars, pendingOffset, room, filled, delivered, announced, hashed>>

(* The poll returns with a full buffer, or at the end of the text; a poll  *)
(* that returns nothing is the end of the stream for ReaderStream.         *)
PollReturns ==
  /\ stage = "fill"
  /\ room = 0 \/ (pendingOffset >= Len(pending) /\ offset >= Chars)
  /\ stage' = IF filled THEN "poll" ELSE "ended"
  /\ UNCHANGED <<encoderVars, sourceVars, readerVars, announced, hashed>>

-----------------------------------------------------------------------------
EncodeStep ==
  \/ EncodeInline \/ EncodeEnd
  \/ \E read \in 1 .. Chunk : ReadChunk(read)

DecodeStep ==
  \/ HashChunk \/ Announce
  \/ \E capacity \in 1 .. MaxRead : PollRead(capacity)
  \/ CopyPending \/ DecodeNext \/ PollReturns

-----------------------------------------------------------------------------
(* carry stays below a group: the read behind the carried bytes stays      *)
(* inside the buffer of Chunk + 2 bytes, whatever lengths were read.       *)
StreamTypeOK ==
  /\ stage \in {"encode", "encoded", "hash", "announce", "poll", "fill", "ended", "failed"}
  /\ size \in 0 .. MaxSize
  /\ input \in [0 .. Chunk + 1 -> Nat]
  /\ carry \in 0 .. 2
  /\ consumed \in 0 .. size
  /\ text \in Seq(Nat)
  /\ contentLength \in Nat
  /\ rest \in 0 .. 3
  /\ hashing \in BOOLEAN
  /\ bad \in 0 .. Groups(size)
  /\ padded \in 0 .. 2
  /\ offset \in Nat
  /\ pending \in Seq(Nat)
  /\ pendingOffset \in Nat
  /\ room \in 0 .. MaxRead
  /\ filled \in BOOLEAN
  /\ announced \in Nat
  /\ hashed \in Seq(Nat)
  /\ delivered \in Seq(Nat)

(* The base64 text of an image, by the definition of the encoding.         *)
Encoding(n) == [i \in 1 .. 3 * Groups(n) |-> IF i <= n THEN i ELSE Pad]

(* However a spilled image is cut up by the reads, the body holds its      *)
(* encoding, with no padding inside and no byte twice or out of place, and *)
(* content_length counts exactly what was written.                         *)
EncodedExactly ==
  /\ stage = "encoded" => text = Encoding(size)
  /\ 3 * contentLength = 4 * Len(text)

(* However the reader is polled, a stream that ends has delivered all that *)
(* the text stands for, the bytes that were hashed.  A text with an odd    *)
(* length or an invalid symbol never ends like a whole one.  Padding that  *)
(* happens to end an inner chunk is not noticed: such a text ends, but     *)
(* short of the length that was announced, which no good text does.        *)
DeliveredExactly ==
  stage = "ended" =>
    /\ delivered = Bytes(1, size - padded)
    /\ hashing => hashed = delivered
    /\ rest = 0 /\ (bad # 0 => padded > 0)
    /\ announced >= Len(delivered)
    /\ announced = Len(delivered) <=> bad = 0
=============================================================================
