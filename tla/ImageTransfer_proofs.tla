-------------------------- MODULE ImageTransfer_proofs --------------------------
(***************************************************************************)
(* Proofs about ImageTransfer, for images, chunks and buffers of any size. *)
(*                                                                         *)
(* The invariant has one part for each of the three machines: the download *)
(* (what has come in is within the limit and belongs to the image), the    *)
(* encoder (what was written are the first bytes, a multiple of three, and *)
(* the carried bytes are the next ones) and the decoder (what was          *)
(* delivered and what is pending are together what was decoded so far).    *)
(***************************************************************************)
EXTENDS ImageTransfer, SequenceTheorems, TLAPS

Downloads == {"none", "send", "body", "convert", "pause", "fetched", "failed"}

(* Nothing is written before the image is there.                           *)
NothingWritten == stage = "encode" /\ consumed = 0 /\ carry = 0 /\ text = <<>>

DownloadInv ==
  /\ download \in Downloads
  /\ attempt \in 0 .. 1 /\ (download = "pause" => attempt = 0)
  /\ framing \in {"unknown", "length", "chunked", "close"}
  /\ received \in 0 .. MaxSize /\ served \in 0 .. MaxSize /\ converted \in BOOLEAN
  /\ size \in 0 .. MaxSize
  /\ download \in {"send", "body", "pause"} => size = served /\ converted = FALSE
  /\ download \in {"send", "pause"} => received = 0
  /\ download = "body" => received <= size /\ received <= MaxImageBytes
  /\ download = "convert" => /\ size <= MaxImageBytes /\ size <= served /\ converted = FALSE
                             /\ framing # "close" => size = served
  /\ download = "fetched" => /\ size <= MaxImageBytes
                             /\ framing # "close" /\ converted = FALSE => size = served
                             /\ converted = TRUE => size < served

(* Who is at work: the encoder on an image that was fetched, or the        *)
(* decoder.                                                                *)
Phases ==
  /\ stage \in {"encode", "encoded", "hash", "announce", "poll", "fill", "ended", "failed"}
  /\ download = "none" <=> stage \notin {"encode", "encoded"}
  /\ download \notin {"none", "fetched"} => NothingWritten

EncoderInv ==
  /\ carry \in 0 .. 2 /\ consumed \in 0 .. size
  /\ input \in [0 .. Chunk + 1 -> Nat]
  /\ text \in Seq(Nat) /\ contentLength \in Nat
  /\ 3 * contentLength = 4 * Len(text)
  /\ stage = "encode" => /\ carry <= consumed
                         /\ Len(text) = consumed - carry
                         /\ Len(text) % 3 = 0
                         /\ \A i \in 1 .. Len(text) : text[i] = i
                         /\ \A i \in 0 .. carry - 1 : input[i] = Len(text) + i + 1
  /\ stage = "encoded" => text = Encoding(size)

(* Groups rounds up: the groups of n bytes hold at most two pads.          *)
LEMMA GroupsType == \A n \in Nat : Groups(n) \in Nat /\ 3 * Groups(n) >= n /\ 3 * Groups(n) <= n + 2
  BY DEF Groups

(* Nothing has come in and nothing was written.                            *)
LEMMA InitParts ==
  ASSUME Init
  PROVE  DownloadInv /\ Phases /\ EncoderInv
<1>1. size \in 0 .. MaxSize /\ size \in Nat
  BY BoundsAssumption DEF Init, StreamInit
<1>2. stage \in {"encode", "hash", "announce"} /\ download \in {"send", "none"}
      /\ (download = "none" <=> stage # "encode")
  BY DEF Init, StreamInit
<1>3. DownloadInv
  <2>1. /\ attempt = 0 /\ framing = "unknown" /\ received = 0 /\ served = size
        /\ converted = FALSE /\ converted \in BOOLEAN
    BY DEF Init
  <2>2. QED
    BY <1>1, <1>2, <2>1, BoundsAssumption DEF DownloadInv, Downloads
<1>4. Phases
  BY <1>2 DEF Init, StreamInit, Phases, NothingWritten
<1>5. EncoderInv
  <2>1. input \in [0 .. Chunk + 1 -> Nat] /\ text = <<>> /\ carry = 0 /\ consumed = 0
        /\ contentLength = 0
    BY DEF Init, StreamInit, Pad
  <2>2. text \in Seq(Nat) /\ Len(text) = 0
    BY <2>1
  <2>3. QED
    BY <1>1, <1>2, <2>1, <2>2 DEF EncoderInv
<1>6. QED
  BY <1>3, <1>4, <1>5

-----------------------------------------------------------------------------
(* The download.                                                           *)

(* A failed attempt: direct_fetch waits for the retry or has failed.       *)
LEMMA FailKeeps ==
  ASSUME DownloadInv, NEW retryable, Fail(retryable), download # "fetched",
         download = "send" \/ ~retryable
  PROVE  DownloadInv' /\ download' \notin {"none", "fetched"} /\ size' \in Nat
<1>1. CASE attempt = 0 /\ retryable
  BY <1>1, BoundsAssumption DEF DownloadInv, Downloads, Fail
<1>2. CASE ~(attempt = 0 /\ retryable)
  BY <1>2, BoundsAssumption DEF DownloadInv, Downloads, Fail
<1>3. QED
  BY <1>1, <1>2

(* Every step of the download keeps its invariant, and is taken before the *)
(* image is there.                                                         *)
LEMMA DownloadKeeps ==
  ASSUME DownloadInv, Phases, DownloadStep
  PROVE  /\ DownloadInv' /\ StreamElse
         /\ download \notin {"none", "fetched"} /\ download' # "none"
         /\ size' \in Nat
<1> USE BoundsAssumption, MaxImageBytesAssumption
<1>1. \A e \in {"too_large", "body", "total_timeout"} : ~Retryable(e)
  BY DEF Retryable
<1>2. StreamElse /\ download \notin {"none", "fetched"}
  BY DEF DownloadStep, SendFails, ResponseArrives, ReadBody, BodyFails, BodyEnds, Convert,
     TotalTimeout, Retry
<1> DEFINE Kept == DownloadInv' /\ download' # "none" /\ size' \in Nat
<1>3. ASSUME SendFails PROVE Kept
  <2>1. PICK e \in {"forbidden", "connect", "busy_status", "status"} : Fail(Retryable(e))
    BY <1>3 DEF SendFails
  <2>2. download = "send"
    BY <1>3 DEF SendFails
  <2>3. QED
    BY <2>1, <2>2, FailKeeps
<1>4. ASSUME ResponseArrives PROVE Kept
  <2>1. PICK f \in {"length", "chunked", "close"} :
          \/ /\ f = "length" /\ TooLarge(size)
             /\ Fail(Retryable("too_large"))
          \/ /\ f # "length" \/ ~TooLarge(size)
             /\ download' = "body"
             /\ framing' = f
             /\ UNCHANGED <<attempt, received, served, converted, size>>
    BY <1>4 DEF ResponseArrives
  <2>2. download = "send"
    BY <1>4 DEF ResponseArrives
  <2>3. CASE Fail(Retryable("too_large"))
    BY <2>2, <2>3, FailKeeps
  <2>4. CASE /\ download' = "body"
             /\ framing' = f
             /\ UNCHANGED <<attempt, received, served, converted, size>>
    BY <2>2, <2>4 DEF DownloadInv, Downloads
  <2>5. QED
    BY <2>1, <2>3, <2>4
<1>5. ASSUME \E n \in 1 .. MaxSize : ReadBody(n) PROVE Kept
  <2>1. PICK n \in 1 .. MaxSize : ReadBody(n)
    BY <1>5
  <2>2. CASE TooLarge(received + n)
    <3>1. Fail(Retryable("too_large")) /\ download = "body"
      BY <2>1, <2>2 DEF ReadBody
    <3>2. QED
      BY <1>1, <3>1, FailKeeps
  <2>3. CASE ~TooLarge(received + n)
    BY <2>1, <2>3 DEF ReadBody, TooLarge, DownloadInv, Downloads
  <2>4. QED
    BY <2>2, <2>3
<1>6. ASSUME BodyFails \/ TotalTimeout PROVE Kept
  <2>1. Fail(Retryable("body")) \/ Fail(Retryable("total_timeout"))
    BY <1>6 DEF BodyFails, TotalTimeout
  <2>2. QED
    BY <1>1, <1>2, <2>1, FailKeeps
<1>7. ASSUME BodyEnds PROVE Kept
  BY <1>7, OptimizeAssumption DEF BodyEnds, DownloadInv, Downloads
<1>8. ASSUME Convert PROVE Kept
  <2>1. CASE UNCHANGED <<size, converted>>
    BY <1>8, <2>1 DEF Convert, DownloadInv, Downloads
  <2>2. CASE size' \in ConvertedSizes(size) /\ converted' = TRUE
    <3>1. converted' = TRUE /\ converted' \in BOOLEAN /\ converted' # FALSE
      BY <2>2
    <3>2. size \in 0 .. MaxSize /\ size <= MaxImageBytes /\ size <= served /\ served \in 0 .. MaxSize
      BY <1>8 DEF Convert, DownloadInv
    <3>3. size' \in 0 .. MaxSize /\ size' <= MaxImageBytes /\ size' < served
      BY <2>2, <3>2 DEF ConvertedSizes
    <3>4. QED
      BY <1>8, <3>1, <3>2, <3>3 DEF Convert, DownloadInv, Downloads
  <2>3. QED
    BY <1>8, <2>1, <2>2 DEF Convert
<1>9. ASSUME Retry PROVE Kept
  BY <1>9 DEF Retry, DownloadInv, Downloads
<1>10. Kept
  BY <1>3, <1>4, <1>5, <1>6, <1>7, <1>8, <1>9 DEF DownloadStep
<1>11. QED
  BY <1>2, <1>10

(* The download runs while the encoder has nothing.                        *)
LEMMA DownloadParts ==
  ASSUME DownloadInv, Phases, EncoderInv, DownloadStep
  PROVE  DownloadInv' /\ Phases' /\ EncoderInv' /\ download # "none"
<1>1. /\ DownloadInv' /\ UNCHANGED <<stage, input, carry, consumed, text, contentLength>>
      /\ download \notin {"none", "fetched"} /\ download' # "none" /\ size' \in Nat
  BY DownloadKeeps DEF StreamElse, encoderVars
<1>2. NothingWritten
  BY <1>1 DEF Phases
<1>3. Phases'
  BY <1>1, <1>2 DEF Phases, NothingWritten
<1>4. EncoderInv'
  BY <1>1, <1>2 DEF EncoderInv, NothingWritten
<1>5. QED
  BY <1>1, <1>3, <1>4

-----------------------------------------------------------------------------
(* The encoder.                                                            *)

(* What is appended to a sequence comes behind it.                         *)
LEMMA Appended ==
  ASSUME NEW s \in Seq(Nat), NEW t \in Seq(Nat)
  PROVE  /\ s \o t \in Seq(Nat)
         /\ Len(s \o t) = Len(s) + Len(t)
         /\ \A i \in 1 .. Len(s) : (s \o t)[i] = s[i]
         /\ \A i \in 1 .. Len(t) : (s \o t)[Len(s) + i] = t[i]
  OBVIOUS

(* An encoded slice is a sequence of whole groups.                         *)
LEMMA Slice ==
  ASSUME NEW n \in Nat, NEW buffer, \A i \in 0 .. n - 1 : buffer[i] \in Nat
  PROVE  /\ EncodeSlice(buffer, n) \in Seq(Nat)
         /\ Len(EncodeSlice(buffer, n)) = 3 * Groups(n)
         /\ \A i \in 1 .. 3 * Groups(n) :
              EncodeSlice(buffer, n)[i] = IF i <= n THEN buffer[i - 1] ELSE Pad
<1>1. 3 * Groups(n) \in Nat
  BY GroupsType
<1>2. \A i \in 1 .. 3 * Groups(n) : (IF i <= n THEN buffer[i - 1] ELSE Pad) \in Nat
  <2>1. TAKE i \in 1 .. 3 * Groups(n)
  <2>2. CASE i <= n
    BY <1>1, <2>2
  <2>3. CASE ~(i <= n)
    BY <2>3 DEF Pad
  <2>4. QED
    BY <2>2, <2>3
<1>3. QED
  BY <1>1, <1>2 DEF EncodeSlice

(* A slice of whole groups has no padding, and leaves whole groups.        *)
LEMMA WholeGroups == \A k \in Nat : Groups(3 * k) = k
  BY DEF Groups

(* More groups of three are still groups of three.                         *)
LEMMA StillWhole == \A n \in Nat, k \in Nat : n % 3 = 0 => (n + 3 * k) % 3 = 0
  OBVIOUS

(* A blob in memory is written as one slice.                               *)
LEMMA EncodeInlineKeeps ==
  ASSUME EncoderInv, size \in Nat, EncodeInline
  PROVE  EncoderInv'
<1> DEFINE buffer == [i \in 0 .. size - 1 |-> i + 1]
<1> DEFINE slice == EncodeSlice(buffer, size)
<1>1. text = <<>> /\ contentLength = 0 /\ carry = 0
  <2>1. Len(text) = 0 /\ carry = 0
    BY DEF EncodeInline, EncoderInv
  <2>2. QED
    BY <2>1 DEF EncoderInv
<1>2. \A i \in 0 .. size - 1 : buffer[i] = i + 1 /\ buffer[i] \in Nat
  OBVIOUS
<1> HIDE DEF buffer
<1>3. /\ slice \in Seq(Nat)
      /\ Len(slice) = 3 * Groups(size)
      /\ \A i \in 1 .. 3 * Groups(size) : slice[i] = IF i <= size THEN buffer[i - 1] ELSE Pad
  BY <1>2, Slice
<1>4. \A i \in 1 .. 3 * Groups(size) : slice[i] = IF i <= size THEN i ELSE Pad
  <2>1. TAKE i \in 1 .. 3 * Groups(size)
  <2>2. Groups(size) \in Nat
    BY GroupsType
  <2>3. CASE i <= size
    <3>1. i - 1 \in 0 .. size - 1
      BY <2>2, <2>3
    <3>2. buffer[i - 1] = i
      BY <1>2, <2>2, <3>1
    <3>3. QED
      BY <1>3, <2>3, <3>2
  <2>4. CASE ~(i <= size)
    BY <1>3, <2>4
  <2>5. QED
    BY <2>3, <2>4
<1>5. text' = text \o slice /\ contentLength' = contentLength + 4 * Groups(size)
      /\ stage' = "encoded" /\ consumed' = size /\ size' = size /\ input' = input /\ carry' = carry
  BY DEF EncodeInline, WriteSlice, EncoderOnly, sourceVars, buffer
<1> HIDE DEF slice
<1>6. text' = slice
  BY <1>1, <1>3, <1>5
<1>7. slice = Encoding(size)
  BY <1>3, <1>4, GroupsType DEF Encoding
<1>8. QED
  BY <1>1, <1>3, <1>5, <1>6, <1>7, GroupsType DEF EncoderInv, Encoding, Groups

(* Behind the carried bytes come the ones that were read: the buffer       *)
(* continues what was written.                                             *)
LEMMA BufferContinues ==
  ASSUME EncoderInv, NEW read \in 1 .. Chunk, stage = "encode"
  PROVE  \A i \in 0 .. carry + read - 1 : AfterRead(read)[i] = Len(text) + i + 1
<1>1. Len(text) \in Nat /\ carry \in 0 .. 2 /\ Len(text) = consumed - carry /\ consumed \in Int
  BY DEF EncoderInv
<1>2. TAKE i \in 0 .. carry + read - 1
<1>3. i \in 0 .. Chunk + 1
  BY <1>1, ChunkAssumption
<1>4. CASE i \in carry .. carry + read - 1
  BY <1>1, <1>3, <1>4 DEF AfterRead
<1>5. CASE i \notin carry .. carry + read - 1
  <2>1. i \in 0 .. carry - 1
    BY <1>1, <1>5
  <2>2. AfterRead(read)[i] = input[i]
    BY <1>3, <1>5 DEF AfterRead
  <2>3. QED
    BY <2>1, <2>2 DEF EncoderInv
<1>6. QED
  BY <1>4, <1>5

(* A chunk: the whole groups are written, the rest moves to the front.     *)
LEMMA ReadChunkKeeps ==
  ASSUME EncoderInv, size \in Nat, NEW read \in 1 .. Chunk, ReadChunk(read)
  PROVE  EncoderInv' /\ stage' = stage
<1> DEFINE k == (carry + read) \div 3
<1> DEFINE total == carry + read
<1> DEFINE complete == (total \div 3) * 3
<1> DEFINE buffer == AfterRead(read)
<1> DEFINE slice == EncodeSlice(buffer, complete)
<1>1. /\ carry \in 0 .. 2 /\ carry <= consumed /\ consumed \in 0 .. size /\ text \in Seq(Nat)
      /\ Len(text) \in Nat /\ Len(text) = consumed - carry /\ Len(text) % 3 = 0
      /\ contentLength \in Nat /\ 3 * contentLength = 4 * Len(text)
      /\ input \in [0 .. Chunk + 1 -> Nat] /\ \A i \in 1 .. Len(text) : text[i] = i
  BY DEF EncoderInv, ReadChunk
<1>2. stage = "encode" /\ read \in Nat /\ consumed + read <= size
  BY ChunkAssumption DEF ReadChunk
<1>3. k \in Nat /\ complete = 3 * k /\ complete \in Nat /\ complete <= total /\ total <= complete + 2
      /\ total \in Nat /\ total <= Chunk + 2
  BY <1>1, <1>2, ChunkAssumption
<1>4. \A i \in 0 .. total - 1 : buffer[i] = Len(text) + i + 1
  <2>1. \A i \in 0 .. carry + read - 1 : AfterRead(read)[i] = Len(text) + i + 1
    <3> HIDE DEF total, complete, k, buffer, slice
    <3>1. QED
      BY <1>2, BufferContinues
  <2>2. QED
    BY <1>1, <1>2, <2>1
<1>5. /\ consumed' = consumed + read /\ carry' = total - complete
      /\ input' = MoveToFront(buffer, complete, total)
      /\ text' = text \o EncodeSlice(buffer, complete)
      /\ contentLength' = contentLength + 4 * Groups(complete)
      /\ stage' = stage /\ size' = size
  BY DEF ReadChunk, WriteSlice, EncoderOnly, sourceVars
<1>6. buffer \in [0 .. Chunk + 1 -> Nat]
  BY <1>1, <1>2 DEF AfterRead
<1> HIDE DEF k, complete, total, buffer
<1>7. Groups(complete) = k
  BY <1>3, WholeGroups
<1>8. /\ slice \in Seq(Nat) /\ Len(slice) = complete
      /\ \A i \in 1 .. complete : slice[i] = Len(text) + i
  <2>1. \A i \in 0 .. complete - 1 : buffer[i] = Len(text) + i + 1 /\ buffer[i] \in Nat
    BY <1>1, <1>3, <1>4
  <2>2. /\ slice \in Seq(Nat) /\ Len(slice) = 3 * k
        /\ \A i \in 1 .. 3 * k : slice[i] = IF i <= complete THEN buffer[i - 1] ELSE Pad
    <3>1. \A i \in 0 .. complete - 1 : buffer[i] \in Nat
      BY <2>1
    <3>2. /\ slice \in Seq(Nat) /\ Len(slice) = 3 * Groups(complete)
          /\ \A i \in 1 .. 3 * Groups(complete) :
               slice[i] = IF i <= complete THEN buffer[i - 1] ELSE Pad
      BY <1>3, <3>1, Slice
    <3>3. QED
      BY <1>7, <3>2
  <2>3. \A i \in 1 .. complete : slice[i] = Len(text) + i
    <3>1. TAKE i \in 1 .. complete
    <3>2. i - 1 \in 0 .. complete - 1 /\ i \in 1 .. 3 * k /\ i <= complete
      BY <1>3
    <3>3. slice[i] = buffer[i - 1]
      BY <2>2, <3>2
    <3>4. buffer[i - 1] = Len(text) + (i - 1) + 1
      BY <2>1, <3>2
    <3>5. QED
      BY <1>1, <1>3, <3>3, <3>4
  <2>4. QED
    BY <1>3, <2>2, <2>3
<1> HIDE DEF slice
<1>9. text' = text \o slice
  BY <1>5 DEF slice
<1>10. /\ text' \in Seq(Nat) /\ Len(text') = Len(text) + complete
       /\ \A i \in 1 .. Len(text') : text'[i] = i
  <2>1. /\ text' \in Seq(Nat) /\ Len(text') = Len(text) + complete
        /\ \A i \in 1 .. Len(text) : text'[i] = i
        /\ \A i \in 1 .. complete : text'[Len(text) + i] = Len(text) + i
    BY <1>1, <1>8, <1>9, Appended
  <2>2. \A i \in 1 .. Len(text') : text'[i] = i
    <3>1. TAKE i \in 1 .. Len(text')
    <3>2. CASE i \in 1 .. Len(text)
      BY <2>1, <3>2
    <3>3. CASE i \notin 1 .. Len(text)
      <4>1. i - Len(text) \in 1 .. complete /\ i = Len(text) + (i - Len(text))
        BY <1>1, <1>3, <2>1, <3>3
      <4>2. QED
        BY <2>1, <4>1
    <3>4. QED
      BY <3>2, <3>3
  <2>3. QED
    BY <2>1, <2>2
<1>11. /\ input' \in [0 .. Chunk + 1 -> Nat]
       /\ \A i \in 0 .. carry' - 1 : input'[i] = Len(text') + i + 1
  <2>1. input' = [i \in 0 .. Chunk + 1 |->
                    IF i < total - complete THEN buffer[complete + i] ELSE buffer[i]]
    BY <1>5 DEF MoveToFront
  <2>2. \A i \in 0 .. total - complete - 1 :
          /\ complete + i \in 0 .. total - 1 /\ complete + i \in 0 .. Chunk + 1
          /\ i \in 0 .. Chunk + 1
    BY <1>3, ChunkAssumption
  <2>3. input' \in [0 .. Chunk + 1 -> Nat]
    <3>1. \A i \in 0 .. Chunk + 1 :
            (IF i < total - complete THEN buffer[complete + i] ELSE buffer[i]) \in Nat
      BY <1>3, <1>6, ChunkAssumption
    <3>2. QED
      BY <2>1, <3>1
  <2>4. \A i \in 0 .. carry' - 1 : input'[i] = Len(text') + i + 1
    <3>1. TAKE i \in 0 .. carry' - 1
    <3>2. i \in 0 .. total - complete - 1 /\ i \in Nat
      BY <1>3, <1>5
    <3>3. input'[i] = buffer[complete + i]
      BY <1>3, <2>1, <2>2, <3>2
    <3>4. buffer[complete + i] = Len(text) + (complete + i) + 1
      BY <1>4, <2>2, <3>2
    <3>5. QED
      BY <1>1, <1>3, <1>10, <3>2, <3>3, <3>4
  <2>5. QED
    BY <2>3, <2>4
<1>12. Len(text') % 3 = 0 /\ Len(text') = consumed' - carry' /\ carry' <= consumed' /\ carry' \in 0 .. 2
  <2>1. Len(text') = Len(text) + 3 * k
    BY <1>3, <1>10
  <2>2. Len(text') % 3 = 0
    BY <1>1, <1>3, <2>1, StillWhole
  <2>3. /\ total = carry + read /\ carry \in Nat /\ read \in Nat /\ consumed \in Nat
        /\ complete \in Nat /\ complete <= total /\ total <= complete + 2
        /\ Len(text) \in Nat /\ Len(text) = consumed - carry
    BY <1>1, <1>2, <1>3 DEF total
  <2>4. Len(text') = Len(text) + complete /\ consumed' = consumed + read /\ carry' = total - complete
    BY <1>5, <1>10
  <2>5. QED
    BY <2>2, <2>3, <2>4
<1>13. consumed' \in 0 .. size' /\ contentLength' \in Nat /\ 3 * contentLength' = 4 * Len(text')
  <2>1. contentLength' = contentLength + 4 * k /\ Len(text') = Len(text) + 3 * k
    BY <1>3, <1>5, <1>7, <1>10
  <2>2. /\ contentLength \in Nat /\ 3 * contentLength = 4 * Len(text) /\ k \in Nat
        /\ Len(text) \in Nat /\ consumed \in Nat /\ read \in Nat /\ consumed + read <= size
    BY <1>1, <1>2, <1>3
  <2>3. consumed' = consumed + read /\ size' = size
    BY <1>5
  <2>4. QED
    BY <2>1, <2>2, <2>3
<1>14. QED
  BY <1>2, <1>5, <1>10, <1>11, <1>12, <1>13 DEF EncoderInv

(* Whole groups and what follows are grouped like one.                     *)
LEMMA GroupsBehind ==
  \A n \in Nat, c \in 0 .. 2 : n % 3 = 0 => 3 * Groups(n + c) = n + 3 * Groups(c)
  BY DEF Groups

(* The end: the carried bytes are the last group.                          *)
LEMMA EncodeEndKeeps ==
  ASSUME EncoderInv, size \in Nat, EncodeEnd
  PROVE  EncoderInv'
<1> DEFINE slice == EncodeSlice(input, carry)
<1>1. /\ carry \in 0 .. 2 /\ carry \in Nat /\ text \in Seq(Nat)
      /\ Len(text) \in Nat /\ size = Len(text) + carry
      /\ contentLength \in Nat /\ 3 * contentLength = 4 * Len(text)
  BY DEF EncoderInv, EncodeEnd
<1>2. /\ \A i \in 1 .. Len(text) : text[i] = i
      /\ \A i \in 0 .. carry - 1 : input[i] = Len(text) + i + 1
  BY DEF EncoderInv, EncodeEnd
<1>3. /\ text' = text \o slice /\ contentLength' = contentLength + 4 * Groups(carry)
      /\ stage' = "encoded" /\ size' = size
      /\ UNCHANGED <<input, carry, consumed>>
  BY DEF EncodeEnd, WriteSlice, EncoderOnly, sourceVars
<1>4. Groups(carry) \in Nat /\ Groups(size) \in Nat /\ 3 * Groups(size) = Len(text) + 3 * Groups(carry)
  <2>1. Len(text) % 3 = 0
    BY DEF EncoderInv, EncodeEnd
  <2>2. QED
    BY <1>1, <2>1, GroupsType, GroupsBehind
<1>5. /\ slice \in Seq(Nat) /\ Len(slice) = 3 * Groups(carry)
      /\ \A i \in 1 .. 3 * Groups(carry) : slice[i] = IF i <= carry THEN input[i - 1] ELSE Pad
  <2>1. \A i \in 0 .. carry - 1 : input[i] \in Nat
    BY <1>1, <1>2
  <2>2. QED
    BY <1>1, <2>1, Slice
<1> HIDE DEF slice
<1>6. /\ text' \in Seq(Nat) /\ Len(text') = 3 * Groups(size)
      /\ \A i \in 1 .. Len(text) : text'[i] = text[i]
      /\ \A i \in 1 .. 3 * Groups(carry) : text'[Len(text) + i] = slice[i]
  <2>1. /\ text' \in Seq(Nat) /\ Len(text') = Len(text) + Len(slice)
        /\ \A i \in 1 .. Len(text) : text'[i] = text[i]
        /\ \A i \in 1 .. Len(slice) : text'[Len(text) + i] = slice[i]
    BY <1>1, <1>3, <1>5, Appended
  <2>2. QED
    BY <1>4, <1>5, <2>1
<1>7. \A i \in 1 .. 3 * Groups(size) : text'[i] = IF i <= size THEN i ELSE Pad
  <2>1. TAKE i \in 1 .. 3 * Groups(size)
  <2>2. CASE i <= Len(text)
    <3>1. i \in 1 .. Len(text) /\ i <= size
      BY <1>1, <1>4, <2>2
    <3>2. QED
      BY <1>2, <1>6, <3>1
  <2>3. CASE ~(i <= Len(text))
    <3> DEFINE j == i - Len(text)
    <3>1. j \in 1 .. 3 * Groups(carry) /\ i = Len(text) + j /\ (i <= size <=> j <= carry)
      BY <1>1, <1>4, <2>3
    <3> HIDE DEF j
    <3>2. text'[i] = IF j <= carry THEN input[j - 1] ELSE Pad
      BY <1>5, <1>6, <3>1
    <3>3. CASE j <= carry
      <4>1. j - 1 \in 0 .. carry - 1 /\ j \in Nat
        BY <1>1, <1>4, <3>1, <3>3
      <4>2. input[j - 1] = Len(text) + (j - 1) + 1
        BY <1>2, <4>1
      <4>3. input[j - 1] = i
        BY <1>1, <3>1, <4>1, <4>2
      <4>4. QED
        BY <3>1, <3>2, <3>3, <4>3
    <3>4. CASE ~(j <= carry)
      BY <3>1, <3>2, <3>4
    <3>5. QED
      BY <3>3, <3>4
  <2>4. QED
    BY <2>2, <2>3
<1>8. text' = Encoding(size)
  BY <1>4, <1>6, <1>7 DEF Encoding
<1>9. contentLength' \in Nat /\ 3 * contentLength' = 4 * Len(text')
  <2>1. contentLength' = contentLength + 4 * Groups(carry) /\ Len(text') = Len(text) + 3 * Groups(carry)
    BY <1>3, <1>4, <1>6
  <2>2. contentLength \in Nat /\ 3 * contentLength = 4 * Len(text) /\ Groups(carry) \in Nat
        /\ Len(text) \in Nat
    BY <1>1, <1>4
  <2>3. QED
    BY <2>1, <2>2
<1>10. QED
  BY <1>3, <1>6, <1>8, <1>9 DEF EncoderInv, Encoding, Groups

(* The encoder works on an image that was fetched, and leaves it alone.    *)
LEMMA WriteParts ==
  ASSUME DownloadInv, Phases, EncoderInv, WriteImage
  PROVE  DownloadInv' /\ Phases' /\ EncoderInv'
<1>1. size \in Nat
  BY BoundsAssumption DEF DownloadInv
<1>2. CASE EncodeInline
  <2>1. EncoderInv'
    BY <1>1, <1>2, EncodeInlineKeeps
  <2>2. stage' = "encoded" /\ UNCHANGED <<size, downloadVars>> /\ download = "fetched"
    BY <1>2 DEF EncodeInline, WriteImage, EncoderOnly, sourceVars
  <2>3. QED
    BY <2>1, <2>2 DEF DownloadInv, Phases, downloadVars
<1>3. CASE EncodeEnd
  <2>1. EncoderInv'
    BY <1>1, <1>3, EncodeEndKeeps
  <2>2. stage' = "encoded" /\ UNCHANGED <<size, downloadVars>> /\ download = "fetched"
    BY <1>3 DEF EncodeEnd, WriteImage, EncoderOnly, sourceVars
  <2>3. QED
    BY <2>1, <2>2 DEF DownloadInv, Phases, downloadVars
<1>4. CASE \E read \in 1 .. Chunk : ReadChunk(read)
  <2>1. PICK read \in 1 .. Chunk : ReadChunk(read)
    BY <1>4
  <2>2. EncoderInv'
    BY <1>1, <2>1, ReadChunkKeeps
  <2>3. stage' = stage /\ stage = "encode" /\ UNCHANGED <<size, downloadVars>> /\ download = "fetched"
    BY <2>1 DEF ReadChunk, WriteImage, EncoderOnly, sourceVars
  <2>4. QED
    BY <2>2, <2>3 DEF DownloadInv, Phases, downloadVars
<1>5. QED
  BY <1>2, <1>3, <1>4 DEF WriteImage, EncodeStep

(* The decoder touches neither the download nor the encoder.               *)
LEMMA SendParts ==
  ASSUME DownloadInv, Phases, EncoderInv, SendImage
  PROVE  DownloadInv' /\ Phases' /\ EncoderInv'
<1>1. /\ UNCHANGED <<encoderVars, sourceVars, downloadVars>>
      /\ stage \in {"hash", "announce", "poll", "fill"}
      /\ stage' \in {"hash", "announce", "poll", "fill", "ended", "failed"}
  BY DEF SendImage, DecodeStep, HashChunk, Announce, PollRead, CopyPending, DecodeNext,
     PollReturns, readerVars
<1>2. DownloadInv'
  BY <1>1 DEF DownloadInv, downloadVars, sourceVars
<1>3. Phases'
  BY <1>1 DEF Phases, downloadVars
<1>4. EncoderInv'
  BY <1>1 DEF EncoderInv, encoderVars, sourceVars
<1>5. QED
  BY <1>2, <1>3, <1>4

-----------------------------------------------------------------------------
(* The decoder.                                                            *)

(* The bytes that the characters up to an offset stand for.                *)
DecodedTo(to) == Least(3 * (to \div 4), size) - Lost(to)

(* Padding before the end of the text is in a group before the last.       *)
PaddingInside == bad \in Nat /\ padded \in 0 .. 2 /\ (padded > 0 => bad > 0 /\ size > 3 * bad)

SourceInv ==
  /\ rest \in 0 .. 3 /\ hashing \in BOOLEAN /\ bad \in 0 .. Groups(size)
  /\ PaddingInside
  /\ stage \in {"encode", "encoded"} => bad = 0
  /\ room \in 0 .. MaxRead /\ filled \in BOOLEAN /\ announced \in Nat

ReaderTypes ==
  /\ offset \in Nat /\ pending \in Seq(Nat) /\ pendingOffset \in Nat
  /\ hashed \in Seq(Nat) /\ delivered \in Seq(Nat)

(* The chunks so far were whole groups, none with an invalid symbol.       *)
Progress == offset % 4 = 0 /\ offset <= Chars /\ (bad = 0 \/ 4 * bad > offset \/ padded > 0)

HashInv ==
  stage \in {"hash", "announce"} =>
    /\ Progress
    /\ pending = <<>> /\ pendingOffset = 0 /\ delivered = <<>>
    /\ stage = "hash" => hashed = Bytes(1, DecodedTo(offset))
    /\ stage = "announce" => offset = 0 /\ (hashing => hashed = Bytes(1, size - padded))

(* What is pending comes right behind what was delivered, and both are     *)
(* what the chunks so far stand for; a poll that has put nothing into its  *)
(* buffer has room.                                                        *)
ReaderInv ==
  stage \in {"poll", "fill", "ended"} =>
    /\ Progress
    /\ rest = 0 /\ announced = size /\ (hashing => hashed = Bytes(1, size - padded))
    /\ pendingOffset = 0 \/ pendingOffset < Len(pending)
    /\ Len(pending) <= DecodedTo(offset)
    /\ pending = Bytes(DecodedTo(offset) - Len(pending) + 1, DecodedTo(offset))
    /\ delivered = Bytes(1, DecodedTo(offset) - (Len(pending) - pendingOffset))
    /\ stage = "fill" /\ ~filled => room > 0
    /\ stage = "ended" => pendingOffset >= Len(pending) /\ offset >= Chars

DecoderInv == SourceInv /\ ReaderTypes /\ HashInv /\ ReaderInv

(* The bytes up to a position, as a sequence.                              *)
LEMMA FirstBytes ==
  ASSUME NEW b \in Nat
  PROVE  Bytes(1, b) \in Seq(Nat) /\ Len(Bytes(1, b)) = b /\ \A i \in 1 .. b : Bytes(1, b)[i] = i
  BY DEF Bytes

(* The bytes from one position to another, as a sequence.                  *)
LEMMA NextBytes ==
  ASSUME NEW b \in Nat, NEW c \in Nat, b <= c
  PROVE  /\ Bytes(b + 1, c) \in Seq(Nat) /\ Len(Bytes(b + 1, c)) = c - b
         /\ \A i \in 1 .. c - b : Bytes(b + 1, c)[i] = b + i
  BY DEF Bytes

(* Bytes are put behind bytes without a gap.                               *)
LEMMA BytesJoin ==
  ASSUME NEW b \in Nat, NEW c \in Nat, b <= c
  PROVE  Bytes(1, b) \o Bytes(b + 1, c) = Bytes(1, c)
<1> DEFINE s == Bytes(1, b)
<1> DEFINE t == Bytes(b + 1, c)
<1> DEFINE u == Bytes(1, c)
<1> HIDE DEF s, t, u
<1>1. s \in Seq(Nat) /\ Len(s) = b /\ \A i \in 1 .. b : s[i] = i
  BY FirstBytes DEF s
<1>2. t \in Seq(Nat) /\ Len(t) = c - b /\ \A i \in 1 .. c - b : t[i] = b + i
  BY NextBytes DEF t
<1>3. u \in Seq(Nat) /\ Len(u) = c /\ \A i \in 1 .. c : u[i] = i
  BY FirstBytes DEF u
<1>4. /\ s \o t \in Seq(Nat) /\ Len(s \o t) = c
      /\ \A i \in 1 .. b : (s \o t)[i] = i
      /\ \A i \in 1 .. c - b : (s \o t)[b + i] = b + i
  <2>1. /\ s \o t \in Seq(Nat) /\ Len(s \o t) = Len(s) + Len(t)
        /\ \A i \in 1 .. Len(s) : (s \o t)[i] = s[i]
        /\ \A i \in 1 .. Len(t) : (s \o t)[Len(s) + i] = t[i]
    BY <1>1, <1>2, Appended
  <2> DEFINE st == s \o t
  <2> HIDE DEF st
  <2>2. /\ st \in Seq(Nat) /\ Len(st) = Len(s) + Len(t)
        /\ \A i \in 1 .. Len(s) : st[i] = s[i]
        /\ \A i \in 1 .. Len(t) : st[Len(s) + i] = t[i]
    BY <2>1, Zenon DEF st
  <2>3. /\ st \in Seq(Nat) /\ Len(st) = c
        /\ \A i \in 1 .. b : st[i] = i
        /\ \A i \in 1 .. c - b : st[b + i] = b + i
    <3>1. /\ st \in Seq(Nat) /\ Len(st) = b + (c - b)
          /\ \A i \in 1 .. b : st[i] = s[i]
          /\ \A i \in 1 .. c - b : st[b + i] = t[i]
      BY <1>1, <1>2, <2>2, Zenon
    <3>2. b + (c - b) = c
      OBVIOUS
    <3>3. QED
      BY <1>1, <1>2, <3>1, <3>2, Zenon
  <2>4. QED
    BY <2>3, Zenon DEF st
<1>5. \A i \in 1 .. c : (s \o t)[i] = u[i]
  <2>1. TAKE i \in 1 .. c
  <2>2. CASE i <= b
    BY <1>3, <1>4, <2>2
  <2>3. CASE ~(i <= b)
    <3>1. i - b \in 1 .. c - b /\ b + (i - b) = i
      BY <2>3
    <3>2. QED
      BY <1>3, <1>4, <3>1
  <2>4. QED
    BY <2>2, <2>3
<1>6. s \o t = u
  BY <1>3, <1>4, <1>5
<1>7. QED
  BY <1>6 DEF s, t, u

(* A part of them is again bytes between two positions.                    *)
PartOfBytes(b, c, i, j) == SubSeq(Bytes(b + 1, c), i + 1, j) = Bytes((b + i) + 1, b + j)

(* It is, for every part.                                                  *)
LEMMA BytesPart ==
  ASSUME NEW b \in Nat, NEW c \in Nat, b <= c, NEW i \in Nat, NEW j \in Nat, i <= j, j <= c - b
  PROVE  PartOfBytes(b, c, i, j)
<1> DEFINE s == Bytes(b + 1, c)
<1> DEFINE t == SubSeq(s, i + 1, j)
<1> DEFINE u == Bytes((b + i) + 1, b + j)
<1> HIDE DEF s, t, u
<1>1. s \in Seq(Nat) /\ Len(s) = c - b /\ \A x \in 1 .. c - b : s[x] = b + x
  BY NextBytes DEF s
<1>2. u \in Seq(Nat) /\ Len(u) = j - i /\ \A x \in 1 .. j - i : u[x] = (b + i) + x
  <2>1. /\ u \in Seq(Nat) /\ Len(u) = (b + j) - (b + i)
        /\ \A x \in 1 .. (b + j) - (b + i) : u[x] = (b + i) + x
    <3>1. b + i \in Nat /\ b + j \in Nat /\ b + i <= b + j
      OBVIOUS
    <3>2. QED
      BY <3>1, NextBytes, Zenon DEF u
  <2>2. (b + j) - (b + i) = j - i
    OBVIOUS
  <2>3. QED
    BY <2>1, <2>2
<1>3. t \in Seq(Nat) /\ Len(t) = j - i /\ \A x \in 1 .. j - i : t[x] = s[i + x]
  <2>1. \A x \in i + 1 .. j : s[x] \in Nat
    BY <1>1
  <2>2. /\ t \in Seq(Nat) /\ Len(t) = (IF i + 1 <= j THEN j - (i + 1) + 1 ELSE 0)
        /\ \A x \in 1 .. j - (i + 1) + 1 : t[x] = s[(i + 1) + x - 1]
    BY <2>1, SubSeqProperties DEF t
  <2>3. j - (i + 1) + 1 = j - i /\ \A x \in 1 .. j - i : (i + 1) + x - 1 = i + x
    OBVIOUS
  <2>4. QED
    BY <2>2, <2>3
<1>4. \A x \in 1 .. j - i : t[x] = u[x]
  BY <1>1, <1>2, <1>3
<1>5. t = u
  BY <1>2, <1>3, <1>4
<1>6. QED
  BY <1>5 DEF s, t, u, PartOfBytes

(* The whole text stands for the whole image, less what padding inside     *)
(* takes away, and its beginning for no more.                              *)
LEMMA DecodedBounds ==
  ASSUME size \in Nat, PaddingInside
  PROVE  /\ \A o \in Nat : DecodedTo(o) \in Nat
         /\ DecodedTo(0) = 0
         /\ \A o \in Nat : o % 4 = 0 /\ o >= 4 * Groups(size) => DecodedTo(o) = size - padded
<1>1. bad \in Nat /\ padded \in 0 .. 2 /\ (padded > 0 => bad > 0 /\ size > 3 * bad)
  BY DEF PaddingInside
<1>2. ASSUME NEW o \in Nat PROVE DecodedTo(o) \in Nat
  <2>1. o \div 4 \in Nat /\ Least(3 * (o \div 4), size) \in Nat
    BY DEF Least
  <2>2. CASE bad # 0 /\ 4 * bad <= o
    <3>1. o \div 4 >= bad
      BY <1>1, <1>2, <2>2
    <3>2. Least(3 * (o \div 4), size) >= padded
      BY <1>1, <2>1, <2>2, <3>1 DEF Least
    <3>3. QED
      BY <1>1, <2>1, <2>2, <3>2 DEF DecodedTo, Lost
  <2>3. CASE ~(bad # 0 /\ 4 * bad <= o)
    BY <2>1, <2>3 DEF DecodedTo, Lost
  <2>4. QED
    BY <2>2, <2>3
<1>3. DecodedTo(0) = 0
  <2>1. Lost(0) = 0
    BY <1>1 DEF Lost
  <2>2. QED
    BY <2>1 DEF DecodedTo, Least
<1>4. ASSUME NEW o \in Nat, o % 4 = 0, o >= 4 * Groups(size)
      PROVE  DecodedTo(o) = size - padded
  <2>1. Groups(size) \in Nat /\ 3 * Groups(size) >= size
    BY GroupsType
  <2>2. o \div 4 \in Nat /\ o \div 4 >= Groups(size)
    BY <1>4, <2>1
  <2>3. Least(3 * (o \div 4), size) = size
    BY <2>1, <2>2 DEF Least
  <2>4. Lost(o) = padded
    <3>1. CASE padded = 0
      BY <3>1 DEF Lost
    <3>2. CASE padded # 0
      <4>1. bad > 0 /\ 3 * bad <= 3 * Groups(size)
        BY <1>1, <2>1, <3>2
      <4>2. QED
        BY <1>1, <1>4, <2>1, <4>1 DEF Lost
    <3>3. QED
      BY <3>1, <3>2
  <2>5. QED
    BY <2>3, <2>4 DEF DecodedTo
<1>5. QED
  BY <1>2, <1>3, <1>4

(* A chunk that starts with a group and can be decoded ends with one, and  *)
(* stands for the bytes behind the ones before it.                         *)
LEMMA ChunkDecodes ==
  ASSUME size \in Nat, rest \in 0 .. 3, PaddingInside, offset \in Nat, Progress, offset < Chars,
         Decodes(offset, NextChunkEnd(offset))
  PROVE  LET end == NextChunkEnd(offset)
         IN  /\ end \in Nat /\ end % 4 = 0 /\ end <= Chars
             /\ bad = 0 \/ 4 * bad > end \/ padded > 0
             /\ DecodedTo(offset) <= DecodedTo(end)
             /\ Decoded(offset, end) = Bytes(DecodedTo(offset) + 1, DecodedTo(end))
<1> DEFINE end == NextChunkEnd(offset)
<1>1. Groups(size) \in Nat /\ 3 * Groups(size) <= size + 2
  BY GroupsType
<1>2. Chars \in Nat /\ Chars = 4 * Groups(size) + rest
  BY <1>1 DEF Chars
<1>3. end \in Nat /\ offset < end /\ end <= Chars
  BY <1>2, StreamCharsAssumption DEF NextChunkEnd
<1>4. (end - offset) % 4 = 0 /\ (4 * bad > offset /\ 4 * bad <= end => padded > 0 /\ 4 * bad = end)
  BY DEF Decodes
<1>5. /\ offset % 4 = 0 /\ (bad = 0 \/ 4 * bad > offset \/ padded > 0)
      /\ bad \in Nat /\ padded \in 0 .. 2 /\ (padded > 0 => bad > 0 /\ size > 3 * bad)
  BY DEF Progress, PaddingInside
<1> HIDE DEF end
<1>6. end % 4 = 0
  BY <1>3, <1>4, <1>5
<1>7. end <= 4 * Groups(size)
  BY <1>1, <1>2, <1>3, <1>6
<1>8. /\ offset \div 4 \in Nat /\ end \div 4 \in Nat
      /\ offset \div 4 < end \div 4 /\ end \div 4 <= Groups(size)
  BY <1>1, <1>3, <1>5, <1>6, <1>7
<1>9. 3 * (offset \div 4) <= size
  BY <1>1, <1>8
<1>10. DecodedTo(offset) = 3 * (offset \div 4) - Lost(offset)
  BY <1>8, <1>9 DEF DecodedTo, Least
<1>11. DecodedTo(offset) <= DecodedTo(end)
  <2>1. 3 * (offset \div 4) <= Least(3 * (end \div 4), size)
    BY <1>8, <1>9 DEF Least
  <2>2. CASE Lost(end) = Lost(offset)
    <3>1. Lost(offset) \in Nat /\ Least(3 * (end \div 4), size) \in Nat
      BY <1>5, <1>8 DEF Lost, Least
    <3>2. QED
      BY <1>8, <1>10, <2>1, <2>2, <3>1 DEF DecodedTo
  <2>3. CASE Lost(end) # Lost(offset)
    <3>1. Lost(offset) = 0 /\ Lost(end) = padded /\ padded > 0 /\ 4 * bad = end
      BY <1>3, <1>4, <1>5, <2>3 DEF Lost
    <3>2. end \div 4 = bad
      BY <1>5, <3>1
    <3>3. Least(3 * (end \div 4), size) = 3 * bad
      BY <1>5, <3>1, <3>2 DEF Least
    <3>4. QED
      BY <1>5, <1>8, <1>10, <3>1, <3>2, <3>3 DEF DecodedTo
  <2>4. QED
    BY <2>2, <2>3
<1>12. bad = 0 \/ 4 * bad > end \/ padded > 0
  BY <1>3, <1>4, <1>5
<1>13. Decoded(offset, end) = Bytes(DecodedTo(offset) + 1, DecodedTo(end))
  BY <1>10 DEF Decoded, DecodedTo
<1>14. QED
  BY <1>3, <1>6, <1>11, <1>12, <1>13 DEF end

(* The characters of the text.                                             *)
LEMMA CharsType ==
  ASSUME size \in Nat, rest \in 0 .. 3
  PROVE  Groups(size) \in Nat /\ Chars \in Nat /\ Chars = 4 * Groups(size) + rest
         /\ Chars >= 4 * Groups(size)
<1>1. Groups(size) \in Nat
  BY GroupsType
<1>2. QED
  BY <1>1 DEF Chars

(* sha256_hex_base64 covers the image.                                     *)
LEMMA HashKeeps ==
  ASSUME DecoderInv, size \in Nat, HashChunk
  PROVE  DecoderInv'
<1>1. /\ stage = "hash"
      /\ UNCHANGED <<size, rest, hashing, bad, padded, pending, pendingOffset, room, filled, delivered, announced>>
  BY DEF HashChunk, sourceVars
<1>2. Progress /\ hashed = Bytes(1, DecodedTo(offset)) /\ offset \in Nat
      /\ pending = <<>> /\ pendingOffset = 0 /\ delivered = <<>>
      /\ rest \in 0 .. 3 /\ bad \in Nat /\ hashed \in Seq(Nat) /\ ReaderTypes /\ SourceInv /\ PaddingInside
  BY <1>1, GroupsType DEF DecoderInv, HashInv, SourceInv, PaddingInside, ReaderTypes
<1>3. Chars' = Chars /\ Chars \in Nat /\ Groups(size) \in Nat /\ Chars >= 4 * Groups(size)
  <2>1. Chars' = Chars
    BY <1>1 DEF Chars
  <2>2. QED
    BY <1>2, <2>1, CharsType
<1>4. CASE offset >= Chars
  <2>1. stage' = "announce" /\ offset' = 0 /\ hashed' = hashed
    BY <1>1, <1>4 DEF HashChunk
  <2>2. Groups(size) \in Nat /\ offset >= 4 * Groups(size) /\ offset % 4 = 0
    BY <1>2, <1>3, <1>4 DEF Progress
  <2>3. hashed = Bytes(1, size - padded)
    BY <1>2, <2>2, DecodedBounds
  <2>4. Progress'
    <3>1. 0 % 4 = 0 /\ 0 <= Chars /\ (bad = 0 \/ 4 * bad > 0)
      BY <1>2, <1>3
    <3>2. QED
      BY <1>1, <1>3, <2>1, <3>1 DEF Progress
  <2>5. QED
    BY <1>1, <1>2, <2>1, <2>3, <2>4 DEF DecoderInv, SourceInv, PaddingInside, ReaderTypes, HashInv, ReaderInv
<1>5. CASE offset < Chars /\ ~Decodes(offset, NextChunkEnd(offset))
  <2>1. stage' = "failed" /\ UNCHANGED <<offset, hashed>>
    BY <1>2, <1>3, <1>5 DEF HashChunk
  <2>2. QED
    BY <1>1, <1>2, <2>1 DEF DecoderInv, SourceInv, PaddingInside, ReaderTypes, HashInv, ReaderInv
<1>6. CASE offset < Chars /\ Decodes(offset, NextChunkEnd(offset))
  <2> DEFINE end == NextChunkEnd(offset)
  <2>1. hashed' = hashed \o Decoded(offset, end) /\ offset' = end /\ stage' = stage
    <3>1. ~(offset >= Chars)
      BY <1>2, <1>3, <1>6
    <3>2. QED
      BY <1>6, <3>1 DEF HashChunk
  <2>2. /\ end \in Nat /\ end % 4 = 0 /\ end <= Chars
        /\ bad = 0 \/ 4 * bad > end \/ padded > 0
        /\ DecodedTo(offset) <= DecodedTo(end)
        /\ Decoded(offset, end) = Bytes(DecodedTo(offset) + 1, DecodedTo(end))
    BY <1>2, <1>6, ChunkDecodes
  <2> HIDE DEF end
  <2>3. DecodedTo(offset) \in Nat /\ DecodedTo(end) \in Nat
    BY <1>2, <2>2, DecodedBounds
  <2>4. hashed' = Bytes(1, DecodedTo(end))
    BY <1>2, <2>1, <2>2, <2>3, BytesJoin
  <2>5. hashed' \in Seq(Nat)
    BY <2>3, <2>4, FirstBytes
  <2>6. Progress' /\ DecodedTo(offset)' = DecodedTo(end)
    BY <1>1, <1>3, <2>1, <2>2 DEF Progress, DecodedTo, Lost
  <2>7. hashed' = Bytes(1, DecodedTo(offset))'
    BY <2>4, <2>6 DEF Bytes
  <2>8. QED
    BY <1>1, <1>2, <2>1, <2>2, <2>5, <2>6, <2>7 DEF DecoderInv, SourceInv, PaddingInside, ReaderTypes, HashInv, ReaderInv
<1>7. QED
  BY <1>2, <1>3, <1>4, <1>5, <1>6

(* The length that is announced is that of the image.                      *)
LEMMA AnnounceKeeps ==
  ASSUME DecoderInv, size \in Nat, Announce
  PROVE  DecoderInv'
<1>1. /\ stage = "announce" /\ UNCHANGED <<size, rest, hashing, bad, padded, hashed>>
      /\ UNCHANGED <<offset, pending, pendingOffset, room, filled, delivered>>
  BY DEF Announce, sourceVars, readerVars
<1>2. /\ Progress /\ offset = 0 /\ pending = <<>> /\ pendingOffset = 0 /\ delivered = <<>>
      /\ hashing => hashed = Bytes(1, size - padded)
      /\ rest \in 0 .. 3 /\ ReaderTypes /\ SourceInv /\ PaddingInside
  BY <1>1 DEF DecoderInv, HashInv, SourceInv, PaddingInside
<1>3. CASE rest # 0 /\ stage' = "failed" /\ UNCHANGED announced
  BY <1>1, <1>2, <1>3 DEF DecoderInv, SourceInv, PaddingInside, ReaderTypes, HashInv, ReaderInv
<1>4. CASE rest = 0 /\ stage' = "poll" /\ announced' = DecodedLen
  <2>1. /\ Groups(size) \in Nat /\ Chars = 4 * Groups(size) /\ 3 * Groups(size) >= size
        /\ 3 * Groups(size) <= size + 2
    BY <1>2, <1>4, CharsType, GroupsType
  <2>2. announced' = size
    <3>1. CASE Groups(size) = 0
      BY <1>4, <2>1, <3>1 DEF DecodedLen
    <3>2. CASE Groups(size) # 0
      <4>1. Chars \div 4 = Groups(size) /\ Chars # 0
        BY <2>1, <3>2
      <4>2. QED
        BY <1>4, <2>1, <4>1 DEF DecodedLen, Padding
    <3>3. QED
      BY <3>1, <3>2
  <2>3. Progress' /\ DecodedTo(offset)' = DecodedTo(offset) /\ DecodedTo(offset) = 0
    BY <1>1, <1>2, DecodedBounds DEF Progress, Chars, DecodedTo, Lost
  <2>4. Len(pending) = 0 /\ Bytes(1, 0) = <<>> /\ 0 - 0 + 1 = 1 /\ 0 - (0 - 0) = 0
    BY <1>2 DEF Bytes
  <2>5. /\ pending' = Bytes(DecodedTo(offset)' - Len(pending') + 1, DecodedTo(offset)')
        /\ delivered' = Bytes(1, DecodedTo(offset)' - (Len(pending') - pendingOffset'))
        /\ Len(pending') <= DecodedTo(offset)' /\ pendingOffset' = 0
    BY <1>1, <1>2, <2>3, <2>4
  <2>6. hashing' => hashed' = Bytes(1, size' - padded')
    BY <1>1, <1>2
  <2>7. QED
    BY <1>1, <1>2, <1>4, <2>2, <2>3, <2>5, <2>6
       DEF DecoderInv, SourceInv, PaddingInside, ReaderTypes, HashInv, ReaderInv, Bytes
<1>5. QED
  BY <1>3, <1>4 DEF Announce

(* A poll begins, and ends: with nothing in its buffer only at the end.    *)
LEMMA PollKeeps ==
  ASSUME DecoderInv, size \in Nat,
         (\E capacity \in 1 .. MaxRead : PollRead(capacity)) \/ PollReturns
  PROVE  DecoderInv'
<1>1. /\ stage \in {"poll", "fill"} /\ stage' \in {"poll", "fill", "ended"}
      /\ UNCHANGED <<size, rest, hashing, bad, padded, hashed, announced>>
      /\ UNCHANGED <<offset, pending, pendingOffset, delivered>>
  BY DEF PollRead, PollReturns, sourceVars, readerVars
<1>2. SourceInv /\ ReaderTypes /\ PaddingInside
  BY DEF DecoderInv, SourceInv
<1>3. /\ Progress /\ rest = 0 /\ announced = size /\ (hashing => hashed = Bytes(1, size - padded))
      /\ pendingOffset = 0 \/ pendingOffset < Len(pending)
      /\ Len(pending) <= DecodedTo(offset)
      /\ pending = Bytes(DecodedTo(offset) - Len(pending) + 1, DecodedTo(offset))
      /\ delivered = Bytes(1, DecodedTo(offset) - (Len(pending) - pendingOffset))
      /\ stage = "fill" /\ ~filled => room > 0
  BY <1>1 DEF DecoderInv, ReaderInv
<1>4. /\ room' \in 0 .. MaxRead /\ filled' \in BOOLEAN
      /\ stage' = "fill" /\ ~filled' => room' > 0
      /\ stage' = "ended" => pendingOffset >= Len(pending) /\ offset >= Chars
  <2>1. CASE PollReturns
    <3>1. UNCHANGED <<room, filled>> /\ stage = "fill" /\ stage' = IF filled THEN "poll" ELSE "ended"
      BY <2>1 DEF PollReturns, readerVars
    <3>2. CASE filled
      BY <1>2, <3>1, <3>2 DEF SourceInv
    <3>3. CASE ~filled
      <4>1. room \in 0 .. MaxRead /\ room > 0
        BY <1>2, <1>3, <3>1, <3>3 DEF SourceInv
      <4>2. room # 0
        BY <4>1, BoundsAssumption
      <4>3. pendingOffset >= Len(pending) /\ offset >= Chars
        BY <2>1, <4>2 DEF PollReturns
      <4>4. QED
        BY <1>2, <3>1, <3>3, <4>3 DEF SourceInv
    <3>4. QED
      BY <3>2, <3>3
  <2>2. CASE \E capacity \in 1 .. MaxRead : PollRead(capacity)
    <3>1. PICK capacity \in 1 .. MaxRead : PollRead(capacity)
      BY <2>2
    <3>2. room' = capacity /\ stage' = "fill" /\ filled' \in BOOLEAN
      BY <3>1 DEF PollRead
    <3>3. room' \in 0 .. MaxRead /\ room' > 0
      BY <3>2, BoundsAssumption
    <3>4. QED
      BY <3>2, <3>3
  <2>3. QED
    BY <2>1, <2>2
<1>5. Progress' /\ DecodedTo(offset)' = DecodedTo(offset) /\ Chars' = Chars
  BY <1>1, <1>3 DEF Progress, Chars, DecodedTo, Lost
<1>6. SourceInv' /\ ReaderTypes'
  BY <1>1, <1>2, <1>4 DEF SourceInv, PaddingInside, ReaderTypes
<1>7. HashInv'
  BY <1>1 DEF HashInv
<1>8. ReaderInv'
  BY <1>1, <1>3, <1>4, <1>5 DEF ReaderInv, Bytes
<1>9. QED
  BY <1>6, <1>7, <1>8 DEF DecoderInv

(* The next chunk becomes pending when all before it was delivered.        *)
LEMMA DecodeNextKeeps ==
  ASSUME DecoderInv, size \in Nat, DecodeNext
  PROVE  DecoderInv'
<1> DEFINE end == NextChunkEnd(offset)
<1>1. /\ stage = "fill" /\ offset < Chars /\ pendingOffset >= Len(pending)
      /\ UNCHANGED <<size, rest, hashing, bad, padded, hashed, announced>>
      /\ UNCHANGED <<pendingOffset, room, filled, delivered>>
  BY DEF DecodeNext, sourceVars
<1>2. SourceInv /\ ReaderTypes /\ PaddingInside /\ rest \in 0 .. 3 /\ bad \in Nat /\ offset \in Nat
  BY GroupsType DEF DecoderInv, SourceInv, PaddingInside, ReaderTypes
<1>3. /\ Progress /\ rest = 0 /\ announced = size /\ (hashing => hashed = Bytes(1, size - padded))
      /\ pendingOffset = 0 \/ pendingOffset < Len(pending)
      /\ delivered = Bytes(1, DecodedTo(offset) - (Len(pending) - pendingOffset))
      /\ ~filled => room > 0
  BY <1>1 DEF DecoderInv, ReaderInv
<1>4. pendingOffset = 0 /\ Len(pending) = 0
  BY <1>1, <1>2, <1>3 DEF ReaderTypes
<1>5. CASE stage' = "failed" /\ UNCHANGED <<pending, offset>>
  BY <1>1, <1>2, <1>5 DEF DecoderInv, SourceInv, PaddingInside, ReaderTypes, HashInv, ReaderInv
<1>6. CASE /\ Decodes(offset, end)
           /\ pending' = Decoded(offset, end)
           /\ offset' = end
           /\ UNCHANGED stage
  <2>1. /\ end \in Nat /\ end % 4 = 0 /\ end <= Chars
        /\ bad = 0 \/ 4 * bad > end \/ padded > 0
        /\ DecodedTo(offset) <= DecodedTo(end)
        /\ Decoded(offset, end) = Bytes(DecodedTo(offset) + 1, DecodedTo(end))
    BY <1>1, <1>2, <1>3, <1>6, ChunkDecodes
  <2> HIDE DEF end
  <2> DEFINE old == DecodedTo(offset)
  <2> DEFINE new == DecodedTo(end)
  <2>2. old \in Nat /\ new \in Nat /\ old <= new
    BY <1>2, <2>1, DecodedBounds
  <2>3. pending' = Bytes(old + 1, new) /\ delivered' = Bytes(1, old - (0 - 0))
    BY <1>1, <1>3, <1>4, <1>6, <2>1
  <2>4. DecodedTo(offset)' = new /\ Chars' = Chars
    BY <1>1, <1>6 DEF DecodedTo, Lost, Chars
  <2> HIDE DEF old, new
  <2>5. pending' \in Seq(Nat) /\ Len(pending') = new - old
    BY <2>2, <2>3, NextBytes
  <2>6. Progress'
    BY <1>1, <1>6, <2>1, <2>4 DEF Progress
  <2>7. new - (new - old) = old /\ new - ((new - old) - 0) = old /\ old - (0 - 0) = old /\ new - old <= new
    BY <2>2
  <2>8. /\ pending' = Bytes(new - Len(pending') + 1, new)
        /\ delivered' = Bytes(1, new - (Len(pending') - pendingOffset'))
        /\ Len(pending') <= new /\ pendingOffset' = 0
    BY <1>1, <1>4, <2>3, <2>5, <2>7
  <2>9. SourceInv' /\ ReaderTypes' /\ HashInv'
    BY <1>1, <1>2, <1>6, <2>1, <2>5 DEF SourceInv, PaddingInside, ReaderTypes, HashInv
  <2>10. ReaderInv'
    BY <1>1, <1>3, <1>6, <2>4, <2>6, <2>8 DEF ReaderInv, Bytes
  <2>11. QED
    BY <2>9, <2>10 DEF DecoderInv
<1>7. QED
  BY <1>5, <1>6 DEF DecodeNext

(* What is pending is delivered in its order, as far as the buffer goes.   *)
LEMMA CopyKeeps ==
  ASSUME DecoderInv, size \in Nat, CopyPending
  PROVE  DecoderInv'
<1> DEFINE copied == Least(Len(pending) - pendingOffset, room)
<1> DEFINE more == pendingOffset + copied < Len(pending)
<1> DEFINE d == DecodedTo(offset)
<1> DEFINE n == Len(pending)
<1> DEFINE base == d - n
<1>1. /\ stage = "fill" /\ room > 0 /\ pendingOffset < n
      /\ UNCHANGED <<size, rest, hashing, bad, padded, hashed, announced, offset>>
      /\ delivered' = delivered \o SubSeq(pending, pendingOffset + 1, pendingOffset + copied)
      /\ room' = room - copied /\ filled' = TRUE
      /\ stage' = IF more THEN "poll" ELSE "fill"
      /\ pending' = IF more THEN pending ELSE <<>>
      /\ pendingOffset' = IF more THEN pendingOffset + copied ELSE 0
  BY DEF CopyPending, sourceVars
<1>2. SourceInv /\ ReaderTypes /\ PaddingInside
  BY DEF DecoderInv, SourceInv
<1>3. /\ Progress /\ rest = 0 /\ announced = size /\ (hashing => hashed = Bytes(1, size - padded))
      /\ n <= d
      /\ pending = Bytes(base + 1, d)
      /\ delivered = Bytes(1, d - (n - pendingOffset))
  BY <1>1 DEF DecoderInv, ReaderInv
<1>4. d \in Nat /\ n \in Nat /\ pendingOffset \in Nat /\ base \in Nat /\ base <= d /\ d - base = n
  <2>1. d \in Nat /\ n \in Nat /\ pendingOffset \in Nat
    <3>1. offset \in Nat /\ pending \in Seq(Nat) /\ pendingOffset \in Nat
      BY <1>2 DEF ReaderTypes
    <3>2. d \in Nat
      BY <1>2, <3>1, DecodedBounds
    <3>3. QED
      BY <3>1, <3>2
  <2> HIDE DEF d, n
  <2>2. QED
    BY <1>3, <2>1
<1>5. room \in Nat /\ room <= MaxRead /\ room > 0 /\ MaxRead \in Nat
  BY <1>1, <1>2, BoundsAssumption DEF SourceInv
<1>6. copied \in Nat /\ copied <= n - pendingOffset /\ copied <= room /\ pendingOffset + copied <= n
  BY <1>1, <1>4, <1>5 DEF Least
<1>7. DecodedTo(offset)' = d /\ Chars' = Chars /\ Progress'
  BY <1>1, <1>3 DEF DecodedTo, Lost, Chars, Progress
<1> HIDE DEF copied, d, n, base
<1>8. delivered' = Bytes(1, base + (pendingOffset + copied))
  <2> DEFINE from == base + pendingOffset
  <2> DEFINE to == base + (pendingOffset + copied)
  <2>1. pendingOffset + copied \in Nat /\ pendingOffset <= pendingOffset + copied
        /\ pendingOffset + copied <= d - base
    BY <1>4, <1>6
  <2>2. SubSeq(pending, pendingOffset + 1, pendingOffset + copied) = Bytes(from + 1, to)
    <3>1. SubSeq(Bytes(base + 1, d), pendingOffset + 1, pendingOffset + copied) = Bytes(from + 1, to)
      <4> DEFINE last == pendingOffset + copied
      <4> HIDE DEF last
      <4>1. last \in Nat /\ pendingOffset <= last /\ last <= d - base
        BY <2>1 DEF last
      <4>2. base \in Nat /\ d \in Nat /\ base <= d /\ pendingOffset \in Nat
        BY <1>4
      <4>3. PartOfBytes(base, d, pendingOffset, last)
        BY <4>1, <4>2, BytesPart
      <4>4. QED
        BY <4>3, Zenon DEF last, PartOfBytes
    <3>2. QED
      BY <1>3, <3>1, Zenon
  <2>3. d - (n - pendingOffset) = from /\ from \in Nat /\ to \in Nat /\ from <= to
    BY <1>4, <1>6 DEF base
  <2> HIDE DEF from, to
  <2>4. delivered' = Bytes(1, from) \o Bytes(from + 1, to)
    BY <1>1, <1>3, <2>2, <2>3
  <2>5. delivered' = Bytes(1, to)
    BY <2>3, <2>4, BytesJoin
  <2>6. QED
    BY <2>5 DEF to
<1>9. delivered' \in Seq(Nat)
  <2>1. base + (pendingOffset + copied) \in Nat
    BY <1>4, <1>6
  <2>2. QED
    BY <1>8, <2>1, FirstBytes
<1>10. room' \in 0 .. MaxRead /\ filled' \in BOOLEAN
  <2>1. filled' \in BOOLEAN
    BY <1>1
  <2>2. room' \in 0 .. MaxRead
    BY <1>1, <1>5, <1>6
  <2>3. QED
    BY <2>1, <2>2
<1>11. /\ pending' \in Seq(Nat) /\ pendingOffset' \in Nat
       /\ pendingOffset' = 0 \/ pendingOffset' < Len(pending')
       /\ Len(pending') <= d
       /\ pending' = Bytes(d - Len(pending') + 1, d)
       /\ delivered' = Bytes(1, d - (Len(pending') - pendingOffset'))
  <2>1. CASE more
    <3>1. pending' = pending /\ pendingOffset' = pendingOffset + copied
      BY <1>1, <2>1
    <3>2. d - (n - (pendingOffset + copied)) = base + (pendingOffset + copied)
      BY <1>4, <1>6 DEF base
    <3>3. pending \in Seq(Nat) /\ pendingOffset + copied \in Nat /\ pendingOffset + copied < n /\ Len(pending) = n
      BY <1>2, <1>4, <1>6, <2>1 DEF ReaderTypes, n
    <3>4. QED
      BY <1>3, <1>8, <3>1, <3>2, <3>3 DEF base
  <2>2. CASE ~more
    <3>1. pending' = <<>> /\ pendingOffset' = 0 /\ Len(pending') = 0
      BY <1>1, <2>2
    <3>2. pendingOffset + copied = n
      BY <1>4, <1>6, <2>2 DEF n
    <3>3. base + (pendingOffset + copied) = d /\ d - (0 - 0) = d /\ d - 0 + 1 = d + 1
      BY <1>4, <3>2
    <3>4. Bytes(d + 1, d) = <<>>
      BY <1>4 DEF Bytes
    <3>5. QED
      BY <1>4, <1>8, <3>1, <3>3, <3>4
  <2>3. QED
    BY <2>1, <2>2
<1>12. stage' \in {"poll", "fill"}
  BY <1>1
<1>13. SourceInv' /\ ReaderTypes' /\ HashInv'
  BY <1>1, <1>2, <1>9, <1>10, <1>11, <1>12 DEF SourceInv, PaddingInside, ReaderTypes, HashInv
<1>14. ReaderInv'
  <2>1. hashing' => hashed' = Bytes(1, size' - padded')
    BY <1>1, <1>3
  <2>2. rest' = 0 /\ announced' = size' /\ filled'
    BY <1>1, <1>3
  <2>3. QED
    BY <1>7, <1>11, <1>12, <2>1, <2>2 DEF ReaderInv, Bytes
<1>15. QED
  BY <1>13, <1>14 DEF DecoderInv

(* Nothing was decoded.                                                    *)
LEMMA InitDecoder ==
  ASSUME Init
  PROVE  DecoderInv
<1>1. /\ size \in Nat /\ rest \in 0 .. 3 /\ hashing \in BOOLEAN /\ bad \in 0 .. Groups(size)
      /\ stage \in {"encode", "hash", "announce"} /\ (stage = "encode" => bad = 0)
      /\ stage = "announce" => ~hashing
  BY BoundsAssumption DEF Init, StreamInit
<1>2. /\ offset = 0 /\ pending = <<>> /\ pendingOffset = 0 /\ room = 0 /\ filled = FALSE
      /\ announced = 0 /\ hashed = <<>> /\ delivered = <<>>
  BY DEF Init, StreamInit
<1>3. SourceInv /\ ReaderTypes /\ PaddingInside
  <2>1. filled \in BOOLEAN
    BY <1>2
  <2>2. announced \in Nat /\ room \in 0 .. MaxRead
    BY <1>2, BoundsAssumption
  <2>3. PaddingInside
    <3>1. padded \in IF bad \in 1 .. Groups(size) - 1 THEN 0 .. 2 ELSE {0}
      BY DEF Init, StreamInit
    <3>2. Groups(size) \in Nat /\ 3 * Groups(size) <= size + 2
      BY <1>1, GroupsType
    <3>3. CASE bad \in 1 .. Groups(size) - 1
      BY <1>1, <3>1, <3>2, <3>3 DEF PaddingInside
    <3>4. CASE bad \notin 1 .. Groups(size) - 1
      BY <1>1, <3>1, <3>2, <3>4 DEF PaddingInside
    <3>5. QED
      BY <3>3, <3>4
  <2>4. QED
    BY <1>1, <1>2, <2>1, <2>2, <2>3 DEF SourceInv, ReaderTypes
<1>4. Progress
  <2>1. Chars \in Nat /\ bad \in Nat /\ 0 % 4 = 0
    BY <1>1, CharsType
  <2>2. QED
    BY <1>2, <2>1 DEF Progress
<1>5. hashed = Bytes(1, DecodedTo(offset))
  <2>1. DecodedTo(offset) = 0 /\ Bytes(1, 0) = <<>>
    BY <1>1, <1>2, <1>3, DecodedBounds DEF Bytes
  <2>2. QED
    BY <1>2, <2>1
<1>6. QED
  BY <1>1, <1>2, <1>3, <1>4, <1>5 DEF DecoderInv, HashInv, ReaderInv

(* While an image is downloaded or written the decoder has nothing.        *)
LEMMA DecoderRests ==
  ASSUME DecoderInv, DownloadInv, Phases, DownloadStep \/ WriteImage
  PROVE  DecoderInv'
<1>1. /\ stage = "encode" /\ stage' \in {"encode", "encoded"}
      /\ size' \in Nat /\ UNCHANGED <<rest, hashing, bad, padded, readerVars, announced, hashed>>
  <2>1. CASE DownloadStep
    BY <2>1, DownloadKeeps DEF StreamElse, Phases, NothingWritten
  <2>2. CASE WriteImage
    BY <2>2, BoundsAssumption DEF WriteImage, EncodeStep, EncodeInline, EncodeEnd, ReadChunk, EncoderOnly,
       sourceVars, DownloadInv
  <2>3. QED
    BY <2>1, <2>2
<1>2. 0 \in 0 .. Groups(size')
  BY <1>1, GroupsType
<1>3. bad' \in 0 .. Groups(size)' /\ bad' = 0 /\ padded' = 0
  <2>1. bad = 0 /\ PaddingInside
    BY <1>1 DEF DecoderInv, SourceInv
  <2>2. padded = 0
    BY <2>1 DEF PaddingInside
  <2>3. QED
    BY <1>1, <1>2, <2>1, <2>2 DEF Groups
<1>4. PaddingInside'
  BY <1>1, <1>3 DEF PaddingInside
<1>5. QED
  BY <1>1, <1>3, <1>4 DEF DecoderInv, SourceInv, ReaderTypes, HashInv, ReaderInv, readerVars

(* All the parts together.                                                 *)
TransferInv == DownloadInv /\ Phases /\ EncoderInv /\ DecoderInv

(* The invariant of the download, the encoder and the decoder holds.       *)
THEOREM TransferInvariant == Spec => []TransferInv
<1>1. Init => TransferInv
  BY InitParts, InitDecoder DEF TransferInv
<1>2. TransferInv /\ [Next]_vars => TransferInv'
  <2>1. SUFFICES ASSUME TransferInv, [Next]_vars PROVE TransferInv'
    OBVIOUS
  <2>2. DownloadInv /\ Phases /\ EncoderInv /\ DecoderInv /\ size \in Nat
    BY <2>1, BoundsAssumption DEF TransferInv, DownloadInv
  <2>3. CASE UNCHANGED vars
    <3>1. DownloadInv' /\ Phases' /\ EncoderInv'
      BY <2>2, <2>3 DEF vars, streamVars, encoderVars, sourceVars, downloadVars, DownloadInv,
         Phases, NothingWritten, EncoderInv
    <3>2. DecoderInv'
      BY <2>2, <2>3 DEF vars, streamVars, sourceVars, readerVars, DecoderInv, SourceInv, PaddingInside, ReaderTypes,
         HashInv, ReaderInv, Progress, Chars, DecodedTo, Lost, Least, Groups, Bytes
    <3>3. QED
      BY <3>1, <3>2 DEF TransferInv
  <2>4. CASE DownloadStep \/ WriteImage
    BY <2>2, <2>4, DownloadParts, WriteParts, DecoderRests DEF TransferInv
  <2>5. CASE SendImage
    <3>1. DecoderInv'
      BY <2>2, <2>5, HashKeeps, AnnounceKeeps, PollKeeps, CopyKeeps, DecodeNextKeeps
         DEF SendImage, DecodeStep
    <3>2. QED
      BY <2>2, <2>5, <3>1, SendParts DEF TransferInv
  <2>6. QED
    BY <2>1, <2>3, <2>4, <2>5 DEF Next
<1>3. QED
  BY <1>1, <1>2, PTL DEF Spec

(* An image that goes into a request body is within the limit and whole,   *)
(* or the smaller one it was converted to, for every limit and every size. *)
THEOREM TransferFetchedWhole == Spec => []FetchedWhole
<1>1. TransferInv => FetchedWhole
  BY DEF TransferInv, DownloadInv, FetchedWhole
<1>2. QED
  BY <1>1, TransferInvariant, PTL

(* However the reads cut a spilled image up, the body holds its encoding   *)
(* and content_length counts it, for every size of image and of chunk.     *)
THEOREM TransferEncodedExactly == Spec => []EncodedExactly
<1>1. TransferInv => EncodedExactly
  BY DEF TransferInv, EncoderInv, EncodedExactly
<1>2. QED
  BY <1>1, TransferInvariant, PTL

(* However the reader is polled, a stream that ends has delivered the      *)
(* bytes its text stands for, the ones that were hashed.  A text with an   *)
(* odd length or an invalid symbol does not end, and one with padding at   *)
(* the end of an inner chunk ends short of the length that was announced,  *)
(* for every size of image, chunk and buffer.                              *)
THEOREM TransferDeliveredExactly == Spec => []DeliveredExactly
<1>1. TransferInv => DeliveredExactly
  <2>1. SUFFICES ASSUME TransferInv, stage = "ended"
                 PROVE  /\ delivered = Bytes(1, size - padded)
                        /\ hashing => hashed = delivered
                        /\ rest = 0 /\ (bad # 0 => padded > 0)
                        /\ announced >= Len(delivered)
                        /\ announced = Len(delivered) <=> bad = 0
    BY DEF DeliveredExactly
  <2>2. size \in Nat /\ offset \in Nat /\ pendingOffset \in Nat /\ pending \in Seq(Nat)
        /\ rest \in 0 .. 3 /\ bad \in 0 .. Groups(size) /\ PaddingInside
    BY <2>1, BoundsAssumption DEF TransferInv, DownloadInv, DecoderInv, SourceInv, ReaderTypes
  <2>3. /\ Progress /\ rest = 0 /\ announced = size /\ (hashing => hashed = Bytes(1, size - padded))
        /\ pendingOffset = 0 \/ pendingOffset < Len(pending)
        /\ delivered = Bytes(1, DecodedTo(offset) - (Len(pending) - pendingOffset))
        /\ pendingOffset >= Len(pending) /\ offset >= Chars
    BY <2>1 DEF TransferInv, DecoderInv, ReaderInv
  <2>4. Groups(size) \in Nat /\ Chars \in Nat /\ Chars = 4 * Groups(size) /\ offset = Chars
    BY <2>2, <2>3, CharsType DEF Progress
  <2>5. bad # 0 => padded > 0
    BY <2>2, <2>3, <2>4 DEF Progress
  <2>6. DecodedTo(offset) = size - padded
    BY <2>2, <2>3, <2>4, DecodedBounds DEF Progress
  <2>7. /\ padded \in 0 .. 2 /\ (padded > 0 => bad > 0 /\ size > 3 * bad) /\ bad \in Nat
        /\ size - padded \in Nat
    BY <2>2 DEF PaddingInside
  <2>8. (size - padded) - (Len(pending) - pendingOffset) = size - padded
    BY <2>2, <2>3, <2>7
  <2>9. delivered = Bytes(1, size - padded) /\ Len(delivered) = size - padded
    <3>1. delivered = Bytes(1, size - padded)
      BY <2>3, <2>6, <2>8
    <3>2. QED
      BY <2>7, <3>1, FirstBytes
  <2>10. announced >= size - padded /\ (announced = size - padded <=> bad = 0)
    BY <2>2, <2>3, <2>5, <2>7
  <2>11. QED
    BY <2>3, <2>5, <2>9, <2>10
<1>2. QED
  BY <1>1, TransferInvariant, PTL

(* The variables have their types: carry stays below a group, so the reads *)
(* stay inside the buffer, and a download is tried at most twice.          *)
THEOREM TransferTypes == Spec => []TypeOK
<1>1. TransferInv => TypeOK
  BY DEF TransferInv, DownloadInv, Downloads, Phases, EncoderInv, DecoderInv, SourceInv, PaddingInside, ReaderTypes,
     TypeOK, StreamTypeOK
<1>2. QED
  BY <1>1, TransferInvariant, PTL
=================================================================================
