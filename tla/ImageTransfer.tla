--------------------------- MODULE ImageTransfer ---------------------------
(***************************************************************************)
(* The way of one image through the Rust proxy: an image a request refers  *)
(* to is downloaded (direct_fetch of cache.rs, image_io.rs) and written as *)
(* base64 into the request body; an image of a response is decoded on its  *)
(* way to an image host.  The streams themselves are Base64Stream.         *)
(*                                                                         *)
(* The server is outside: it may refuse, stall, cut the connection or send *)
(* an image of any size, in a response that tells where its body ends or   *)
(* in one that ends when the connection is closed.                         *)
(***************************************************************************)
EXTENDS Base64Stream

CONSTANTS
  MaxImageBytes,  \* max_image_bytes
  Optimize        \* optimize_large_png_as_webp

ASSUME MaxImageBytesAssumption == MaxImageBytes \in Nat
ASSUME OptimizeAssumption == Optimize \in BOOLEAN

VARIABLES
  download,   \* where direct_fetch is; "none" for an image of a response
  attempt,    \* attempt of the loop in direct_fetch
  framing,    \* how the response tells the end of its body
  received,   \* total_bytes
  served,     \* bytes of the image at the server
  converted   \* the image was re-encoded

downloadVars == <<download, attempt, framing, received, served, converted>>
vars == <<streamVars, downloadVars>>

Init ==
  /\ StreamInit
  /\ download = IF stage = "encode" THEN "send" ELSE "none"
  /\ attempt = 0
  /\ framing = "unknown"
  /\ received = 0
  /\ served = size
  /\ converted = FALSE

StreamElse == UNCHANGED <<stage, encoderVars, rest, hashing, bad, padded, readerVars, announced, hashed>>

-----------------------------------------------------------------------------
(* direct_fetch after an error of fetch_once: one retry at most, and only  *)
(* for what should_retry_fetch_error lets pass.                            *)
Fail(retryable) ==
  /\ download' = IF attempt = 0 /\ retryable THEN "pause" ELSE "failed"
  /\ received' = 0
  /\ framing' = "unknown"
  /\ UNCHANGED <<attempt, served, converted, size>>

(* should_retry_fetch_error: no connection or no response, and error       *)
(* statuses that may pass; not a timeout of the whole, a broken body, a    *)
(* forbidden address or an image that is too large.                        *)
Retryable(error) == error \in {"connect", "busy_status"}

(* enforce_max_size *)
TooLarge(n) == n > MaxImageBytes

(* What maybe_convert_png_bytes_to_lossless_webp_with_threshold may make   *)
(* of an image: only a result that is smaller is taken.                    *)
ConvertedSizes(n) == 1 .. n - 1

(* fetch_image_as_inline_data_with_options up to the response.             *)
SendFails ==
  /\ download = "send"
  /\ \E error \in {"forbidden", "connect", "busy_status", "status"} : Fail(Retryable(error))
  /\ StreamElse

(* A successful response: Content-Length, when there is one, is compared   *)
(* with the limit before anything is read.                                 *)
ResponseArrives ==
  /\ download = "send"
  /\ \E f \in {"length", "chunked", "close"} :
       \/ /\ f = "length" /\ TooLarge(size)
          /\ Fail(Retryable("too_large"))
       \/ /\ f # "length" \/ ~TooLarge(size)
          /\ download' = "body"
          /\ framing' = f
          /\ UNCHANGED <<attempt, received, served, converted, size>>
  /\ StreamElse

(* Mutant: what exceeds the limit is cut off.                              *)
ReadBodyTruncating(n) ==
  /\ download = "body"
  /\ received + n <= size
  /\ IF TooLarge(received + n)
       THEN /\ download' = "fetched"
            /\ size' = received
            /\ UNCHANGED <<attempt, framing, received, served, converted>>
       ELSE /\ received' = received + n
            /\ UNCHANGED <<download, attempt, framing, served, converted, size>>
  /\ StreamElse

(* A chunk of the body: the limit is enforced before it is kept.           *)
ReadBody(n) ==
  /\ download = "body"
  /\ received + n <= size
  /\ IF TooLarge(received + n)
       THEN Fail(Retryable("too_large"))
       ELSE /\ received' = received + n
            /\ UNCHANGED <<download, attempt, framing, served, converted, size>>
  /\ StreamElse

(* The connection is cut, or the client's timeout expires, in the body.    *)
BodyFails ==
  /\ download = "body"
  /\ Fail(Retryable("body"))
  /\ StreamElse

(* The body ends: all of it, or what came before the connection was closed *)
(* when nothing else tells its end.                                        *)
BodyEnds ==
  /\ download = "body"
  /\ received = size \/ framing = "close"
  /\ download' = IF Optimize THEN "convert" ELSE "fetched"
  /\ size' = received
  /\ UNCHANGED <<attempt, framing, received, served, converted>>
  /\ StreamElse

(* maybe_convert_large_png_to_lossless_webp_with_timeout: a smaller image, *)
(* or the one that came in: not a large PNG, not smaller, an error, or its *)
(* own timeout.                                                            *)
Convert ==
  /\ download = "convert"
  /\ download' = "fetched"
  /\ \/ UNCHANGED <<size, converted>>
     \/ /\ size' \in ConvertedSizes(size)
        /\ converted' = TRUE
  /\ UNCHANGED <<attempt, framing, received, served>>
  /\ StreamElse

(* fetch_and_optimize_with_total_timeout: the whole attempt is given up.   *)
TotalTimeout ==
  /\ download \in {"send", "body", "convert"}
  /\ Fail(Retryable("total_timeout"))
  /\ StreamElse

(* Mutant: the attempts are not counted.                                   *)
RetryUncounted ==
  /\ download = "pause"
  /\ download' = "send"
  /\ UNCHANGED <<attempt, framing, received, served, converted, size>>
  /\ StreamElse

(* INLINE_DATA_FETCH_RETRY_DELAY is over.                                  *)
Retry ==
  /\ download = "pause"
  /\ download' = "send"
  /\ attempt' = attempt + 1
  /\ UNCHANGED <<framing, received, served, converted, size>>
  /\ StreamElse

DownloadStep ==
  \/ SendFails \/ ResponseArrives
  \/ \E n \in 1 .. MaxSize : ReadBody(n)
  \/ BodyFails \/ BodyEnds \/ Convert \/ TotalTimeout \/ Retry

(* write_blob_as_base64 reads the image that was fetched.                  *)
WriteImage ==
  /\ download = "fetched"
  /\ EncodeStep
  /\ UNCHANGED downloadVars

(* upload_inline_data_base64 reads an image of a response.                 *)
SendImage ==
  /\ DecodeStep
  /\ UNCHANGED downloadVars

Next == DownloadStep \/ WriteImage \/ SendImage

Spec == Init /\ [][Next]_vars

(* The HTTP client has a timeout of its own, so a download goes on or      *)
(* fails; the handler is polled, and reads of a blob come to its end.      *)
Fairness == WF_vars(DownloadStep) /\ WF_vars(WriteImage)

FairSpec == Spec /\ Fairness

-----------------------------------------------------------------------------
TypeOK ==
  /\ StreamTypeOK
  /\ download \in {"none", "send", "body", "convert", "pause", "fetched", "failed"}
  /\ attempt \in 0 .. 1
  /\ framing \in {"unknown", "length", "chunked", "close"}
  /\ received \in 0 .. MaxSize
  /\ served \in 0 .. MaxSize
  /\ converted \in BOOLEAN

(* An image that goes into a request body is within the limit, whatever    *)
(* the response said of its length, and it is the image the server has or  *)
(* the re-encoded one, never the beginning of one, except when the         *)
(* response had no end but that of the connection.                         *)
FetchedWhole ==
  download = "fetched" =>
    /\ size <= MaxImageBytes
    /\ framing # "close" /\ ~converted => size = served
    /\ converted => size < served

(* Every download ends, in a failure or in an image that is wholly         *)
(* written: neither retries nor a server that never ends its body keep a   *)
(* handler waiting for ever.                                               *)
TransferEnds ==
  download = "send" ~> download = "failed" \/ stage = "encoded"
=============================================================================
