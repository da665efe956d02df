------------------------------ MODULE Uploader ------------------------------
(***************************************************************************)
(* The image hosts of the Rust proxy (upload.rs): the order in which       *)
(* upload_inline_data_base64 tries them, and what each one must reply for  *)
(* an upload to count.  Signing, multipart framing and key building are    *)
(* left out: they decide only whether the host accepts.                    *)
(***************************************************************************)
EXTENDS Sequences

CONSTANT HostMode         \* image_host_mode

(* The modes parse_image_host_mode knows, and any other text.              *)
HostModes == {"legacy", "r2", "r2_then_legacy", "unsupported"}

ASSUME HostModeAssumption == HostMode \in HostModes

Hosts == {"r2", "uguu", "kefan"}

(* upload_legacy_base64: uguu first, kefan if that fails.                  *)
LegacyHosts == <<"uguu", "kefan">>

(* parse_image_host_mode and the match of upload_inline_data_base64; with  *)
(* a mode it does not know the upload fails before any host is asked.      *)
HostChain ==
  CASE HostMode = "legacy" -> LegacyHosts
    [] HostMode = "r2" -> <<"r2">>
    [] HostMode = "r2_then_legacy" -> <<"r2">> \o LegacyHosts
    [] HostMode = "unsupported" -> <<>>

(* How a call to a host may end: no response, or a response with a status  *)
(* of success or not and with or without a usable URL in its body.         *)
HostReplies == [status : {"none", "success", "error"}, url : BOOLEAN]

(* upload_r2_base64: the status decides; the URL is built by the proxy.    *)
R2Accepts(reply) == reply.status = "success"

(* upload_base64_to_uguu: status and body.                                 *)
UguuAccepts(reply) == reply.status = "success" /\ reply.url

(* upload_base64_to_kefan: the body alone, whatever the status.            *)
KefanAccepts(reply) == reply.status # "none" /\ reply.url

Accepts(host, reply) ==
  CASE host = "r2" -> R2Accepts(reply)
    [] host = "uguu" -> UguuAccepts(reply)
    [] host = "kefan" -> KefanAccepts(reply)

(* UploadResult.provider *)
Provider(host) == IF host = "r2" THEN "r2" ELSE "legacy"
=============================================================================
