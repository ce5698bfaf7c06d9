----------------------------- MODULE HeaderAuth -----------------------------
(***************************************************************************)
(* Authentication of calls through gRPC metadata: what the interceptors of *)
(* the SDK attach to a call and how the interceptors of the server judge   *)
(* it.  Both ends build the signed payload for themselves.                 *)
(*                                                                         *)
(* Abstracted: cryptography (a signature is the payload it was made over;  *)
(* the kind of a certificate says how it verifies), encodings, and time: a *)
(* timestamp is its distance, in minutes, behind the server's clock.       *)
(***************************************************************************)
EXTENDS Integers

CONSTANTS
  Ages,  \* distances between a timestamp and the server's clock
  Skew   \* auth.header_auth.timestamp_skew_seconds, in minutes, 0 if unset

ASSUME HeaderAuthAssumption == Ages \subseteq Int /\ Skew \in Nat

Certs == {"trusted", "untrusted", "nameless"}
NoBody == "no body"
NoHeader == [cert |-> "none"]

\* buildSignaturePayload of the SDK.
SdkPayload(method, age, body) == <<method, age, body>>

\* UnaryHeaderAuthInterceptor of the SDK signs the request as well ...
SdkUnaryHeader(cert, age, body) ==
  [cert |-> cert, age |-> age, sig |-> SdkPayload("unary", age, body)]

\* Faulty: the stream interceptor signs a body.
SdkStreamHeaderBody(cert, age) ==
  [cert |-> cert, age |-> age, sig |-> SdkPayload("stream", age, "body")]

\* ... StreamHeaderAuthInterceptor only the method and the time.
SdkStreamHeader(cert, age) ==
  [cert |-> cert, age |-> age, sig |-> SdkPayload("stream", age, NoBody)]

SdkHeader(method, cert, age) ==
  IF method = "unary" THEN SdkUnaryHeader(cert, age, "body")
                      ELSE SdkStreamHeader(cert, age)

\* ValidateTimestamp: five minutes unless set, one minute ahead at most.
ValidateTimestamp(age) == age <= (IF Skew = 0 THEN 5 ELSE Skew) /\ age >= -1

\* ParseAndVerifyCertificate, against the CA pool loaded by NewServer.
ParseAndVerifyCertificate(cert) == cert # "untrusted"

\* BuildGRPCSignaturePayload, then VerifyRequestSignature.
BuildGRPCSignaturePayload(method, age, body) == <<method, age, body>>

VerifyRequestSignature(hdr, method, body) ==
  hdr.sig = BuildGRPCSignaturePayload(method, hdr.age, body)

\* validateHeaderAuth: the request is serialised again for a unary call.
ValidateHeaderAuth(hdr, method) ==
  /\ ValidateTimestamp(hdr.age)
  /\ ParseAndVerifyCertificate(hdr.cert)
  /\ VerifyRequestSignature(hdr, method, IF method = "unary" THEN "body" ELSE NoBody)
  /\ hdr.cert # "nameless"

\* The two server interceptors: with a header that does not count, the call is
\* refused if require_mtls is set and handled without an identity otherwise.
Judge(hdr, method, headerAuth, requireMTLS) ==
  IF ~headerAuth THEN "anonymous"
  ELSE IF hdr.cert # "none" /\ ValidateHeaderAuth(hdr, method) THEN "identified"
  ELSE IF requireMTLS THEN "refused"
  ELSE "anonymous"

\* What a caller with certificate cert and a clock age behind may expect.
Deserved(cert, age, headerAuth, requireMTLS) ==
  IF ~headerAuth THEN "anonymous"
  ELSE IF cert = "trusted" /\ -1 <= age /\ age <= (IF Skew = 0 THEN 5 ELSE Skew)
    THEN "identified"
  ELSE IF requireMTLS THEN "refused"
  ELSE "anonymous"
=============================================================================
