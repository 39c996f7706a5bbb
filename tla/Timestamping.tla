---------------------------- MODULE Timestamping ----------------------------
(***************************************************************************)
(* What the store takes from a timestamping authority (timestamp.go): a    *)
(* reply is a tree of ASN.1 values, and only a token whose imprint is the  *)
(* hash that was asked about is recorded.  Hashes are opaque; the nonce of *)
(* the request is not compared by the code and is left out.                *)
(***************************************************************************)
EXTENDS Integers

\* timeStampResp, contentInfo with what its SignedData encapsulates, and bytes
\* that are neither.
None == [shape |-> "none"]
Other == [shape |-> "other"]
Response(status, token) == [shape |-> "response", status |-> status, token |-> token]
Content(type, holds, alg, imprint) ==
  [shape |-> "content", type |-> type, holds |-> holds, alg |-> alg, imprint |-> imprint]

IsSignedData(der) == der.shape = "content" /\ der.type = "signed"

tokenFromResponse(der) ==
  IF der.shape = "response" /\ der.status \in {"granted", "grantedWithMods"}
  THEN der.token ELSE None

\* The response of the RFC, or the bare token of some tools.
tokenFromReply(der) ==
  IF tokenFromResponse(der) # None THEN tokenFromResponse(der)
  ELSE IF IsSignedData(der) THEN der ELSE None

\* What a token claims; None is an error.
ParseTimestampToken(token) ==
  LET body == IF IsSignedData(token) THEN token ELSE tokenFromResponse(token)
  IN  IF IsSignedData(body) /\ body.holds = "tstinfo" /\ body.alg = "sha256" THEN body ELSE None

VerifyTimestampImprint(token, hash) ==
  LET info == ParseTimestampToken(token) IN info # None /\ info.imprint = hash

\* BuildTimestampRequest: the imprint asked about is the record hash itself.
Imprint(hash) == hash

\* The token that is recorded for a reply, or None.
RequestTimestamp(reply, hash) ==
  LET token == tokenFromReply(reply)
  IN  IF token # None /\ VerifyTimestampImprint(token, Imprint(hash)) THEN token ELSE None

------------------------------------------------------------------------------
Tokens ==
  {Content(type, holds, alg, imprint) :
     type \in {"signed", "data"}, holds \in {"tstinfo", "other", "nothing"},
     alg \in {"sha256", "sha1"}, imprint \in {"asked", "foreign"}}
Bodies == {None, Other} \cup Tokens
Responses == {Response(status, token) : status \in {"granted", "grantedWithMods", "rejected"}, token \in Bodies}
Replies == Bodies \cup Responses \cup {Response("granted", r) : r \in Responses}

Declined(r) == r.shape = "response" /\ (r.status = "rejected" \/ (r.token.shape = "response" /\ r.token.status = "rejected"))
\* A reply over another hash, one that declines or one that cannot be read
\* leaves no anchor, and an anchor that is recorded is one verify accepts.
ASSUME AnchorsAreAnswers ==
  \A r \in Replies :
    LET token == RequestTimestamp(r, "asked")
    IN  token # None =>
          /\ ~Declined(r)
          /\ ParseTimestampToken(token).imprint = "asked"
          /\ RequestTimestamp(token, "asked") # None
=============================================================================
