----------------------------- MODULE ObjectStore -----------------------------
(***************************************************************************)
(* How the S3 client reads the answers it gets (archive/s3.go): which      *)
(* failures are worth another attempt, when an object that is not found is *)
(* absent rather than behind a bucket that is not there, and which bodies  *)
(* it takes at all.                                                        *)
(***************************************************************************)
EXTENDS Integers

\* An answer has a status and the code of the store, "" when it gives none; a
\* request without an answer has a cause.
Answer(status, code) == [status |-> status, code |-> code, cause |-> ""]
NoAnswer(cause) == [status |-> 0, code |-> "", cause |-> cause]

Ok == Answer(200, "")
NotFound == {Answer(404, "NoSuchKey"), Answer(404, "NotFound"), Answer(404, "")}
Busy == {Answer(503, "SlowDown"), Answer(429, ""), Answer(500, ""), NoAnswer("reset")}
Decided ==
  {Answer(403, "AccessDenied"), Answer(400, "RequestTimeTooSkewed"), Answer(404, "NoSuchBucket"),
   Answer(501, "NotImplemented"), NoAnswer("certificate"), NoAnswer("deadline")}

Succeeds(a) == a.status \in 200 .. 299

retryableStatus(status, code) ==
  /\ status # 501
  /\ status \in {408, 429} \/ status >= 500 \/ code \in {"SlowDown", "RequestTimeout"}
retryableTransportError(cause) ==
  cause \notin {"canceled", "deadline", "unknown host", "certificate", "not TLS", "bad request"}
\* What do repeats.
Repeated(a) ==
  IF a.cause # "" THEN retryableTransportError(a.cause) ELSE retryableStatus(a.status, a.code)

\* confirmBucket: a refusal proves that there is something to refuse.
confirmBucket(bucket) == Succeeds(bucket) \/ bucket.status = 403
\* What the last answer to the question means; bucket is the answer of the bucket
\* itself, asked only when the store names no reason.
Exists(a, bucket) ==
  CASE Succeeds(a) -> "present"
    [] a.status = 404 /\ a.code \in {"NoSuchKey", "NotFound"} -> "absent"
    [] a.status = 404 /\ a.code = "" -> IF confirmBucket(bucket) THEN "absent" ELSE "unknown"
    [] OTHER -> "unknown"

\* A put that was answered with an error, or not at all, may have stored the object
\* unless the store decided against it or was never reached.
MayHaveStored(a) == IF a.cause # "" THEN a.cause \in {"reset", "deadline"} ELSE a.status >= 500

\* rewindable: the body is a limited reader over the file, which cannot be
\* rewound, so it is held in memory up to a limit.
Rewindable(size, limit) == size <= limit

ASSUME AbsenceHasAReason ==
  \A a, bucket \in {Ok} \cup NotFound \cup Busy \cup Decided :
    Exists(a, bucket) = "absent" => a.status = 404 /\ (a.code # "NoSuchBucket")
                                    /\ (a.code = "" => bucket.status \in {200, 403})
ASSUME DecisionsAreNotRepeated ==
  (\A a \in Busy : Repeated(a)) /\ (\A a \in Decided \cup NotFound : ~Repeated(a))
=============================================================================
