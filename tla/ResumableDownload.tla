--------------------------- MODULE ResumableDownload ---------------------------
(***************************************************************************)
(* How an edge fetches one package (LandingApplyService):                  *)
(* downloadWithFallback tries each URL MaxAttempts times, and every try is *)
(* a downloadFile, which asks again from the byte it has reached, up to    *)
(* MaxResumes times.  applyLanding then compares the checksum, and a wrong *)
(* one is final: the consumer drops the message.  The network may fail or  *)
(* cut any answer, the server may ignore a Range or leave the length out,  *)
(* and the package behind the URL may be replaced at any time.             *)
(***************************************************************************)
EXTENDS Naturals, Sequences

CONSTANTS
  Packages,     \* the packages that may be found behind the URLs
  Size,         \* their lengths
  Wanted,       \* the package whose checksum the event names
  Urls,         \* how many candidate URLs there are
  MaxAttempts,  \* tries of each URL (3)
  MaxResumes,   \* resumes of a try (SYNC_DOWNLOAD_RESUMES)
  MaxReplaced   \* bound: how often the package behind the URLs changes

ASSUME DownloadAssumption ==
  /\ Wanted \in Packages
  /\ Size \in [Packages -> Nat \ {0}]
  /\ Urls \in Nat \ {0} /\ MaxAttempts \in Nat \ {0}
  /\ MaxResumes \in Nat /\ MaxReplaced \in Nat

VARIABLES
  site,      \* the package behind the URLs
  at,        \* the step the download is about to take
  url,       \* the URL being tried
  tries,     \* failed tries of this URL (attempts)
  attempt,   \* failed requests of this try
  total,     \* the length the file should have; 0 while unknown
  file,      \* what is on the disk (downloaded is its length)
  body,      \* the answer being read: its package, next byte and length header
  mixed,     \* history: another package answered a request of this try
  failures,  \* history: failed requests of the whole download (up to Budget)
  replaced

progress == <<url, tries, attempt>>
vars     == <<site, at, progress, total, file, body, mixed, failures, replaced>>

Byte       == [of : Packages, pos : Nat]
Content(p) == [i \in 1..Size[p] |-> [of |-> p, pos |-> i]]
Ended      == {"applied", "corrupt", "failed"}
Budget     == Urls * MaxAttempts * (MaxResumes + 1)

TypeOK ==
  /\ site \in Packages
  /\ at \in {"ask", "body", "done"} \cup Ended
  /\ url \in 1..Urls /\ tries \in 0..(MaxAttempts - 1)
  /\ attempt \in 0..MaxResumes
  /\ total \in Nat
  /\ file \in Seq(Byte)
  /\ body \in [of : Packages, next : Nat \ {0}, sized : BOOLEAN]
  /\ mixed \in BOOLEAN
  /\ failures \in 0..Budget /\ replaced \in 0..MaxReplaced

Init ==
  /\ site \in Packages
  /\ at = "ask"
  /\ url = 1 /\ tries = 0 /\ attempt = 0
  /\ total = 0 /\ file = <<>> /\ mixed = FALSE
  /\ body = [of |-> site, next |-> 1, sized |-> FALSE]
  /\ failures = 0 /\ replaced = 0
-----------------------------------------------------------------------------
Downloaded == Len(file)

\* wrong versions of LastRequest, for the mutation runs: one resume too few,
\* one too many
LastRequestEarly == attempt + 1 >= MaxResumes
LastRequestLate  == attempt > MaxResumes
LastRequest      == attempt >= MaxResumes
LastTry          == tries = MaxAttempts - 1

\* wrong version of NextAttempt, for the mutation runs: a request that brought
\* some bytes is not counted
NextAttemptFree == IF file = <<>> THEN attempt + 1 ELSE attempt
NextAttempt     == attempt + 1

Resume ==
  /\ at' = "ask"
  /\ attempt' = NextAttempt
  /\ UNCHANGED <<url, tries, total, file, mixed>>

(* A try starts without what the last one fetched. *)
StartOver ==
  /\ at' = "ask"
  /\ attempt' = 0
  /\ tries' = IF LastTry THEN 0 ELSE tries + 1
  /\ url' = IF LastTry THEN url + 1 ELSE url
  /\ total' = 0 /\ file' = <<>> /\ mixed' = FALSE

RequestFails ==
  /\ failures' = IF failures < Budget THEN failures + 1 ELSE failures
  /\ IF ~LastRequest THEN Resume
     ELSE IF LastTry /\ url = Urls
       THEN at' = "failed" /\ UNCHANGED <<progress, total, file, mixed>>
       ELSE StartOver
  /\ UNCHANGED <<site, body, replaced>>
-----------------------------------------------------------------------------
(* No answer in time, or a status validateStatus refuses. *)
NoAnswer == at = "ask" /\ RequestFails

Reads(answer) ==
  /\ at = "ask"
  /\ at' = answer
  /\ mixed' = (mixed \/ site # Wanted)
  /\ UNCHANGED <<site, progress, failures, replaced>>

(* The Range starts at or behind the end of the package: taken for a       *)
(* complete download.                                                      *)
Answer416 ==
  /\ Downloaded > 0 /\ Downloaded >= Size[site]
  /\ Reads("done")
  /\ UNCHANGED <<total, file, body>>

Answer206 ==
  /\ Downloaded > 0 /\ Downloaded < Size[site]
  /\ Reads("body")
  /\ body' = [of |-> site, next |-> Downloaded + 1, sized |-> TRUE]
  /\ total' = IF total = 0 THEN Size[site] ELSE total
  /\ UNCHANGED file

\* wrong version of Emptied, for the mutation runs: the whole package is
\* appended to the part that is there
Appended == file
(* What is left of the file when an answer brings the package from byte 1. *)
Emptied == <<>>

(* The first request, or a server that does not know Range; without a      *)
(* Content-Length the total stays unknown.                                 *)
Answer200(sized) ==
  /\ Reads("body")
  /\ file' = Emptied
  /\ body' = [of |-> site, next |-> 1, sized |-> sized]
  /\ total' = IF total = 0 /\ sized THEN Size[site] ELSE total

BodyWhole == body.next > Size[body.of]

Chunk ==
  /\ at = "body" /\ ~BodyWhole
  /\ file' = Append(file, [of |-> body.of, pos |-> body.next])
  /\ body' = [body EXCEPT !.next = @ + 1]
  /\ UNCHANGED <<site, at, progress, total, mixed, failures, replaced>>

(* The pipeline ends without an error: at the end of the answer, or        *)
(* before it when the answer named its length (a chunked one reports it).  *)
StreamEnds == at = "body" /\ (BodyWhole \/ body.sized)

\* wrong version of Complete, for the mutation runs: a stream that ended
\* without an error is enough
CompleteAnyway == TRUE
Complete       == total = 0 \/ Downloaded >= total

BodyEnds ==
  /\ StreamEnds
  /\ IF Complete
       THEN /\ at' = "done"
            /\ UNCHANGED <<site, progress, total, file, body, mixed, failures,
                           replaced>>
       ELSE RequestFails

(* The connection breaks, or nothing arrives for 15 seconds. *)
BodyBreaks == at = "body" /\ RequestFails

(* applyLanding compares the checksum. *)
Compare ==
  /\ at = "done"
  /\ at' = IF file = Content(Wanted) THEN "applied" ELSE "corrupt"
  /\ UNCHANGED <<site, progress, total, file, body, mixed, failures, replaced>>

(* The master writes another package to the path of the URL. *)
Replace(p) ==
  /\ p # site /\ replaced < MaxReplaced
  /\ site' = p
  /\ replaced' = replaced + 1
  /\ UNCHANGED <<at, progress, total, file, body, mixed, failures>>
-----------------------------------------------------------------------------
Step ==
  \/ NoAnswer \/ Answer416 \/ Answer206
  \/ \E sized \in BOOLEAN : Answer200(sized)
  \/ Chunk \/ BodyEnds \/ BodyBreaks \/ Compare

Next == Step \/ \E p \in Packages : Replace(p)

Spec == Init /\ [][Next]_vars
(* Every request is answered or times out. *)
LiveSpec == Spec /\ WF_vars(Step)
-----------------------------------------------------------------------------
(* However often the transfer is cut, resumed or sent again from the       *)
(* start, with or without a length, a download that counts as complete has *)
(* the package byte for byte, unless another package answered one of the   *)
(* requests: a checksum mismatch, after which the landing is dropped, is   *)
(* never the network's doing.                                              *)
MismatchIsReplaced ==
  at \in {"done", "corrupt"} /\ file # Content(Wanted) => mixed

(* A landing fails to download only after every URL was tried MaxAttempts  *)
(* times with all its resumes.                                             *)
FailedIsExhausted == at = "failed" => failures = Budget

(* The slug's lock is released in the end: a server that cuts every        *)
(* transfer cannot keep the download going.                                *)
DownloadEnds == <>(at \in Ended)
=============================================================================
