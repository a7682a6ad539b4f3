-------------------------- MODULE MCTransport_proofs --------------------------
(***************************************************************************)
(* Proofs about the two components that MCTransport instantiates, for      *)
(* every value of their constants: ResumableDownload, with any packages,   *)
(* URLs, tries and resumes; OutboxConnection, with any number of faults    *)
(* and dials.                                                              *)
(***************************************************************************)
EXTENDS MCTransport, FiniteSetTheorems, TLAPS

LEMMA BudgetNat == Budget \in Nat
  BY DownloadAssumption DEF Budget

LEMMA FailuresType ==
  ASSUME failures \in 0..Budget, RequestFails
  PROVE  failures' \in 0..Budget
  BY BudgetNat DEF RequestFails

LEMMA EmptyFile == <<>> \in Seq(Byte) /\ Len(<<>>) = 0
  OBVIOUS

(* A failed request leaves every variable in its type. *)
LEMMA FailsTypeOK == TypeOK /\ RequestFails => TypeOK'
<1> SUFFICES ASSUME TypeOK, RequestFails
             PROVE  TypeOK'
  OBVIOUS
<1>1. failures' \in 0..Budget
  BY FailuresType DEF TypeOK
<1>2. attempt' \in 0..MaxResumes /\ tries' \in 0..(MaxAttempts - 1) /\ url' \in 1..Urls
  BY DownloadAssumption DEF TypeOK, RequestFails, Resume, StartOver,
     LastRequest, LastTry, NextAttempt, progress
<1>3. /\ total' \in Nat
      /\ file' \in Seq(Byte)
      /\ mixed' \in BOOLEAN
      /\ at' \in {"ask", "failed"}
  <2>1. CASE Resume
    BY <2>1 DEF Resume, TypeOK
  <2>2. CASE StartOver
    BY <2>2, EmptyFile DEF StartOver
  <2>3. CASE at' = "failed" /\ UNCHANGED <<progress, total, file, mixed>>
    BY <2>3 DEF TypeOK
  <2>. QED
    BY <2>1, <2>2, <2>3 DEF RequestFails
<1>4. UNCHANGED <<site, body, replaced>>
  BY DEF RequestFails
<1>. QED
  BY <1>1, <1>2, <1>3, <1>4 DEF TypeOK, Ended

LEMMA InitTypeOK == Init => TypeOK
<1> SUFFICES ASSUME Init
             PROVE  TypeOK
  OBVIOUS
<1>1. /\ site \in Packages
      /\ url \in 1..Urls /\ tries \in 0..(MaxAttempts - 1)
      /\ attempt \in 0..MaxResumes /\ replaced \in 0..MaxReplaced
  BY DownloadAssumption DEF Init
<1>2. failures \in 0..Budget
  BY BudgetNat DEF Init
<1>3. file \in Seq(Byte)
  BY EmptyFile DEF Init
<1>4. /\ at \in {"ask", "body", "done"} \cup Ended /\ total \in Nat
      /\ mixed \in BOOLEAN
  BY DEF Init, Ended
<1>5. body \in [of : Packages, next : Nat \ {0}, sized : BOOLEAN]
  BY DEF Init
<1>. QED
  BY <1>1, <1>2, <1>3, <1>4, <1>5 DEF TypeOK

LEMMA NextTypeOK == TypeOK /\ [Next]_vars => TypeOK'
<1> SUFFICES ASSUME TypeOK, [Next]_vars
             PROVE  TypeOK'
  OBVIOUS
<1> USE DownloadAssumption DEF TypeOK, Ended, progress
<1>1. CASE NoAnswer
  BY <1>1, FailsTypeOK DEF NoAnswer
<1>2. CASE Answer416
  BY <1>2 DEF Answer416, Reads
<1>3. CASE Answer206
  BY <1>3 DEF Answer206, Reads, Downloaded
<1>4. ASSUME NEW sized \in BOOLEAN, Answer200(sized)
      PROVE  TypeOK'
  BY <1>4, EmptyFile DEF Answer200, Reads, Emptied
<1>5. CASE Chunk
  <2>1. [of |-> body.of, pos |-> body.next] \in Byte
    BY DEF Byte
  <2>2. file' \in Seq(Byte)
    BY <1>5, <2>1 DEF Chunk
  <2>3. body' \in [of : Packages, next : Nat \ {0}, sized : BOOLEAN]
    <3>1. /\ body \in [of : Packages, next : Nat \ {0}, sized : BOOLEAN]
          /\ body' = [body EXCEPT !.next = @ + 1]
      BY <1>5 DEF Chunk
    <3>2. body.next + 1 \in Nat \ {0}
      BY <3>1
    <3>. QED
      BY <3>1, <3>2
  <2>4. UNCHANGED <<site, at, url, tries, attempt, total, mixed, failures, replaced>>
    BY <1>5 DEF Chunk
  <2>. QED
    BY <2>2, <2>3, <2>4
<1>6. CASE BodyEnds
  BY <1>6, FailsTypeOK DEF BodyEnds
<1>7. CASE BodyBreaks
  BY <1>7, FailsTypeOK DEF BodyBreaks
<1>8. CASE Compare
  BY <1>8 DEF Compare
<1>9. ASSUME NEW p \in Packages, Replace(p)
      PROVE  TypeOK'
  BY <1>9 DEF Replace
<1>10. CASE UNCHANGED vars
  BY <1>10 DEF vars
<1>. QED
  BY <1>1, <1>2, <1>3, <1>4, <1>5, <1>6, <1>7, <1>8, <1>9, <1>10 DEF Next, Step

(***************************************************************************)
(* The download's variables keep their types: no try has more requests     *)
(* than its resumes allow, and no URL behind the last one is asked.        *)
(***************************************************************************)
THEOREM DownloadTypeCorrect == Spec => []TypeOK
  BY InitTypeOK, NextTypeOK, PTL DEF Spec
-----------------------------------------------------------------------------
(***************************************************************************)
(* The inductive invariant.  What an answer brings continues the file,     *)
(* and as long as only the wanted package has answered, the file is a      *)
(* prefix of it, the expected length is its length or unknown, and a       *)
(* complete file is all of it.                                             *)
(***************************************************************************)
BodyContinues ==
  at = "body" => /\ body.next = Len(file) + 1
                 /\ body.next <= Size[body.of] + 1
                 /\ body.sized => total # 0

Prefix ==
  /\ Len(file) <= Size[Wanted]
  /\ \A i \in 1..Len(file) : file[i] = [of |-> Wanted, pos |-> i]

Pure ==
  /\ Prefix
  /\ total \in {0, Size[Wanted]}
  /\ at = "body" => body.of = Wanted
  /\ at \in {"done", "corrupt"} => Len(file) = Size[Wanted]

DownloadInv == BodyContinues /\ (~mixed => Pure)

LEMMA WholeFile ==
  ASSUME TypeOK, Prefix, Len(file) = Size[Wanted]
  PROVE  file = Content(Wanted)
<1>1. DOMAIN file = 1..Size[Wanted] /\ file = [i \in DOMAIN file |-> file[i]]
  BY DEF TypeOK
<1>. QED
  BY <1>1 DEF Prefix, Content

LEMMA FailsInv ==
  ASSUME TypeOK, DownloadInv, RequestFails
  PROVE  DownloadInv'
<1>1. CASE Resume
  BY <1>1, DownloadAssumption DEF TypeOK, DownloadInv, BodyContinues, Pure, Prefix,
     RequestFails, Resume
<1>2. CASE StartOver
  BY <1>2, DownloadAssumption DEF TypeOK, DownloadInv, BodyContinues, Pure, Prefix,
     RequestFails, StartOver
<1>3. CASE at' = "failed" /\ UNCHANGED <<progress, total, file, mixed>>
  BY <1>3, DownloadAssumption DEF TypeOK, DownloadInv, BodyContinues, Pure, Prefix,
     RequestFails
<1>. QED
  BY <1>1, <1>2, <1>3 DEF RequestFails

LEMMA NextInv ==
  ASSUME TypeOK, DownloadInv, [Next]_vars
  PROVE  DownloadInv'
<1> USE DownloadAssumption DEF TypeOK, DownloadInv, BodyContinues, Pure, Prefix, progress
<1>1. CASE NoAnswer
  BY <1>1, FailsInv DEF NoAnswer
<1>2. CASE Answer416
  <2>1. /\ at = "ask" /\ at' = "done" /\ Len(file) >= Size[site]
        /\ mixed' = (mixed \/ site # Wanted)
        /\ UNCHANGED <<total, file, body>>
    BY <1>2 DEF Answer416, Reads, Downloaded
  <2>2. Len(file) \in Nat /\ Size[Wanted] \in Nat
    OBVIOUS
  <2>3. ASSUME ~mixed'
        PROVE  Pure'
    <3>1. ~mixed /\ site = Wanted
      BY <2>1, <2>3
    <3>2. Len(file) = Size[Wanted]
      BY <2>1, <2>2, <3>1
    <3>3. Prefix' /\ total' \in {0, Size[Wanted]}
      BY <2>1, <3>1
    <3>. QED
      BY <2>1, <3>2, <3>3
  <2>. QED
    BY <2>1, <2>3
<1>3. CASE Answer206
  <2>1. /\ at = "ask" /\ at' = "body"
        /\ Len(file) < Size[site]
        /\ mixed' = (mixed \/ site # Wanted)
        /\ body'.of = site /\ body'.next = Len(file) + 1
        /\ total' = IF total = 0 THEN Size[site] ELSE total
        /\ file' = file
    BY <1>3 DEF Answer206, Reads, Downloaded
  <2>2. Len(file) \in Nat /\ Size[site] \in Nat \ {0} /\ Size[Wanted] \in Nat \ {0}
    OBVIOUS
  <2>3. BodyContinues'
    BY <2>1, <2>2
  <2>4. ~mixed' => Pure'
    BY <2>1, <2>2
  <2>. QED
    BY <2>3, <2>4
<1>4. ASSUME NEW sized \in BOOLEAN, Answer200(sized)
      PROVE  DownloadInv'
  <2>1. /\ at = "ask" /\ at' = "body"
        /\ mixed' = (mixed \/ site # Wanted)
        /\ body'.of = site /\ body'.next = 1 /\ body'.sized = sized
        /\ total' = IF total = 0 /\ sized THEN Size[site] ELSE total
        /\ file' = <<>>
    BY <1>4 DEF Answer200, Reads, Emptied
  <2>2. Size[site] \in Nat \ {0} /\ Size[Wanted] \in Nat \ {0} /\ Len(file') = 0
    BY <2>1, EmptyFile
  <2>3. BodyContinues'
    BY <2>1, <2>2
  <2>4. ASSUME ~mixed'
        PROVE  Pure'
    <3>1. ~mixed /\ site = Wanted
      BY <2>1, <2>4
    <3>2. total' \in {0, Size[Wanted]}
      BY <2>1, <3>1
    <3>3. Prefix'
      BY <2>1, <2>2
    <3>. QED
      BY <2>1, <3>1, <3>2, <3>3
  <2>. QED
    BY <2>3, <2>4
<1>5. CASE Chunk
  <2>1. /\ Len(file') = Len(file) + 1
        /\ \A i \in 1..Len(file) : file'[i] = file[i]
        /\ file'[Len(file) + 1] = [of |-> body.of, pos |-> body.next]
    BY <1>5 DEF Chunk
  <2>2. /\ body'.of = body.of /\ body'.next = body.next + 1
        /\ body'.sized = body.sized
    BY <1>5 DEF Chunk
  <2>3. body.next <= Size[body.of] /\ at = "body" /\ at' = "body"
    BY <1>5 DEF Chunk, BodyWhole
  <2>4. BodyContinues'
    BY <1>5, <2>1, <2>2, <2>3 DEF Chunk
  <2>5. ASSUME ~mixed'
        PROVE  Pure'
    <3>1. ~mixed /\ body.of = Wanted
      BY <1>5, <2>3, <2>5 DEF Chunk
    <3>2. Prefix'
      <4>1. \A i \in 1..(Len(file) + 1) : i \in 1..Len(file) \/ i = Len(file) + 1
        OBVIOUS
      <4>2. Len(file) \in Nat /\ Size[Wanted] \in Nat
        OBVIOUS
      <4>3. Len(file') <= Size[Wanted]
        BY <2>1, <2>3, <3>1, <4>2
      <4>4. body.next = Len(file) + 1
        BY <2>3
      <4>5. ASSUME NEW i \in 1..Len(file')
            PROVE  file'[i] = [of |-> Wanted, pos |-> i]
        <5>1. CASE i \in 1..Len(file)
          BY <2>1, <3>1, <5>1
        <5>2. CASE i = Len(file) + 1
          BY <2>1, <3>1, <4>4, <5>2
        <5>. QED
          BY <2>1, <4>1, <4>2, <5>1, <5>2
      <4>. QED
        BY <4>3, <4>5
    <3>. QED
      BY <1>5, <2>2, <2>3, <3>1, <3>2 DEF Chunk
  <2>. QED
    BY <2>4, <2>5
<1>6. CASE BodyEnds
  <2>1. CASE Complete
    BY <1>6, <2>1 DEF BodyEnds, StreamEnds, BodyWhole, Complete, Downloaded
  <2>2. CASE ~Complete
    BY <1>6, <2>2, FailsInv DEF BodyEnds
  <2>. QED
    BY <2>1, <2>2
<1>7. CASE BodyBreaks
  BY <1>7, FailsInv DEF BodyBreaks
<1>8. CASE Compare
  BY <1>8 DEF Compare
<1>9. ASSUME NEW p \in Packages, Replace(p)
      PROVE  DownloadInv'
  BY <1>9 DEF Replace
<1>10. CASE UNCHANGED vars
  BY <1>10 DEF vars
<1>. QED
  BY <1>1, <1>2, <1>3, <1>4, <1>5, <1>6, <1>7, <1>8, <1>9, <1>10 DEF Next, Step

LEMMA InitInv == Init => DownloadInv
  BY DownloadAssumption DEF Init, DownloadInv, BodyContinues, Pure, Prefix

LEMMA InvMismatch == TypeOK /\ DownloadInv => MismatchIsReplaced
  BY WholeFile DEF DownloadInv, Pure, MismatchIsReplaced

(***************************************************************************)
(* For any package, any length and any sequence of cuts, resumes and       *)
(* restarts: only another package makes the checksum of a complete         *)
(* download differ.                                                        *)
(***************************************************************************)
THEOREM MismatchExplained == Spec => []MismatchIsReplaced
<1>1. Init => TypeOK /\ DownloadInv
  BY InitTypeOK, InitInv
<1>2. (TypeOK /\ DownloadInv) /\ [Next]_vars => (TypeOK /\ DownloadInv)'
  BY NextTypeOK, NextInv
<1>3. TypeOK /\ DownloadInv => MismatchIsReplaced
  BY InvMismatch
<1>. QED
  BY <1>1, <1>2, <1>3, PTL DEF Spec
-----------------------------------------------------------------------------
(***************************************************************************)
(* OutboxConnection.  A dial that has an open connection still has it when *)
(* it uses it: a connection lost during createChannel or a declaration     *)
(* ends the dial, and only the list of the nodes goes on without one.      *)
(***************************************************************************)
DialsAreUp == \A c \in Conns : step[c] \in {"channel", "declare", "bind"} => c \in up

LinkInvar == LinkInv /\ DialsAreUp

\* The connections there are or may be: those open and those being dialled.
Used == up \cup {c \in Conns : Link!Dialing(c)}

\* The instance's finite sets are those of this module.
LEMMA SameCardinality ==
  /\ \A S : Link!IsFiniteSet(S) = IsFiniteSet(S)
  /\ \A S : Link!Cardinality(S) = Cardinality(S)
  BY DEF Link!IsFiniteSet, IsFiniteSet, Link!Cardinality, Cardinality

LEMMA LinkFacts ==
  /\ None \notin Conns /\ IsFiniteSet(Conns)
  /\ MaxFaults \in Nat /\ MaxFlushes \in Nat
  BY LinkAssumption, SameCardinality, Zenon DEF Link!ConnectionAssumption

LEMMA UsedIsFinite ==
  ASSUME LinkInv
  PROVE  /\ IsFiniteSet(Used) /\ Cardinality(Used) \in Nat
         /\ Cardinality(Used) + sleeping <= 1 + flushes + broken
<1>1. Used \subseteq Conns
  BY DEF Used, LinkInv, Link!ConnectionInv, Link!TypeOK
<1>2. IsFiniteSet(Used) /\ Cardinality(Used) \in Nat
  BY <1>1, LinkFacts, FS_Subset, FS_CardinalityType
<1>3. Link!Cardinality(Used) + sleeping <= 1 + (flushes + broken)
  BY Zenon DEF Used, LinkInv, Link!ConnectionInv, Link!LoopsAreAccounted, Link!Extras
<1>4. Link!Cardinality(Used) = Cardinality(Used)
  BY SameCardinality
<1>5. sleeping \in Nat /\ flushes \in Nat /\ broken \in Nat
  BY DEF LinkInv, Link!ConnectionInv, Link!TypeOK
<1>. QED BY <1>2, <1>3, <1>4, <1>5

LEMMA OneMore ==
  ASSUME NEW S, IsFiniteSet(S), NEW d
  PROVE  /\ IsFiniteSet(S \cup {d}) /\ Cardinality(S \cup {d}) \in Nat
         /\ Cardinality(S \cup {d}) <= Cardinality(S) + 1
<1>1. IsFiniteSet(S \cup {d})
  BY FS_AddElement
<1>2. Cardinality(S \cup {d}) = IF d \in S THEN Cardinality(S) ELSE Cardinality(S) + 1
  BY FS_AddElement
<1>3. Cardinality(S) \in Nat
  BY FS_CardinalityType
<1>. QED BY <1>1, <1>2, <1>3

LEMMA Sums ==
  ASSUME NEW x \in Nat, NEW y \in Nat, NEW s \in Nat, NEW u \in Nat, NEW e \in Nat,
         NEW f \in Nat, NEW g \in Nat, NEW h \in Nat, y + u <= 1 + e + f
  PROVE  /\ x <= y /\ s + e + f <= u + g + h => x + s <= 1 + g + h
         /\ x <= y + 1 /\ s + e + f + 1 <= u + g + h => x + s <= 1 + g + h
         /\ x <= y - 1 /\ s + e + f <= u + g + h + 1 => x + s <= 1 + g + h
  OBVIOUS


\* The four ways in which a step keeps the account: nothing new is used; a loop
\* or an extra pays for a dial; a connection that goes pays for a loop; or for
\* a dial.  The values of the next state have names of their own.
Accounting(c, d, s, g, h) ==
  \/ /\ Used' \subseteq Used
     /\ s + flushes + broken <= sleeping + g + h
  \/ /\ Used' \subseteq Used \cup {d}
     /\ s + flushes + broken + 1 <= sleeping + g + h
  \/ /\ c \in Used /\ Used' \subseteq Used \ {c}
     /\ s + flushes + broken <= sleeping + g + h + 1
  \/ /\ c \in Used /\ Used' \subseteq (Used \ {c}) \cup {d}
     /\ s + flushes + broken <= sleeping + g + h

LEMMA StillAccounted ==
  ASSUME LinkInv, NEW c, NEW d,
         NEW s \in Nat, NEW g \in Nat, NEW h \in Nat,
         s = sleeping', g = flushes', h = broken',
         Accounting(c, d, s, g, h)
  PROVE  Link!LoopsAreAccounted'
<1>0. /\ IsFiniteSet(Used) /\ Cardinality(Used) \in Nat
      /\ Cardinality(Used) + sleeping <= 1 + flushes + broken
      /\ sleeping \in Nat /\ flushes \in Nat /\ broken \in Nat
  BY UsedIsFinite DEF LinkInv, Link!ConnectionInv, Link!TypeOK
<1> PICK U : U = Used'
  OBVIOUS
<1> PICK y : y = Cardinality(Used)
  OBVIOUS
<1> PICK x : x = Cardinality(U)
  OBVIOUS
<1>1. U \subseteq Used => x \in Nat /\ x <= y
  BY <1>0, FS_Subset, FS_CardinalityType
<1>2. U \subseteq Used \cup {d} => x \in Nat /\ x <= y + 1
  <2>1. /\ IsFiniteSet(Used \cup {d}) /\ Cardinality(Used \cup {d}) \in Nat
        /\ Cardinality(Used \cup {d}) <= y + 1
    BY <1>0, OneMore
  <2>2. U \subseteq Used \cup {d} => x \in Nat /\ x <= Cardinality(Used \cup {d})
    BY <2>1, FS_Subset, FS_CardinalityType
  <2>. QED BY <1>0, <2>1, <2>2
<1>3. c \in Used =>
        /\ IsFiniteSet(Used \ {c}) /\ Cardinality(Used \ {c}) \in Nat
        /\ Cardinality(Used \ {c}) = y - 1
  BY <1>0, FS_RemoveElement, FS_CardinalityType
<1>4. c \in Used /\ U \subseteq Used \ {c} => x \in Nat /\ x <= y - 1
  BY <1>3, FS_Subset, FS_CardinalityType
<1>5. c \in Used /\ U \subseteq (Used \ {c}) \cup {d} => x \in Nat /\ x <= y
  <2> SUFFICES ASSUME c \in Used, U \subseteq (Used \ {c}) \cup {d}
               PROVE  x \in Nat /\ x <= y
    OBVIOUS
  <2>1. /\ IsFiniteSet((Used \ {c}) \cup {d}) /\ Cardinality((Used \ {c}) \cup {d}) \in Nat
        /\ Cardinality((Used \ {c}) \cup {d}) <= Cardinality(Used \ {c}) + 1
    BY <1>3, OneMore
  <2>2. x \in Nat /\ x <= Cardinality((Used \ {c}) \cup {d})
    BY <2>1, FS_Subset, FS_CardinalityType
  <2>. QED BY <1>0, <1>3, <2>1, <2>2
<1>6. x \in Nat /\ x + s <= 1 + g + h
  <2> PICK u : u = sleeping
    OBVIOUS
  <2> PICK e : e = flushes
    OBVIOUS
  <2> PICK f : f = broken
    OBVIOUS
  <2>0. y \in Nat /\ u \in Nat /\ e \in Nat /\ f \in Nat /\ y + u <= 1 + e + f
    BY <1>0
  <2>1. CASE /\ U \subseteq Used
             /\ s + e + f <= u + g + h
    <3>1. x \in Nat /\ x <= y
      BY <1>1, <2>1
    <3>2. s + e + f <= u + g + h
      BY <2>1
    <3>. QED BY <2>0, <3>1, <3>2, Sums
  <2>2. CASE /\ U \subseteq Used \cup {d}
             /\ s + e + f + 1 <= u + g + h
    <3>1. x \in Nat /\ x <= y + 1
      BY <1>2, <2>2
    <3>2. s + e + f + 1 <= u + g + h
      BY <2>2
    <3>. QED BY <2>0, <3>1, <3>2, Sums
  <2>3. CASE /\ c \in Used /\ U \subseteq Used \ {c}
             /\ s + e + f <= u + g + h + 1
    <3>1. x \in Nat /\ x <= y - 1
      BY <1>4, <2>3
    <3>2. s + e + f <= u + g + h + 1
      BY <2>3
    <3>. QED BY <2>0, <3>1, <3>2, Sums
  <2>4. CASE /\ c \in Used /\ U \subseteq (Used \ {c}) \cup {d}
             /\ s + e + f <= u + g + h
    <3>1. x \in Nat /\ x <= y
      BY <1>5, <2>4
    <3>2. s + e + f <= u + g + h
      BY <2>4
    <3>. QED BY <2>0, <3>1, <3>2, Sums
  <2>. QED BY <2>1, <2>2, <2>3, <2>4 DEF Accounting
<1>7. Link!Cardinality(U) + s <= 1 + (g + h)
  BY <1>6, SameCardinality
<1>. QED BY <1>7, Zenon DEF Used, Link!LoopsAreAccounted, Link!Extras

\* The steps of the connection by what they do to the account.
LEMMA StepAccounted ==
  ASSUME LinkInv, NEW c, NEW d,
         \/ Used' \subseteq Used /\ UNCHANGED <<sleeping, flushes, broken>>
         \/ /\ c \in Used /\ Used' \subseteq Used \ {c}
            /\ sleeping' = Link!LoopsAfterFailure /\ UNCHANGED <<flushes, broken>>
         \/ /\ Used' \subseteq Used
            /\ sleeping' = Link!LoopsAfterFailure /\ broken' = broken + 1
            /\ UNCHANGED flushes
         \/ /\ Used' \subseteq Used \cup {d}
            /\ sleeping > 0 /\ sleeping' = sleeping - 1 /\ UNCHANGED <<flushes, broken>>
         \/ /\ Used' \subseteq Used \cup {d}
            /\ flushes' = flushes + 1 /\ UNCHANGED <<sleeping, broken>>
         \/ /\ c \in Used /\ Used' \subseteq (Used \ {c}) \cup {d}
            /\ UNCHANGED <<sleeping, flushes, broken>>
  PROVE  Link!LoopsAreAccounted'
<1> PICK s : s = sleeping'
  OBVIOUS
<1> PICK g : g = flushes'
  OBVIOUS
<1> PICK h : h = broken'
  OBVIOUS
<1>0. sleeping \in Nat /\ flushes \in Nat /\ broken \in Nat
  BY DEF LinkInv, Link!ConnectionInv, Link!TypeOK
<1>1. CASE Used' \subseteq Used /\ UNCHANGED <<sleeping, flushes, broken>>
  <2>1. s = sleeping /\ g = flushes /\ h = broken
    BY <1>1
  <2>2. s \in Nat /\ g \in Nat /\ h \in Nat /\ s + flushes + broken <= sleeping + g + h
    BY <1>0, <2>1
  <2>. QED BY <1>1, <2>2, StillAccounted DEF Accounting
<1>2. CASE /\ c \in Used /\ Used' \subseteq Used \ {c}
           /\ sleeping' = Link!LoopsAfterFailure /\ UNCHANGED <<flushes, broken>>
  <2>1. (s = sleeping \/ s = sleeping + 1) /\ g = flushes /\ h = broken
    BY <1>2 DEF Link!LoopsAfterFailure
  <2>2. s \in Nat /\ g \in Nat /\ h \in Nat /\ s + flushes + broken <= sleeping + g + h + 1
    BY <1>0, <2>1
  <2>. QED BY <1>2, <2>2, StillAccounted DEF Accounting
<1>3. CASE /\ Used' \subseteq Used
           /\ sleeping' = Link!LoopsAfterFailure /\ broken' = broken + 1
           /\ UNCHANGED flushes
  <2>1. (s = sleeping \/ s = sleeping + 1) /\ g = flushes /\ h = broken + 1
    BY <1>3 DEF Link!LoopsAfterFailure
  <2>2. s \in Nat /\ g \in Nat /\ h \in Nat /\ s + flushes + broken <= sleeping + g + h
    BY <1>0, <2>1
  <2>. QED BY <1>3, <2>2, StillAccounted DEF Accounting
<1>4. CASE /\ Used' \subseteq Used \cup {d}
           /\ sleeping > 0 /\ sleeping' = sleeping - 1 /\ UNCHANGED <<flushes, broken>>
  <2>1. sleeping > 0 /\ s = sleeping - 1 /\ g = flushes /\ h = broken
    BY <1>4
  <2>2. s \in Nat /\ g \in Nat /\ h \in Nat
        /\ s + flushes + broken + 1 <= sleeping + g + h
    BY <1>0, <2>1
  <2>. QED BY <1>4, <2>2, StillAccounted DEF Accounting
<1>5. CASE /\ Used' \subseteq Used \cup {d}
           /\ flushes' = flushes + 1 /\ UNCHANGED <<sleeping, broken>>
  <2>1. s = sleeping /\ g = flushes + 1 /\ h = broken
    BY <1>5
  <2>2. s \in Nat /\ g \in Nat /\ h \in Nat
        /\ s + flushes + broken + 1 <= sleeping + g + h
    BY <1>0, <2>1
  <2>. QED BY <1>5, <2>2, StillAccounted DEF Accounting
<1>6. CASE /\ c \in Used /\ Used' \subseteq (Used \ {c}) \cup {d}
           /\ UNCHANGED <<sleeping, flushes, broken>>
  <2>1. s = sleeping /\ g = flushes /\ h = broken
    BY <1>6
  <2>2. s \in Nat /\ g \in Nat /\ h \in Nat /\ s + flushes + broken <= sleeping + g + h
    BY <1>0, <2>1
  <2>. QED BY <1>6, <2>2, StillAccounted DEF Accounting
<1>. QED BY <1>1, <1>2, <1>3, <1>4, <1>5, <1>6

LEMMA InitLink == Link!Init => LinkInvar
<1> SUFFICES ASSUME Link!Init
             PROVE  LinkInvar
  OBVIOUS
<1>1. PICK c \in Conns : step = [d \in Conns |-> IF d = c THEN "open" ELSE "free"]
  BY DEF Link!Init
<1>2. Link!TypeOK
  BY <1>1, LinkFacts DEF Link!Init, Link!TypeOK, Link!Steps, Link!Awaits
<1>3. \A d \in Conns : Link!Dialing(d) <=> d = c
  BY <1>1 DEF Link!Dialing, Link!Awaits
<1>4. Link!OneDial /\ Link!AlwaysTended /\ Link!LiveIsUp /\ DialsAreUp
  BY <1>1, <1>3 DEF Link!Init, Link!OneDial, Link!AlwaysTended, Link!LiveIsUp, DialsAreUp
<1>5. Link!LoopsAreAccounted
  <2>1. up \cup {d \in Conns : Link!Dialing(d)} = {c}
    BY <1>3 DEF Link!Init
  <2>2. Link!Cardinality({c}) = 1
    BY SameCardinality, FS_Singleton
  <2>. QED BY <2>1, <2>2 DEF Link!Init, Link!LoopsAreAccounted, Link!Extras
<1>. QED BY <1>2, <1>4, <1>5 DEF LinkInvar, LinkInv, Link!ConnectionInv

\* What the types, the lock and the tending say, without the account.
LinkCore == /\ Link!TypeOK /\ Link!OneDial /\ Link!AlwaysTended /\ Link!LiveIsUp
            /\ DialsAreUp

\* A dial that goes on, or whose handshake was given up, leaves the rest alone.
LEMMA DialGoesOn ==
  ASSUME LinkInvar, UNCHANGED hasNodes, NEW c \in Conns,
         Link!Handshake(c) \/ Link!ChannelOpened(c) \/ Link!Declared(c) \/ Link!LateEnds(c)
  PROVE  LinkInvar'
<1>1. LinkInv /\ LinkCore /\ sleeping \in Nat /\ flushes \in Nat /\ broken \in Nat
  BY DEF LinkInvar, LinkCore, LinkInv, Link!ConnectionInv, Link!TypeOK
<1>2. LinkCore'
  BY <1>1, LinkFacts
     DEF Link!Handshake, Link!ChannelOpened, Link!Declared, Link!LateEnds, LinkCore,
         Link!TypeOK, Link!OneDial, Link!AlwaysTended, Link!LiveIsUp, DialsAreUp,
         Link!Dialing, Link!Steps, Link!Awaits
<1>3. Used' \subseteq Used /\ UNCHANGED <<sleeping, flushes, broken>>
  BY <1>1
     DEF Link!Handshake, Link!ChannelOpened, Link!Declared, Link!LateEnds, LinkCore, Used,
         Link!TypeOK, Link!Dialing, Link!Steps, Link!Awaits
<1>4. Link!LoopsAreAccounted'
  BY <1>1, <1>3, StepAccounted
<1>. QED BY <1>2, <1>4 DEF LinkInvar, LinkCore, LinkInv, Link!ConnectionInv

LEMMA LoopsType ==
  ASSUME LinkInvar
  PROVE  /\ Link!LoopsAfterFailure \in Nat
         /\ Link!LoopsAfterFailure > 0 \/ destroyed
  BY DEF LinkInvar, LinkInv, Link!ConnectionInv, Link!TypeOK, Link!LoopsAfterFailure

\* The fields of the invariant that the proofs of the steps begin with.
LEMMA CoreOf ==
  ASSUME LinkInvar
  PROVE  /\ LinkInv /\ LinkCore
         /\ sleeping \in Nat /\ faults \in Nat /\ flushes \in Nat /\ broken \in Nat
         /\ Link!LoopsAfterFailure \in Nat
         /\ Link!LoopsAfterFailure > 0 \/ destroyed
  BY LoopsType DEF LinkInvar, LinkCore, LinkInv, Link!ConnectionInv, Link!TypeOK

LEMMA OfCore ==
  ASSUME LinkCore', Link!LoopsAreAccounted'
  PROVE  LinkInvar'
  BY DEF LinkInvar, LinkCore, LinkInv, Link!ConnectionInv

\* A dial that fails before its handlers are there is replaced by a loop.
LEMMA DialFails ==
  ASSUME LinkInvar, UNCHANGED hasNodes, NEW c \in Conns,
         Link!Refused(c) \/ Link!Timeout(c) \/ Link!LoseEarly(c)
  PROVE  LinkInvar'
<1>1. /\ LinkInv /\ LinkCore
      /\ sleeping \in Nat /\ faults \in Nat /\ flushes \in Nat /\ broken \in Nat
      /\ Link!LoopsAfterFailure \in Nat
      /\ Link!LoopsAfterFailure > 0 \/ destroyed
  BY CoreOf
<1>2. /\ step[c] \in {"open", "channel"}
      /\ step' \in [Conns -> Link!Steps]
      /\ step'[c] \in {"free", "late"} /\ \A d \in Conns \ {c} : step'[d] = step[d]
      /\ up' = up \ {c} /\ faults' = faults + 1
      /\ connecting' = FALSE /\ sleeping' = Link!LoopsAfterFailure
      /\ UNCHANGED <<live, destroyed, flushes, broken>>
  <2>1. CASE Link!Refused(c) \/ Link!Timeout(c)
    BY <1>1, <2>1
       DEF Link!Refused, Link!Timeout, Link!Fault, Link!Fail, LinkCore, Link!TypeOK, Link!Steps,
           Link!Awaits
  <2>2. CASE Link!LoseEarly(c)
    BY <1>1, <2>2
       DEF Link!LoseEarly, Link!Moved, Link!Fault, Link!Fail, LinkCore, Link!TypeOK,
           Link!Steps, Link!Awaits
  <2>. QED BY <2>1, <2>2
<1>3. live # c
  BY <1>1, <1>2, LinkFacts DEF LinkCore, Link!TypeOK
<1>4. \A d \in Conns : ~Link!Dialing(d)'
  BY <1>1, <1>2 DEF LinkCore, Link!OneDial, Link!Dialing, Link!Awaits
<1>5. LinkCore'
  <2>1. Link!TypeOK'
    <3>0. /\ hasNodes' \in BOOLEAN /\ connecting' \in BOOLEAN /\ destroyed' \in BOOLEAN
          /\ live' \in Conns \cup {None} /\ up' \subseteq Conns
      BY <1>1, <1>2 DEF LinkCore, Link!TypeOK
    <3>1. sleeping' \in Nat /\ faults' \in Nat /\ flushes' \in Nat /\ broken' \in Nat
      BY <1>1, <1>2
    <3>2. live' # None => step'[live'] = "done"
      BY <1>1, <1>2, <1>3 DEF LinkCore, Link!TypeOK
    <3>3. \A d \in up' : step'[d] \in Link!Steps \ {"free", "late", "open"}
      BY <1>1, <1>2 DEF LinkCore, Link!TypeOK
    <3>. QED BY <1>2, <3>0, <3>1, <3>2, <3>3 DEF Link!TypeOK
  <2>2. Link!OneDial' /\ Link!LiveIsUp' /\ DialsAreUp'
    BY <1>1, <1>2, <1>3, <1>4
       DEF LinkCore, Link!TypeOK, Link!OneDial, Link!LiveIsUp, DialsAreUp
  <2>3. Link!AlwaysTended'
    BY <1>1, <1>2 DEF Link!AlwaysTended
  <2>. QED BY <2>1, <2>2, <2>3 DEF LinkCore
<1>6. c \in Used /\ Used' \subseteq Used \ {c}
  BY <1>1, <1>2, <1>4 DEF Used, LinkCore, Link!TypeOK, Link!Dialing, Link!Awaits
<1>7. Link!LoopsAreAccounted'
  BY <1>1, <1>2, <1>6, StepAccounted
<1>. QED BY <1>5, <1>7, OfCore

\* A refused declaration leaves its connection open, a loop and an extra.
LEMMA DeclarationFails ==
  ASSUME LinkInvar, UNCHANGED hasNodes, NEW c \in Conns, Link!DeclarationRefused(c)
  PROVE  LinkInvar'
<1>1. /\ LinkInv /\ LinkCore
      /\ sleeping \in Nat /\ faults \in Nat /\ flushes \in Nat /\ broken \in Nat
      /\ Link!LoopsAfterFailure \in Nat
      /\ Link!LoopsAfterFailure > 0 \/ destroyed
  BY CoreOf
<1>2. /\ step[c] \in {"declare", "bind"} /\ c \in up
      /\ step' = [step EXCEPT ![c] = "done"]
      /\ faults' = faults + 1 /\ broken' = broken + 1
      /\ connecting' = FALSE /\ sleeping' = Link!LoopsAfterFailure
      /\ UNCHANGED <<up, live, destroyed, flushes>>
  BY <1>1 DEF Link!DeclarationRefused, Link!Fault, Link!Fail, LinkCore, DialsAreUp
<1>3. live # c
  BY <1>1, <1>2, LinkFacts DEF LinkCore, Link!TypeOK
<1>4. \A d \in Conns : ~Link!Dialing(d)'
  BY <1>1, <1>2 DEF LinkCore, Link!TypeOK, Link!OneDial, Link!Dialing, Link!Awaits
<1>5. LinkCore'
  <2>1. Link!TypeOK'
    <3>0. /\ hasNodes' \in BOOLEAN /\ connecting' \in BOOLEAN /\ destroyed' \in BOOLEAN
          /\ live' \in Conns \cup {None} /\ up' \subseteq Conns
      BY <1>1, <1>2 DEF LinkCore, Link!TypeOK
    <3>1. sleeping' \in Nat /\ faults' \in Nat /\ flushes' \in Nat /\ broken' \in Nat
      BY <1>1, <1>2
    <3>2. step' \in [Conns -> Link!Steps]
      BY <1>1, <1>2 DEF LinkCore, Link!TypeOK, Link!Steps
    <3>3. live' # None => step'[live'] = "done"
      BY <1>1, <1>2, <1>3 DEF LinkCore, Link!TypeOK
    <3>4. \A d \in up' : step'[d] \in Link!Steps \ {"free", "late", "open"}
      BY <1>1, <1>2 DEF LinkCore, Link!TypeOK, Link!Steps
    <3>. QED BY <3>0, <3>1, <3>2, <3>3, <3>4 DEF Link!TypeOK
  <2>2. Link!OneDial' /\ Link!LiveIsUp' /\ DialsAreUp'
    BY <1>1, <1>2, <1>3, <1>4
       DEF LinkCore, Link!TypeOK, Link!OneDial, Link!LiveIsUp, DialsAreUp
  <2>3. Link!AlwaysTended'
    BY <1>1, <1>2 DEF Link!AlwaysTended
  <2>. QED BY <2>1, <2>2, <2>3 DEF LinkCore
<1>6. Used' \subseteq Used
  BY <1>1, <1>2, <1>4 DEF Used
<1>7. Link!LoopsAreAccounted'
  BY <1>1, <1>2, <1>6, StepAccounted
<1>. QED BY <1>5, <1>7, OfCore

\* The end of a dial: its connection is the channel's, and open where there are
\* node queues.
LEMMA DialPublishes ==
  ASSUME LinkInvar, UNCHANGED hasNodes, NEW c \in Conns,
         Link!ListedNone(c) \/ Link!Bound(c)
  PROVE  LinkInvar'
<1>1. /\ LinkInv /\ LinkCore
      /\ sleeping \in Nat /\ faults \in Nat /\ flushes \in Nat /\ broken \in Nat
  BY CoreOf
<1>2. /\ step[c] \in {"list", "bind"} /\ (hasNodes => c \in up)
      /\ step' = [Link!Moved(Link!DeadLive, {}) EXCEPT ![c] = "done"]
      /\ live' = c /\ connecting' = FALSE
      /\ UNCHANGED <<up, sleeping, destroyed, faults, flushes, broken>>
  BY <1>1 DEF Link!ListedNone, Link!Bound, Link!Publish, LinkCore, DialsAreUp
<1>3. /\ step' \in [Conns -> Link!Steps] /\ step'[c] = "done"
      /\ \A d \in Conns \ {c} :
            step'[d] = step[d] \/ (d \notin up /\ step'[d] = "free")
      /\ \A d \in up \ {c} : step'[d] = step[d]
  BY <1>1, <1>2
     DEF LinkCore, Link!TypeOK, Link!Steps, Link!Awaits, Link!Moved, Link!DeadLive
<1>4. \A d \in Conns : ~Link!Dialing(d)'
  BY <1>1, <1>2, <1>3 DEF LinkCore, Link!TypeOK, Link!OneDial, Link!Dialing, Link!Awaits
<1>5. LinkCore'
  <2>1. Link!TypeOK'
    <3>1. /\ hasNodes' \in BOOLEAN /\ connecting' \in BOOLEAN /\ destroyed' \in BOOLEAN
          /\ live' \in Conns \cup {None} /\ up' \subseteq Conns
      BY <1>1, <1>2 DEF LinkCore, Link!TypeOK
    <3>2. sleeping' \in Nat /\ faults' \in Nat /\ flushes' \in Nat /\ broken' \in Nat
      BY <1>1, <1>2
    <3>3. live' # None => step'[live'] = "done"
      BY <1>2, <1>3
    <3>4. \A d \in up' : step'[d] \in Link!Steps \ {"free", "late", "open"}
      BY <1>1, <1>2, <1>3 DEF LinkCore, Link!TypeOK
    <3>. QED BY <1>3, <3>1, <3>2, <3>3, <3>4 DEF Link!TypeOK
  <2>2. Link!OneDial' /\ Link!LiveIsUp' /\ DialsAreUp'
    <3>1. DialsAreUp'
      BY <1>4 DEF DialsAreUp, Link!Dialing, Link!Awaits
    <3>. QED BY <1>2, <1>4, <3>1 DEF Link!OneDial, Link!LiveIsUp
  <2>3. Link!AlwaysTended'
    BY <1>2, LinkFacts DEF Link!AlwaysTended
  <2>. QED BY <2>1, <2>2, <2>3 DEF LinkCore
<1>6. Used' \subseteq Used
  BY <1>2, <1>4 DEF Used
<1>7. Link!LoopsAreAccounted'
  BY <1>1, <1>2, <1>6, StepAccounted
<1>. QED BY <1>5, <1>7, OfCore

\* The list of the nodes comes: the dial goes on if its connection is open.
LEMMA NodesListed ==
  ASSUME LinkInvar, UNCHANGED hasNodes, NEW c \in Conns, Link!Listed(c)
  PROVE  LinkInvar'
<1>1. /\ LinkInv /\ LinkCore
      /\ sleeping \in Nat /\ faults \in Nat /\ flushes \in Nat /\ broken \in Nat
      /\ Link!LoopsAfterFailure \in Nat
      /\ Link!LoopsAfterFailure > 0 \/ destroyed
  BY CoreOf
<1>2. step[c] = "list" /\ UNCHANGED <<up, live, destroyed, faults, flushes, broken>>
  BY DEF Link!Listed
<1>3. CASE c \in up
  <2>1. step' = [step EXCEPT ![c] = "bind"] /\ UNCHANGED <<connecting, sleeping>>
    BY <1>3 DEF Link!Listed
  <2>2. LinkCore'
    BY <1>1, <1>2, <1>3, <2>1, LinkFacts
       DEF LinkCore, Link!TypeOK, Link!OneDial, Link!AlwaysTended, Link!LiveIsUp,
           DialsAreUp, Link!Dialing, Link!Steps, Link!Awaits
  <2>3. Used' \subseteq Used
    BY <1>1, <1>2, <1>3, <2>1
       DEF LinkCore, Used, Link!TypeOK, Link!Dialing, Link!Steps, Link!Awaits
  <2>4. Link!LoopsAreAccounted'
    BY <1>1, <1>2, <2>1, <2>3, StepAccounted
  <2>. QED BY <2>2, <2>4, OfCore
<1>4. CASE c \notin up
  <2>1. /\ step' = [step EXCEPT ![c] = "free"]
        /\ connecting' = FALSE /\ sleeping' = Link!LoopsAfterFailure
    BY <1>4 DEF Link!Listed, Link!Fail
  <2>2. live # c
    BY <1>1, <1>2, LinkFacts DEF LinkCore, Link!TypeOK
  <2>3. \A d \in Conns : ~Link!Dialing(d)'
    BY <1>1, <1>2, <2>1 DEF LinkCore, Link!TypeOK, Link!OneDial, Link!Dialing, Link!Awaits
  <2>4. Link!TypeOK'
    <3>1. /\ hasNodes' \in BOOLEAN /\ connecting' \in BOOLEAN /\ destroyed' \in BOOLEAN
          /\ live' \in Conns \cup {None} /\ up' \subseteq Conns
      BY <1>1, <1>2, <2>1 DEF LinkCore, Link!TypeOK
    <3>2. sleeping' \in Nat /\ faults' \in Nat /\ flushes' \in Nat /\ broken' \in Nat
      BY <1>1, <1>2, <2>1
    <3>3. live' # None => step'[live'] = "done"
      BY <1>1, <1>2, <2>1, <2>2 DEF LinkCore, Link!TypeOK
    <3>4. /\ step' \in [Conns -> Link!Steps]
          /\ \A d \in up' : step'[d] \in Link!Steps \ {"free", "late", "open"}
      BY <1>1, <1>2, <1>4, <2>1 DEF LinkCore, Link!TypeOK, Link!Steps
    <3>. QED BY <3>1, <3>2, <3>3, <3>4 DEF Link!TypeOK
  <2>5. Link!OneDial' /\ Link!LiveIsUp' /\ DialsAreUp' /\ Link!AlwaysTended'
    <3>1. DialsAreUp'
      BY <2>3 DEF DialsAreUp, Link!Dialing, Link!Awaits
    <3>2. Link!AlwaysTended'
      BY <1>1, <1>2, <2>1 DEF Link!AlwaysTended
    <3>3. Link!LiveIsUp'
      BY <1>1, <1>2 DEF LinkCore, Link!LiveIsUp
    <3>. QED BY <2>1, <2>3, <3>1, <3>2, <3>3 DEF Link!OneDial
  <2>6. c \in Used /\ Used' \subseteq Used \ {c}
    BY <1>1, <1>2, <1>4, <2>1, <2>3
       DEF Used, LinkCore, Link!TypeOK, Link!Dialing, Link!Awaits
  <2>7. Link!LoopsAreAccounted'
    BY <1>1, <1>2, <2>1, <2>6, StepAccounted
  <2>. QED BY <2>4, <2>5, <2>7, OfCore DEF LinkCore
<1>. QED BY <1>3, <1>4

\* A new dial where nobody dials: by a loop that wakes or by flush().
LEMMA DialStarts ==
  ASSUME LinkCore, NEW c \in Conns,
         Link!CanDial, step[c] = "free", step' = Link!Moved({}, {c}),
         connecting' = TRUE, UNCHANGED <<hasNodes, up, live, destroyed>>,
         sleeping' \in Nat, faults' \in Nat, flushes' \in Nat, broken' \in Nat
  PROVE  LinkCore' /\ Used' \subseteq Used \cup {c}
<1>1. /\ step' \in [Conns -> Link!Steps] /\ step'[c] = "open"
      /\ \A d \in Conns \ {c} : step'[d] = step[d]
  BY DEF LinkCore, Link!TypeOK, Link!Moved, Link!Steps, Link!Awaits
<1>2. c \notin up /\ (live # None => live # c)
  BY DEF LinkCore, Link!TypeOK
<1>3. \A d \in Conns : Link!Dialing(d)' <=> d = c
  BY <1>1 DEF LinkCore, Link!OneDial, Link!CanDial, Link!Dialing, Link!Awaits
<1>4. Link!TypeOK'
  <2>1. /\ hasNodes' \in BOOLEAN /\ connecting' \in BOOLEAN /\ destroyed' \in BOOLEAN
        /\ live' \in Conns \cup {None} /\ up' \subseteq Conns
    BY DEF LinkCore, Link!TypeOK
  <2>2. live' # None => step'[live'] = "done"
    BY <1>1, <1>2 DEF LinkCore, Link!TypeOK
  <2>3. \A d \in up' : step'[d] \in Link!Steps \ {"free", "late", "open"}
    BY <1>1, <1>2 DEF LinkCore, Link!TypeOK
  <2>. QED BY <1>1, <2>1, <2>2, <2>3 DEF Link!TypeOK
<1>5. Link!OneDial' /\ Link!AlwaysTended'
  BY <1>3 DEF Link!OneDial, Link!AlwaysTended
<1>6. Link!LiveIsUp' /\ DialsAreUp'
  BY <1>1 DEF LinkCore, Link!LiveIsUp, DialsAreUp
<1>7. Used' \subseteq Used \cup {c}
  BY <1>3 DEF Used
<1>. QED BY <1>4, <1>5, <1>6, <1>7 DEF LinkCore

LEMMA LoopWakes ==
  ASSUME LinkInvar, UNCHANGED hasNodes, NEW c \in Conns, Link!Wake(c)
  PROVE  LinkInvar'
<1>1. /\ LinkInv /\ LinkCore
      /\ sleeping \in Nat /\ faults \in Nat /\ flushes \in Nat /\ broken \in Nat
  BY CoreOf
<1>2. /\ sleeping > 0 /\ sleeping' = sleeping - 1
      /\ UNCHANGED <<up, live, destroyed, faults, flushes, broken>>
  BY DEF Link!Wake
<1>3. sleeping' \in Nat /\ faults' \in Nat /\ flushes' \in Nat /\ broken' \in Nat
  BY <1>1, <1>2
<1>4. LinkCore' /\ Used' \subseteq Used \cup {c}
  <2>1. CASE Link!CanDial
    BY <1>1, <1>2, <1>3, <2>1, DialStarts DEF Link!Wake
  <2>2. CASE ~Link!CanDial
    <3>1. UNCHANGED <<step, connecting>>
      BY <2>2 DEF Link!Wake
    <3>2. Link!TypeOK' /\ Link!OneDial' /\ Link!LiveIsUp' /\ DialsAreUp'
      BY <1>1, <1>2, <1>3, <3>1
         DEF LinkCore, Link!TypeOK, Link!OneDial, Link!LiveIsUp, DialsAreUp, Link!Dialing
    <3>3. Link!AlwaysTended'
      BY <1>2, <2>2, <3>1 DEF Link!AlwaysTended, Link!CanDial
    <3>4. Used' \subseteq Used
      BY <1>2, <3>1 DEF Used, Link!Dialing
    <3>. QED BY <3>2, <3>3, <3>4 DEF LinkCore
  <2>. QED BY <2>1, <2>2
<1>5. Link!LoopsAreAccounted'
  BY <1>1, <1>2, <1>4, StepAccounted
<1>. QED BY <1>4, <1>5, OfCore

LEMMA FlushStarts ==
  ASSUME LinkInvar, UNCHANGED hasNodes, NEW c \in Conns, Link!FlushDials(c)
  PROVE  LinkInvar'
<1>1. /\ LinkInv /\ LinkCore
      /\ sleeping \in Nat /\ faults \in Nat /\ flushes \in Nat /\ broken \in Nat
  BY CoreOf
<1>2. /\ flushes' = flushes + 1
      /\ UNCHANGED <<up, live, sleeping, destroyed, faults, broken>>
  BY DEF Link!FlushDials
<1>3. sleeping' \in Nat /\ faults' \in Nat /\ flushes' \in Nat /\ broken' \in Nat
  BY <1>1, <1>2
<1>4. LinkCore' /\ Used' \subseteq Used \cup {c}
  BY <1>1, <1>2, <1>3, DialStarts DEF Link!FlushDials
<1>5. Link!LoopsAreAccounted'
  BY <1>1, <1>2, <1>4, StepAccounted
<1>. QED BY <1>4, <1>5, OfCore

\* A connection is lost after its handlers are there.
LEMMA ConnectionLost ==
  ASSUME LinkInvar, UNCHANGED hasNodes, NEW c \in Conns, NEW d \in Conns, Link!Lose(c, d)
  PROVE  LinkInvar'
<1> DEFINE gone == IF step[c] = "list" THEN Link!DeadLive ELSE {c} \cup Link!DeadLive
           dialled == IF Link!CanDial THEN {d} ELSE {}
<1>1. /\ LinkInv /\ LinkCore
      /\ sleeping \in Nat /\ faults \in Nat /\ flushes \in Nat /\ broken \in Nat
      /\ Link!LoopsAfterFailure \in Nat
      /\ Link!LoopsAfterFailure > 0 \/ destroyed
  BY CoreOf
<1>2. /\ c \in up /\ up' = up \ {c} /\ live' = None /\ faults' = faults + 1
      /\ UNCHANGED <<destroyed, flushes, broken>>
      /\ step[c] \in {"declare", "list", "bind", "done"}
      /\ Link!CanDial => step[d] = "free"
  BY <1>1
     DEF Link!Lose, Link!ClearedBy, Link!Fault, LinkCore, Link!TypeOK, Link!Steps, Link!Awaits
<1>3. step' = Link!Moved(gone, dialled)
  <2>1. None # c
    BY LinkFacts
  <2>. QED BY <1>2, <2>1 DEF Link!Lose
<1>4. /\ connecting' = (step[c] \notin {"declare", "bind"} /\ (connecting \/ Link!CanDial))
      /\ sleeping' = IF step[c] \in {"declare", "bind"} THEN Link!LoopsAfterFailure ELSE sleeping
  BY DEF Link!Lose
<1>5. /\ step' \in [Conns -> Link!Steps]
      /\ \A e \in Conns :
           \/ e \in dialled /\ step'[e] = "open"
           \/ e \notin dialled /\ e \in gone /\ step'[e] = "free"
           \/ e \notin dialled /\ e \notin gone /\ step'[e] = step[e]
  BY <1>1, <1>3 DEF Link!Moved, LinkCore, Link!TypeOK, Link!Steps, Link!Awaits
<1>6. /\ \A e \in Link!DeadLive : e \in Conns => step[e] = "done" /\ e \notin up
      /\ \A e \in dialled : e \notin up /\ e # c /\ step[e] = "free" /\ Link!CanDial
  BY <1>1, <1>2 DEF Link!DeadLive, LinkCore, Link!TypeOK
<1>7. /\ \A e \in up' : e \in Conns /\ e \notin gone /\ e \notin dialled /\ step'[e] = step[e]
      /\ \A e \in Conns : Link!Dialing(e)' =>
           \/ e \in dialled
           \/ Link!Dialing(e) /\ e \notin dialled /\ e \notin gone /\ step'[e] = step[e]
  <2>1. \A e \in up' : e \in Conns /\ e \in up /\ e # c
    BY <1>1, <1>2 DEF LinkCore, Link!TypeOK
  <2>2. \A e \in up' : e \notin gone /\ e \notin dialled
    BY <1>6, <2>1
  <2>3. \A e \in up' : step'[e] = step[e]
    BY <1>5, <2>1, <2>2
  <2>4. \A e \in Conns : Link!Dialing(e)' =>
           \/ e \in dialled
           \/ Link!Dialing(e) /\ e \notin dialled /\ e \notin gone /\ step'[e] = step[e]
    BY <1>5 DEF Link!Dialing, Link!Awaits
  <2>. QED BY <2>1, <2>2, <2>3, <2>4
<1>8. Link!TypeOK'
  <2>1. /\ hasNodes' \in BOOLEAN /\ connecting' \in BOOLEAN /\ destroyed' \in BOOLEAN
        /\ live' \in Conns \cup {None} /\ up' \subseteq Conns
    BY <1>1, <1>2, <1>4 DEF LinkCore, Link!TypeOK
  <2>2. sleeping' \in Nat /\ faults' \in Nat /\ flushes' \in Nat /\ broken' \in Nat
    BY <1>1, <1>2, <1>4
  <2>3. live' # None => step'[live'] = "done"
    BY <1>2
  <2>4. \A e \in up' : step'[e] \in Link!Steps \ {"free", "late", "open"}
    BY <1>1, <1>2, <1>7 DEF LinkCore, Link!TypeOK
  <2>. QED BY <1>5, <2>1, <2>2, <2>3, <2>4 DEF Link!TypeOK
<1>9. Link!OneDial'
  <2>1. CASE Link!CanDial
    <3>1. \A e \in Conns : ~Link!Dialing(e)
      BY <1>1, <2>1 DEF LinkCore, Link!OneDial, Link!CanDial
    <3>2. step[c] \notin {"declare", "bind"}
      BY <3>1 DEF Link!Dialing, Link!Awaits
    <3>3. \A e \in Conns : Link!Dialing(e)' <=> e = d
      BY <1>5, <1>7, <2>1, <3>1 DEF Link!Dialing, Link!Awaits
    <3>. QED BY <1>4, <2>1, <3>2, <3>3 DEF Link!OneDial
  <2>2. CASE ~Link!CanDial /\ step[c] \in {"declare", "bind"}
    <3>1. Link!Dialing(c)
      BY <2>2 DEF Link!Dialing, Link!Awaits
    <3>2. c \in gone
      BY <2>2
    <3>3. \A e \in Conns : ~Link!Dialing(e)'
      BY <1>1, <1>7, <2>2, <3>1, <3>2 DEF LinkCore, Link!OneDial
    <3>. QED BY <1>4, <2>2, <3>3 DEF Link!OneDial
  <2>3. CASE ~Link!CanDial /\ step[c] \notin {"declare", "bind"}
    <3>1. \A e \in Conns : Link!Dialing(e) => e \notin gone
      BY <1>2, <1>6, <2>3 DEF Link!Dialing, Link!Awaits
    <3>2. \A e \in Conns : Link!Dialing(e)' <=> Link!Dialing(e)
      BY <1>5, <1>7, <2>3, <3>1 DEF Link!Dialing
    <3>3. connecting' = connecting
      BY <1>1, <1>4, <2>3 DEF LinkCore, Link!TypeOK
    <3>. QED BY <1>1, <3>2, <3>3 DEF LinkCore, Link!OneDial
  <2>. QED BY <2>1, <2>2, <2>3
<1>10. Link!AlwaysTended'
  <2>1. CASE step[c] \in {"declare", "bind"}
    BY <1>1, <1>2, <1>4, <2>1 DEF Link!AlwaysTended
  <2>2. CASE step[c] \notin {"declare", "bind"}
    BY <1>1, <1>2, <1>4, <2>2 DEF Link!AlwaysTended, Link!CanDial
  <2>. QED BY <2>1, <2>2
<1>11. Link!LiveIsUp' /\ DialsAreUp'
  <2>1. Link!LiveIsUp'
    BY <1>2 DEF Link!LiveIsUp
  <2>2. ASSUME NEW e \in Conns, step'[e] \in {"channel", "declare", "bind"}
        PROVE  e \in up'
    <3>1. Link!Dialing(e)' /\ e \notin dialled
      BY <1>5, <2>2 DEF Link!Dialing, Link!Awaits
    <3>2. e \notin gone /\ step[e] = step'[e]
      BY <1>7, <3>1
    <3>3. e # c
      BY <1>2, <2>2, <3>2
    <3>4. e \in up
      BY <1>1, <2>2, <3>2 DEF LinkCore, DialsAreUp
    <3>. QED BY <1>2, <3>3, <3>4
  <2>. QED BY <2>1, <2>2 DEF DialsAreUp
<1>12. Link!LoopsAreAccounted'
  <2>1. c \in Used /\ Used' \subseteq Used \cup dialled
    BY <1>2, <1>7 DEF Used
  <2>2. CASE step[c] = "list"
    <3>1. dialled = {}
      BY <1>1, <2>2 DEF LinkCore, Link!OneDial, Link!CanDial, Link!Dialing, Link!Awaits
    <3>2. Used' \subseteq Used /\ UNCHANGED <<sleeping, flushes, broken>>
      BY <1>2, <1>4, <2>1, <2>2, <3>1
    <3>. QED BY <1>1, <3>2, StepAccounted
  <2>3. CASE step[c] # "list"
    <3>1. c \in gone /\ c \notin dialled
      BY <1>6, <2>3
    <3>2. c \notin Used'
      BY <1>2, <1>7, <3>1 DEF Used
    <3>3. CASE Link!CanDial
      <4>1. step[c] \notin {"declare", "bind"}
        BY <1>1, <3>3 DEF LinkCore, Link!OneDial, Link!CanDial, Link!Dialing, Link!Awaits
      <4>2. /\ Used' \subseteq (Used \ {c}) \cup {d}
            /\ UNCHANGED <<sleeping, flushes, broken>>
        BY <1>2, <1>4, <2>1, <3>2, <3>3, <4>1
      <4>. QED BY <1>1, <2>1, <4>2, StepAccounted
    <3>4. CASE ~Link!CanDial
      <4>1. Used' \subseteq Used /\ Used' \subseteq Used \ {c}
        BY <2>1, <3>2, <3>4
      <4>2. CASE step[c] \in {"declare", "bind"}
        BY <1>1, <1>2, <1>4, <2>1, <4>1, <4>2, StepAccounted
      <4>3. CASE step[c] \notin {"declare", "bind"}
        BY <1>1, <1>2, <1>4, <4>1, <4>3, StepAccounted
      <4>. QED BY <4>2, <4>3
    <3>. QED BY <3>3, <3>4
  <2>. QED BY <2>2, <2>3
<1>. QED BY <1>8, <1>9, <1>10, <1>11, <1>12, OfCore DEF LinkCore

LEMMA ServiceDestroyed ==
  ASSUME LinkInvar, UNCHANGED hasNodes, Link!Destroy
  PROVE  LinkInvar'
<1>1. /\ LinkInv /\ LinkCore
      /\ sleeping \in Nat /\ faults \in Nat /\ flushes \in Nat /\ broken \in Nat
  BY CoreOf
<1>2. /\ destroyed' = TRUE /\ up' = up \ {live} /\ live' = None
      /\ step' = Link!Moved({live}, {})
      /\ UNCHANGED <<connecting, sleeping, faults, flushes, broken>>
  BY DEF Link!Destroy
<1>3. /\ step' \in [Conns -> Link!Steps]
      /\ \A e \in Conns : step'[e] = IF e = live THEN "free" ELSE step[e]
  BY <1>1, <1>2 DEF Link!Moved, LinkCore, Link!TypeOK, Link!Steps, Link!Awaits
<1>4. live \in Conns => step[live] = "done"
  BY <1>1, LinkFacts DEF LinkCore, Link!TypeOK
<1>5. \A e \in Conns : Link!Dialing(e)' <=> Link!Dialing(e)
  BY <1>3, <1>4 DEF Link!Dialing, Link!Awaits
<1>6. Link!TypeOK'
  <2>1. /\ hasNodes' \in BOOLEAN /\ connecting' \in BOOLEAN /\ destroyed' \in BOOLEAN
        /\ live' \in Conns \cup {None} /\ up' \subseteq Conns
    BY <1>1, <1>2 DEF LinkCore, Link!TypeOK
  <2>2. sleeping' \in Nat /\ faults' \in Nat /\ flushes' \in Nat /\ broken' \in Nat
    BY <1>1, <1>2
  <2>3. live' # None => step'[live'] = "done"
    BY <1>2
  <2>4. \A e \in up' : step'[e] \in Link!Steps \ {"free", "late", "open"}
    BY <1>1, <1>2, <1>3 DEF LinkCore, Link!TypeOK
  <2>. QED BY <1>3, <2>1, <2>2, <2>3, <2>4 DEF Link!TypeOK
<1>7. Link!OneDial'
  BY <1>1, <1>2, <1>5 DEF LinkCore, Link!OneDial
<1>8. Link!AlwaysTended' /\ Link!LiveIsUp'
  BY <1>2 DEF Link!AlwaysTended, Link!LiveIsUp
<1>9. DialsAreUp'
  BY <1>1, <1>2, <1>3, <1>4 DEF LinkCore, DialsAreUp
<1>10. Used' \subseteq Used
  BY <1>2, <1>5 DEF Used
<1>11. Link!LoopsAreAccounted'
  BY <1>1, <1>2, <1>10, StepAccounted
<1>. QED BY <1>6, <1>7, <1>8, <1>9, <1>11, OfCore DEF LinkCore

LEMMA LinkStep == LinkInvar /\ Link!Next => LinkInvar'
<1> SUFFICES ASSUME LinkInvar, Link!Next
             PROVE  LinkInvar'
  OBVIOUS
<1>0. UNCHANGED hasNodes
  BY DEF Link!Next
<1>1. ASSUME NEW c \in Conns, Link!DialStep(c) \/ Link!LateEnds(c)
      PROVE  LinkInvar'
  BY <1>0, <1>1, DialGoesOn, DialPublishes, NodesListed DEF Link!DialStep
<1>2. ASSUME NEW c \in Conns, Link!Refused(c) \/ Link!Timeout(c) \/ Link!LoseEarly(c)
      PROVE  LinkInvar'
  BY <1>0, <1>2, DialFails
<1>3. ASSUME NEW c \in Conns, Link!DeclarationRefused(c)
      PROVE  LinkInvar'
  BY <1>0, <1>3, DeclarationFails
<1>4. ASSUME NEW c \in Conns, Link!Wake(c)
      PROVE  LinkInvar'
  BY <1>0, <1>4, LoopWakes
<1>5. ASSUME NEW c \in Conns, Link!FlushDials(c)
      PROVE  LinkInvar'
  BY <1>0, <1>5, FlushStarts
<1>6. ASSUME NEW c \in Conns, NEW d \in Conns, Link!Lose(c, d)
      PROVE  LinkInvar'
  BY <1>0, <1>6, ConnectionLost
<1>7. CASE Link!Destroy
  BY <1>0, <1>7, ServiceDestroyed
<1>. QED BY <1>1, <1>2, <1>3, <1>4, <1>5, <1>6, <1>7 DEF Link!Next, Link!Step

LEMMA LinkStays == LinkInvar /\ UNCHANGED <<link, hasNodes>> => LinkInvar'
<1> SUFFICES ASSUME LinkInvar, UNCHANGED <<link, hasNodes>>
             PROVE  LinkInvar'
  OBVIOUS
<1>1. LinkInv /\ LinkCore
  BY CoreOf
<1>2. UNCHANGED <<step, up, live, connecting, sleeping, destroyed, faults, flushes, broken>>
  BY DEF link
<1>3. LinkCore'
  BY <1>1, <1>2
     DEF LinkCore, Link!TypeOK, Link!OneDial, Link!AlwaysTended, Link!LiveIsUp, DialsAreUp,
         Link!Dialing
<1>4. Used' \subseteq Used
  BY <1>2 DEF Used, Link!Dialing
<1>5. Link!LoopsAreAccounted'
  BY <1>1, <1>2, <1>4, StepAccounted
<1>. QED BY <1>3, <1>5, OfCore

(***************************************************************************)
(* The connection of a process, for any number of faults, losses and dials *)
(* of flush(): at most one connect() runs (connecting is a lock); a        *)
(* missing channel always has a dial or a waiting loop; a process that     *)
(* declares node queues never keeps a closed connection's channel; and     *)
(* connections and loops beyond the first go back to a dial of flush() or  *)
(* to a refused declaration each.                                          *)
(***************************************************************************)
THEOREM ConnectionAccounted == PartSpec => []LinkInv
<1>1. PartInit => LinkInvar
  BY InitLink DEF PartInit
<1>2. LinkInvar /\ [PartNext]_partVars => LinkInvar'
  BY LinkStep, LinkStays DEF PartNext, DownloadPart, LinkPart, partVars, fixed
<1>3. LinkInvar => LinkInv
  BY DEF LinkInvar
<1>. QED BY <1>1, <1>2, <1>3, PTL DEF PartSpec

\* Without extras an open channel's connection is the only one, and no loop waits.
LEMMA OnlyLive ==
  ASSUME LinkInvar, live \in up, Link!Extras = 0
  PROVE  Used = {live}
<1>1. /\ LinkInv /\ LinkCore
      /\ sleeping \in Nat /\ flushes \in Nat /\ broken \in Nat
  BY CoreOf
<1>2. flushes + broken = 0
  BY DEF Link!Extras
<1>3. IsFiniteSet(Used) /\ Cardinality(Used) \in Nat
      /\ Cardinality(Used) + sleeping <= 1 + flushes + broken
  BY <1>1, UsedIsFinite
<1>4. live \in Used
  BY DEF Used
<1>5. /\ IsFiniteSet(Used \ {live}) /\ Cardinality(Used \ {live}) = Cardinality(Used) - 1
      /\ Cardinality(Used \ {live}) \in Nat
  BY <1>3, <1>4, FS_RemoveElement, FS_CardinalityType
<1>6. Cardinality(Used \ {live}) = 0
  <2> PICK x : x = Cardinality(Used)
    OBVIOUS
  <2> PICK y : y = Cardinality(Used \ {live})
    OBVIOUS
  <2>1. x \in Nat /\ y \in Nat /\ y = x - 1 /\ x + sleeping <= 1 + flushes + broken
    BY <1>3, <1>5
  <2>2. y = 0
    <3> HIDE <2>1
    <3> SUFFICES ASSUME NEW p \in Nat, NEW q \in Nat, q = p - 1,
                        p + sleeping <= 1 + flushes + broken
                 PROVE  q = 0
      BY <2>1
    <3>. QED BY <1>1, <1>2
  <2>. QED BY <2>2
<1>. QED BY <1>4, <1>5, <1>6, FS_EmptySet

(***************************************************************************)
(* While nothing dialled beside a loop and no declaration was refused, an  *)
(* open channel goes only with its connection or with the service: no      *)
(* dial that ends and no close event of another connection touches it.     *)
(***************************************************************************)
THEOREM OpenChannelKept == PartSpec => Link!LiveIsKept
<1>1. PartInit => LinkInvar
  BY InitLink DEF PartInit
<1>2. LinkInvar /\ [PartNext]_partVars => LinkInvar'
  BY LinkStep, LinkStays DEF PartNext, DownloadPart, LinkPart, partVars, fixed
<1>3. LinkInvar /\ [PartNext]_partVars =>
        [live' # live /\ live \in up /\ Link!Extras = 0
           => destroyed' \/ live \notin up']_(Link!vars)
  <2> SUFFICES ASSUME LinkInvar, Link!Next, live' # live, live \in up, Link!Extras = 0
               PROVE  destroyed' \/ live \notin up'
    BY DEF PartNext, DownloadPart, LinkPart, partVars, fixed, link, Link!vars
  <2>1. LinkCore /\ Used = {live}
    BY CoreOf, OnlyLive
  <2>2. ASSUME NEW c \in Conns, Link!Publish(c), Link!Dialing(c)
        PROVE  FALSE
    BY <2>1, <2>2, LinkFacts DEF Used, LinkCore, Link!TypeOK, Link!Dialing, Link!Awaits
  <2>3. ASSUME NEW c \in Conns, NEW d \in Conns, Link!Lose(c, d)
        PROVE  live \notin up'
    BY <2>1, <2>3 DEF Link!Lose, Used
  <2>4. ASSUME NEW c \in Conns, Link!ListedNone(c) \/ Link!Bound(c)
        PROVE  FALSE
    BY <2>2, <2>4 DEF Link!ListedNone, Link!Bound, Link!Dialing, Link!Awaits
  <2>5. CASE Link!Destroy
    BY <2>5 DEF Link!Destroy
  <2>. QED BY <2>3, <2>4, <2>5
       DEF Link!Next, Link!Step, Link!DialStep, Link!Handshake, Link!ChannelOpened,
           Link!Declared, Link!Listed, Link!Refused, Link!Timeout, Link!LateEnds,
           Link!DeclarationRefused, Link!Wake, Link!FlushDials, Link!LoseEarly
<1>. QED BY <1>1, <1>2, <1>3, PTL DEF PartSpec, Link!LiveIsKept

(***************************************************************************)
(* A destroyed service dials no more: neither a retry loop whose delay     *)
(* ends, nor a close event, nor flush() opens a connection.                *)
(***************************************************************************)
THEOREM DestroyedDialsNoMore == PartSpec => Link!NoDialAfterDestroy
<1>1. PartInit => LinkInvar
  BY InitLink DEF PartInit
<1>2. LinkInvar /\ [PartNext]_partVars => LinkInvar'
  BY LinkStep, LinkStays DEF PartNext, DownloadPart, LinkPart, partVars, fixed
<1>3. LinkInvar /\ [PartNext]_partVars =>
        [destroyed => \A c \in Conns : step'[c] = "open" => step[c] = "open"]_(Link!vars)
  <2> SUFFICES ASSUME LinkInvar, Link!Next, destroyed, NEW e \in Conns, step'[e] = "open"
               PROVE  step[e] = "open"
    BY DEF PartNext, DownloadPart, LinkPart, partVars, fixed, link, Link!vars
  <2>1. LinkCore /\ ~Link!CanDial
    BY CoreOf DEF Link!CanDial
  <2>2. ASSUME NEW c \in Conns, Link!DialStep(c)
        PROVE  step[e] = "open"
    BY <2>1, <2>2
       DEF LinkCore, Link!TypeOK, Link!DialStep, Link!Handshake, Link!ChannelOpened,
           Link!Declared, Link!ListedNone, Link!Listed, Link!Bound, Link!Publish, Link!Moved
  <2>3. ASSUME NEW c \in Conns,
               Link!Refused(c) \/ Link!Timeout(c) \/ Link!LateEnds(c)
                 \/ Link!DeclarationRefused(c) \/ Link!LoseEarly(c)
        PROVE  step[e] = "open"
    BY <2>1, <2>3
       DEF LinkCore, Link!TypeOK, Link!Refused, Link!Timeout, Link!LateEnds,
           Link!DeclarationRefused, Link!LoseEarly, Link!Moved
  <2>4. ASSUME NEW c \in Conns, Link!Wake(c) \/ Link!FlushDials(c)
        PROVE  step[e] = "open"
    BY <2>1, <2>4 DEF Link!Wake, Link!FlushDials
  <2>5. ASSUME NEW c \in Conns, NEW d \in Conns, Link!Lose(c, d)
        PROVE  step[e] = "open"
    BY <2>1, <2>5 DEF Link!Lose, Link!Moved
  <2>6. CASE Link!Destroy
    BY <2>6 DEF Link!Destroy, Link!Moved
  <2>. QED BY <2>2, <2>3, <2>4, <2>5, <2>6 DEF Link!Next, Link!Step
<1>. QED BY <1>1, <1>2, <1>3, PTL DEF PartSpec, Link!NoDialAfterDestroy
=============================================================================
