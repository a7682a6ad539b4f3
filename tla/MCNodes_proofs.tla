---------------------------- MODULE MCNodes_proofs ----------------------------
(***************************************************************************)
(* Proofs about the three components that MCNodes instantiates, for every  *)
(* value of their constants: NodeVerify, with any nodes, addresses and     *)
(* overlapping verifications; NodeFill, with any number of overlapping     *)
(* requests of the panel; SyncOperation, with any nodes and tabs.          *)
(***************************************************************************)
EXTENDS MCNodes, TLAPS

Answers == Health \cup {Silent}

LEMMA SilentType == Silent.role = "none" /\ Silent.rmq = "missing"
  BY DEF Silent

LEMMA InitTypeOK == Init => TypeOK
<1> SUFFICES ASSUME Init
             PROVE  TypeOK
  OBVIOUS
<1>1. node \in [Nodes -> Row]
  BY DEF Init, Row, Status
<1>2. NoCall \in Call
  BY DEF NoCall, Call
<1>3. moves \in 0..MaxMoves /\ edits \in 0..MaxEdits /\ dbErrors \in 0..MaxDbErrors
  BY VerifyAssumption DEF Init
<1>. QED
  BY <1>1, <1>2, <1>3 DEF Init, TypeOK, NoVerdict

LEMMA UrlsType == ASSUME TypeOK, NEW n \in Nodes
                  PROVE  Urls(n) \in Seq(Addresses) /\ Urls(n) # <<>>
<1>1. node[n].host \in Addresses /\ Gateway \in Addresses
  BY DEF TypeOK, Row, Addresses
<1>. QED
  BY <1>1 DEF Urls

LEMMA JudgedType ==
  ASSUME NEW a \in Answers
  PROVE  Judged(a.rmq) \in [status : Status, rabbit : Status]
<1>1. a.rmq \in {"missing", "other", "down", "up"}
  BY DEF Answers, Health, Silent
<1>. QED
  BY <1>1, VerifyAssumption DEF Judged, Status

LEMMA SetStatusType ==
  ASSUME TypeOK, NEW c \in Calls, call[c].id \in Nodes,
         NEW j \in [status : Status, rabbit : Status], SetStatus(c, j)
  PROVE  /\ node' \in [Nodes -> Row]
         /\ verdict' \in [Nodes -> [got : Answers, heard : BOOLEAN]]
<1>1. call[c].got \in Answers /\ call[c].heard \in BOOLEAN
  BY DEF TypeOK, Call, Answers
<1>2. node[call[c].id] \in Row
  BY DEF TypeOK
<1>3. [node[call[c].id] EXCEPT !.status = j.status, !.rabbit = j.rabbit] \in Row
  BY <1>2 DEF Row
<1>4. node' = [node EXCEPT ![call[c].id] =
                 [node[call[c].id] EXCEPT !.status = j.status, !.rabbit = j.rabbit]]
  BY DEF SetStatus
<1>5. node' \in [Nodes -> Row]
  BY <1>3, <1>4 DEF TypeOK
<1>6. verdict' \in [Nodes -> [got : Answers, heard : BOOLEAN]]
  BY <1>1 DEF SetStatus, TypeOK, Answers
<1>. QED
  BY <1>5, <1>6

(* A running call has a node, and one that probes an address to ask. *)
Named == \A c \in Calls :
  /\ call[c].at # "idle" => call[c].id \in Nodes
  /\ call[c].at = "probe" => call[c].urls # <<>>

(* One probe, field by field. *)
LEMMA ProbeFields ==
  ASSUME TypeOK, Named, NEW c \in Calls, Probe(c)
  PROVE  \E x \in Call :
           /\ call' = [call EXCEPT ![c] = x]
           /\ x.id = call[c].id /\ call[c].id \in Nodes
           /\ x.at \in {"write", "offline", "probe"}
           /\ x.at = "probe" => x.urls # <<>>
           /\ x.at = "write" => Accepts(x.got, x.id) /\ x.heard
           /\ x.at # "write" => x.heard = call[c].heard
<1>1. /\ call[c].at = "probe" /\ call[c].id \in Nodes
      /\ call[c].urls # <<>> /\ call[c].urls \in Seq(Addresses)
      /\ call[c] \in Call
  BY DEF Probe, At, TypeOK, Named, Call
<1> DEFINE a    == health[Head(call[c].urls)]
           ok   == Accepts(a, call[c].id)
           rest == Tail(call[c].urls)
           x    == Asked(c, ok, a)
<1>2. a \in Answers /\ rest \in Seq(Addresses) /\ ok \in BOOLEAN
  <2>1. Head(call[c].urls) \in Addresses
    BY <1>1
  <2>. QED
    BY <1>1, <2>1 DEF TypeOK, Answers, Accepts
<1>3. x = [call[c] EXCEPT
             !.at = IF ok THEN "write" ELSE IF rest = <<>> THEN "offline" ELSE "probe",
             !.urls = rest,
             !.got = IF ok THEN a ELSE call[c].got,
             !.heard = call[c].heard \/ ok]
  BY DEF Asked
<1>4. /\ x.at = IF ok THEN "write" ELSE IF rest = <<>> THEN "offline" ELSE "probe"
      /\ x.urls = rest
      /\ x.got = IF ok THEN a ELSE call[c].got
      /\ x.heard = (call[c].heard \/ ok)
      /\ x.id = call[c].id
  BY <1>1, <1>3 DEF Call
<1>5. x \in Call
  <2>1. call[c].heard \in BOOLEAN /\ call[c].got \in Answers
    BY <1>1 DEF Call, Answers
  <2>2. (call[c].heard \/ ok) \in BOOLEAN
    OBVIOUS
  <2> HIDE DEF a, ok, rest, x
  <2>. QED
    BY <1>1, <1>2, <1>3, <2>1, <2>2 DEF Call, Answers
<1>6. call' = [call EXCEPT ![c] = x]
  BY DEF Probe
<1>7. call[c].heard \in BOOLEAN
  BY <1>1 DEF Call
<1> HIDE DEF a, ok, rest, x
<1>8. x.at = "write" => ok
  BY <1>4
<1>9. x.at = "write" => Accepts(x.got, x.id) /\ x.heard
  BY <1>4, <1>8 DEF ok
<1>10. x.at # "write" => x.heard = call[c].heard
  BY <1>2, <1>4, <1>7
<1>. QED
  BY <1>1, <1>4, <1>5, <1>6, <1>9, <1>10

(* A failed write, field by field. *)
LEMMA FailFields ==
  ASSUME TypeOK, NEW c \in Calls, WriteFails(c)
  PROVE  \E x \in Call :
           /\ call' = [call EXCEPT ![c] = x]
           /\ x.id = call[c].id /\ x.heard = call[c].heard
           /\ x.at \in {"offline", "probe"}
           /\ x.at = "probe" => x.urls # <<>>
<1> DEFINE x == [call[c] EXCEPT !.at = IF call[c].urls = <<>> THEN "offline" ELSE "probe",
                               !.got = Silent]
<1>1. call[c] \in Call
  BY DEF TypeOK
<1>2. x \in Call /\ x.id = call[c].id /\ x.heard = call[c].heard /\ x.urls = call[c].urls
  BY <1>1 DEF Call
<1>3. x.at = IF call[c].urls = <<>> THEN "offline" ELSE "probe"
  BY <1>1 DEF Call
<1>4. call' = [call EXCEPT ![c] = x]
  BY <1>1 DEF WriteFails, TypeOK, Call
<1> HIDE DEF x
<1>5. x.at \in {"offline", "probe"} /\ (x.at = "probe" => x.urls # <<>>)
  BY <1>2, <1>3
<1>. QED
  BY <1>2, <1>4, <1>5

LEMMA NextTypeOK == TypeOK /\ Named /\ [Next]_vars => TypeOK' /\ Named'
<1> SUFFICES ASSUME TypeOK, Named, [Next]_vars
             PROVE  TypeOK' /\ Named'
  OBVIOUS
<1> USE VerifyAssumption DEF bounds
<1>0. NoCall \in Call
  BY DEF NoCall, Call
<1>1. ASSUME NEW c \in Calls, NEW n \in Nodes, Begin(c, n)
      PROVE  TypeOK' /\ Named'
  <2> DEFINE x == [NoCall EXCEPT !.at = "probe", !.id = n, !.urls = Urls(n)]
  <2>1. Urls(n) \in Seq(Addresses) /\ Urls(n) # <<>>
    BY UrlsType
  <2>2. x \in Call /\ x.id = n /\ x.urls = Urls(n)
    BY <2>1 DEF NoCall, Call
  <2>3. call' = [call EXCEPT ![c] = x]
    BY <1>1 DEF Begin
  <2> HIDE DEF x
  <2>4. call' \in [Calls -> Call] /\ Named'
    BY <2>1, <2>2, <2>3 DEF TypeOK, Named
  <2>. QED
    BY <1>1, <2>4 DEF Begin, TypeOK
<1>2. ASSUME NEW c \in Calls, Probe(c)
      PROVE  TypeOK' /\ Named'
  <2>1. PICK x \in Call :
          /\ call' = [call EXCEPT ![c] = x]
          /\ x.id = call[c].id /\ call[c].id \in Nodes
          /\ x.at = "probe" => x.urls # <<>>
    BY <1>2, ProbeFields
  <2>. QED
    BY <1>2, <2>1 DEF Probe, TypeOK, Named
<1>3. ASSUME NEW c \in Calls, Write(c)
      PROVE  TypeOK' /\ Named'
  <2>1. call[c].id \in Nodes /\ call[c].got \in Answers
    BY <1>3 DEF Write, At, Named, TypeOK, Call, Answers
  <2>2. /\ node' \in [Nodes -> Row]
        /\ verdict' \in [Nodes -> [got : Answers, heard : BOOLEAN]]
    BY <1>3, <2>1, SetStatusType, JudgedType DEF Write
  <2>. QED
    BY <1>0, <1>3, <2>2 DEF Write, AfterWrite, NoCall, TypeOK, Named, Answers
<1>4. ASSUME NEW c \in Calls, WriteFails(c)
      PROVE  TypeOK' /\ Named'
  <2>1. PICK x \in Call :
          /\ call' = [call EXCEPT ![c] = x]
          /\ x.id = call[c].id
          /\ x.at = "probe" => x.urls # <<>>
    BY <1>4, FailFields
  <2>2. call[c].id \in Nodes
    BY <1>4 DEF WriteFails, At, Named
  <2>3. dbErrors' \in 0..MaxDbErrors
    BY <1>4 DEF WriteFails, TypeOK
  <2>. QED
    BY <1>4, <2>1, <2>2, <2>3 DEF WriteFails, TypeOK, Named
<1>5. ASSUME NEW c \in Calls, WriteOffline(c)
      PROVE  TypeOK' /\ Named'
  <2>1. call[c].id \in Nodes
    BY <1>5 DEF WriteOffline, At, Named
  <2>2. [status |-> "OFFLINE", rabbit |-> "OFFLINE"] \in [status : Status, rabbit : Status]
    BY DEF Status
  <2>3. /\ node' \in [Nodes -> Row]
        /\ verdict' \in [Nodes -> [got : Answers, heard : BOOLEAN]]
    BY <1>5, <2>1, <2>2, SetStatusType DEF WriteOffline
  <2>. QED
    BY <1>0, <1>5, <2>3 DEF WriteOffline, NoCall, TypeOK, Named, Answers
<1>6. ASSUME NEW c \in Calls, OfflineFails(c)
      PROVE  TypeOK' /\ Named'
  BY <1>0, <1>6 DEF OfflineFails, TypeOK, Named, NoCall
<1>7. ASSUME NEW n \in Nodes, Create(n)
      PROVE  TypeOK' /\ Named'
  BY <1>7 DEF Create, TypeOK, Named, Row
<1>8. ASSUME NEW n \in Nodes, Remove(n)
      PROVE  TypeOK' /\ Named'
  BY <1>8 DEF Remove, TypeOK, Named, Row
<1>9. ASSUME NEW n \in Nodes, NEW h \in Hosts, Update(n, h)
      PROVE  TypeOK' /\ Named'
  <2>1. [node[n] EXCEPT !.host = h] \in Row
    BY DEF TypeOK, Row
  <2>2. node' = [node EXCEPT ![n] = [node[n] EXCEPT !.host = h]]
    BY <1>9 DEF Update, TypeOK, Row
  <2>3. node' \in [Nodes -> Row]
    BY <2>1, <2>2 DEF TypeOK
  <2>. QED
    BY <1>9, <2>3 DEF Update, TypeOK, Named
<1>10. ASSUME NEW a \in Addresses, NEW x \in Health \cup {Silent}, Move(a, x)
      PROVE  TypeOK' /\ Named'
  BY <1>10 DEF Move, TypeOK, Named
<1>11. CASE UNCHANGED vars
  BY <1>11 DEF vars, TypeOK, Named
<1>. QED
  BY <1>1, <1>2, <1>3, <1>4, <1>5, <1>6, <1>7, <1>8, <1>9, <1>10, <1>11 DEF Next

LEMMA InitNamed == Init => Named
  BY DEF Init, Named, NoCall

(***************************************************************************)
(* The rows, the running verifications and what is recorded of them keep   *)
(* their types, whatever requests overlap.                                 *)
(***************************************************************************)
THEOREM NodeTypeCorrect == Spec => []TypeOK
<1>1. Init => TypeOK /\ Named
  BY InitTypeOK, InitNamed
<1>2. (TypeOK /\ Named) /\ [Next]_vars => (TypeOK /\ Named)'
  BY NextTypeOK
<1>. QED
  BY <1>1, <1>2, PTL DEF Spec
-----------------------------------------------------------------------------
(***************************************************************************)
(* The inductive invariant of both properties: a call about to write has   *)
(* an answer that was accepted for its node, and without a database error  *)
(* a call that heard one and still looks for another has lost its row for  *)
(* good.                                                                   *)
(***************************************************************************)
WritesAccepted ==
  \A c \in Calls : At(c, "write") => Accepts(call[c].got, call[c].id) /\ call[c].heard

HeardIsGone ==
  dbErrors = 0 => \A c \in Calls :
    call[c].at \in {"probe", "offline"} /\ call[c].heard =>
      node[call[c].id].listed = "gone"

(* verify starts from a row. *)
WasListed ==
  \A c \in Calls : call[c].at # "idle" => node[call[c].id].listed # "no"

VerifyInv == /\ WritesAccepted /\ WasListed /\ HeardIsGone
             /\ OnlineIsAnswered /\ AnsweredIsNotOffline

LEMMA InitInv == Init => VerifyInv
  BY DEF Init, VerifyInv, WritesAccepted, WasListed, HeardIsGone, OnlineIsAnswered,
     AnsweredIsNotOffline, NoCall, NoVerdict, At

(* What Judged makes of an answer suits both properties. *)
LEMMA JudgedRight ==
  ASSUME NEW a \in Answers
  PROVE  /\ Judged(a.rmq).rabbit = "ONLINE" => HttpMode \/ a.rmq = "up"
         /\ Judged(a.rmq).status # "OFFLINE"
         /\ a.rmq \in {"missing", "other"} => HttpMode \/ Judged(a.rmq).status = "ERROR"
<1>1. a.rmq \in {"missing", "other", "down", "up"}
  BY DEF Answers, Health, Silent
<1>. QED
  BY <1>1, VerifyAssumption DEF Judged

LEMMA NextInv ==
  ASSUME TypeOK, Named, VerifyInv, [Next]_vars
  PROVE  VerifyInv'
<1> USE VerifyAssumption DEF bounds, VerifyInv, WritesAccepted, WasListed, HeardIsGone,
        OnlineIsAnswered, AnsweredIsNotOffline, At, Named
<1>1. ASSUME NEW c \in Calls, NEW n \in Nodes, Begin(c, n)
      PROVE  VerifyInv'
  <2>1. call'[c].at = "probe" /\ ~call'[c].heard
    BY <1>1 DEF Begin, TypeOK, NoCall
  <2>2. \A d \in Calls : d # c => call'[d] = call[d]
    BY <1>1 DEF Begin, TypeOK
  <2>3. call'[c].id = n
    BY <1>1 DEF Begin, TypeOK, NoCall
  <2>. QED
    BY <1>1, <2>1, <2>2, <2>3 DEF Begin, Listed
<1>2. ASSUME NEW c \in Calls, Probe(c)
      PROVE  VerifyInv'
  <2>1. PICK x \in Call :
          /\ call' = [call EXCEPT ![c] = x]
          /\ x.id = call[c].id
          /\ x.at = "write" => Accepts(x.got, x.id) /\ x.heard
          /\ x.at # "write" => x.heard = call[c].heard
    BY <1>2, ProbeFields
  <2>2. call'[c] = x /\ \A d \in Calls : d # c => call'[d] = call[d]
    BY <2>1 DEF TypeOK
  <2>. QED
    BY <1>2, <2>1, <2>2 DEF Probe
<1>3. ASSUME NEW c \in Calls, Write(c)
      PROVE  VerifyInv'
  <2>1. call[c].id \in Nodes /\ call[c].got \in Answers
    BY <1>3 DEF Write, TypeOK, Call, Answers
  <2>. QED
    BY <1>3, <2>1, JudgedRight DEF Write, SetStatus, AfterWrite, NoCall, TypeOK,
       Accepts, Row
<1>4. ASSUME NEW c \in Calls, WriteFails(c)
      PROVE  VerifyInv'
  <2>1. PICK x \in Call :
          /\ call' = [call EXCEPT ![c] = x]
          /\ x.id = call[c].id /\ x.heard = call[c].heard
          /\ x.at \in {"offline", "probe"}
    BY <1>4, FailFields
  <2>2. call'[c] = x /\ \A d \in Calls : d # c => call'[d] = call[d]
    BY <2>1 DEF TypeOK
  <2>3. dbErrors' = 0 => dbErrors = 0 /\ node[call[c].id].listed = "gone"
    <3>1. node[call[c].id].listed \in {"no", "yes", "gone"}
      BY <1>4 DEF WriteFails, TypeOK, Row
    <3>. QED
      BY <1>4, <3>1 DEF WriteFails, TypeOK, Listed
  <2>4. UNCHANGED <<node, verdict>> /\ call[c].at = "write"
    BY <1>4 DEF WriteFails
  <2>5. WritesAccepted' /\ WasListed'
    BY <2>1, <2>2, <2>4
  <2>6. HeardIsGone'
    BY <2>1, <2>2, <2>3, <2>4
  <2>7. OnlineIsAnswered' /\ AnsweredIsNotOffline'
    BY <2>3, <2>4
  <2>. QED
    BY <2>5, <2>6, <2>7
<1>5. ASSUME NEW c \in Calls, WriteOffline(c)
      PROVE  VerifyInv'
  BY <1>5 DEF WriteOffline, SetStatus, NoCall, TypeOK, Row, Listed
<1>6. ASSUME NEW c \in Calls, OfflineFails(c)
      PROVE  VerifyInv'
  BY <1>6 DEF OfflineFails, NoCall, TypeOK
<1>7. ASSUME NEW n \in Nodes, Create(n)
      PROVE  VerifyInv'
  BY <1>7 DEF Create, TypeOK, Row
<1>8. ASSUME NEW n \in Nodes, Remove(n)
      PROVE  VerifyInv'
  BY <1>8 DEF Remove, TypeOK, Row
<1>9. ASSUME NEW n \in Nodes, NEW h \in Hosts, Update(n, h)
      PROVE  VerifyInv'
  BY <1>9 DEF Update, TypeOK, Row
<1>10. ASSUME NEW a \in Addresses, NEW x \in Health \cup {Silent}, Move(a, x)
      PROVE  VerifyInv'
  BY <1>10 DEF Move
<1>11. CASE UNCHANGED vars
  BY <1>11 DEF vars
<1>. QED
  BY <1>1, <1>2, <1>3, <1>4, <1>5, <1>6, <1>7, <1>8, <1>9, <1>10, <1>11 DEF Next

LEMMA Invariance == Spec => [](TypeOK /\ Named /\ VerifyInv)
<1>1. Init => TypeOK /\ Named /\ VerifyInv
  BY InitTypeOK, InitNamed, InitInv
<1>2. (TypeOK /\ Named /\ VerifyInv) /\ [Next]_vars => (TypeOK /\ Named /\ VerifyInv)'
  BY NextTypeOK, NextInv
<1>. QED
  BY <1>1, <1>2, PTL DEF Spec

(***************************************************************************)
(* A node is ONLINE only when an edge of its own id, or without one,       *)
(* answered the verification that said so.                                 *)
(***************************************************************************)
THEOREM OnlineAnswered == Spec => []OnlineIsAnswered
<1>1. TypeOK /\ Named /\ VerifyInv => OnlineIsAnswered
  BY DEF VerifyInv
<1>. QED
  BY <1>1, Invariance, PTL

(***************************************************************************)
(* As long as the database answers, an edge that answered as one is not    *)
(* shown as one that cannot be reached.                                    *)
(***************************************************************************)
THEOREM AnsweredNotOffline == Spec => []AnsweredIsNotOffline
<1>1. TypeOK /\ Named /\ VerifyInv => AnsweredIsNotOffline
  BY DEF VerifyInv
<1>. QED
  BY <1>1, Invariance, PTL
-----------------------------------------------------------------------------
(***************************************************************************)
(* NodeFill.  A package file, once written, is found under its name with   *)
(* its bytes for ever: a later write to the name writes the same bytes,    *)
(* and a deletion leaves the package files alone.                          *)
(***************************************************************************)
Kept(v, b) == [name |-> Fill!FileName(v, b), bytes |-> b] \in files

FillArg == [ver : Nat, sum : Fill!Bytes \cup {None}, only : BOOLEAN]

FillTypes ==
  /\ row \in Fill!Row \cup {None}
  /\ folder \in Nat /\ states \in Nat /\ uploads \in Nat /\ listed \in BOOLEAN
  /\ outbox \in Seq(Fill!Event) /\ queue \in Seq(Fill!Event)
  /\ step \in [Requests -> Fill!Steps]
  /\ arg \in [Requests -> FillArg]

\* Past the step that makes it, a request knows its package; one that is about
\* to name a version in an event has written the file.
PackageInHand ==
  \A r \in Requests :
    /\ step[r] \in {"version", "publish", "nodes", "commit", "enqueue"} =>
         arg[r].sum \in Fill!Bytes
    /\ step[r] \in {"publish", "nodes", "commit"} => Kept(arg[r].ver, arg[r].sum)

EventsAreKept ==
  /\ \A i \in 1..Len(outbox) : outbox[i].url = "versioned" => Kept(outbox[i].ver, outbox[i].sum)
  /\ \A i \in 1..Len(queue) : queue[i].url = "versioned" => Kept(queue[i].ver, queue[i].sum)

FillInv == FillTypes /\ PackageInHand /\ EventsAreKept

(***************************************************************************)
(* What a node has once it consumed all there is: the last event's row.    *)
(***************************************************************************)
RowAfter(m) == IF m.url = "none" THEN None ELSE Fill!RowOf(m.ver, m.sum)
Upcoming == IF outbox # <<>> THEN RowAfter(outbox[Len(outbox)])
            ELSE IF queue # <<>> THEN RowAfter(queue[Len(queue)])
            ELSE edge

\* Without fills every event is one of a transaction, names a versioned package
\* or none, and reaches the node that was there from the start.
NoFills ==
  /\ listed
  /\ \A r \in Requests : /\ step[r] \notin {"rows", "enqueue"}
                         /\ step[r] = "commit" => arg[r].only
  /\ \A i \in 1..Len(outbox) : outbox[i].url # "package"
  /\ \A i \in 1..Len(queue) : queue[i].url # "package"
  /\ Upcoming = row

LEMMA WriteKeeps ==
  ASSUME NEW v, NEW b, Fill!Write(v, b)
  PROVE  /\ Kept(v, b)'
         /\ \A w, c : Kept(w, c) => Kept(w, c)'
  BY DEF Fill!Write, Kept, Fill!FileName

LEMMA PackagesStay == [Fill!Next]_fillVars => \A w, c : Kept(w, c) => Kept(w, c)'
<1> SUFFICES ASSUME [Fill!Next]_fillVars
             PROVE  \A w, c : Kept(w, c) => Kept(w, c)'
  OBVIOUS
<1>1. ASSUME NEW v, NEW b, Fill!Write(v, b)
      PROVE  \A w, c : Kept(w, c) => Kept(w, c)'
  BY <1>1, WriteKeeps
<1>2. (\E v, b : Fill!Write(v, b)) \/ UNCHANGED files
  BY DEF Fill!Next, Fill!Step, fillVars, Fill!BeginConfirm, Fill!ReadVersion, Fill!Publish,
         Fill!Save, Fill!FindRow, Fill!ListNodes, Fill!Commit, Fill!BeginDelete, Fill!Seek,
         Fill!RemoveRow, Fill!Clean, Fill!Cleaned, Fill!BeginFill, Fill!ReadRows,
         Fill!Enqueue, Fill!DownloadZip, Fill!Register, Fill!Flush, Fill!Consume,
         Fill!master
<1>3. CASE UNCHANGED files
  BY <1>3 DEF Kept
<1>. QED BY <1>1, <1>2, <1>3

(* What a transaction adds to the outbox leaves the rest as it was. *)
LEMMA EventsAfter ==
  ASSUME FillTypes, EventsAreKept, [Fill!Next]_fillVars, NEW m \in Fill!Event,
         outbox' = Append(outbox, m), UNCHANGED queue,
         m.url = "versioned" => Kept(m.ver, m.sum)
  PROVE  EventsAreKept' /\ outbox' \in Seq(Fill!Event)
<1>1. /\ Len(outbox) \in Nat /\ Len(outbox') = Len(outbox) + 1
      /\ outbox'[Len(outbox) + 1] = m
      /\ \A i \in 1..Len(outbox) : outbox'[i] = outbox[i]
      /\ outbox' \in Seq(Fill!Event)
  BY DEF FillTypes
<1>2. \A w, c : Kept(w, c) => Kept(w, c)'
  BY PackagesStay
<1>3. ASSUME NEW i \in 1..Len(outbox'), outbox'[i].url = "versioned"
      PROVE  Kept(outbox[i].ver, outbox[i].sum)' 
  <2> PICK w : w = outbox'[i].ver
    OBVIOUS
  <2> PICK c : c = outbox'[i].sum
    OBVIOUS
  <2>1. CASE i = Len(outbox) + 1
    <3>1. Kept(w, c)
      BY <1>1, <1>3, <2>1
    <3>. QED BY <1>2, <3>1 DEF Kept
  <2>2. CASE i # Len(outbox) + 1
    <3>1. i \in 1..Len(outbox) /\ outbox'[i] = outbox[i]
      BY <1>1, <2>2
    <3>2. Kept(w, c)
      BY <1>3, <3>1 DEF EventsAreKept
    <3>. QED BY <1>2, <3>2 DEF Kept
  <2>. QED BY <2>1, <2>2
<1>4. ASSUME NEW i \in 1..Len(queue'), queue'[i].url = "versioned"
      PROVE  Kept(queue[i].ver, queue[i].sum)'
  <2> PICK w : w = queue'[i].ver
    OBVIOUS
  <2> PICK c : c = queue'[i].sum
    OBVIOUS
  <2>1. Kept(w, c)
    BY <1>4 DEF EventsAreKept
  <2>. QED BY <1>2, <2>1 DEF Kept
<1>. QED BY <1>1, <1>3, <1>4 DEF EventsAreKept

LEMMA EventsStay ==
  ASSUME EventsAreKept, [Fill!Next]_fillVars, UNCHANGED <<outbox, queue>>
  PROVE  EventsAreKept'
<1>1. \A w, c : Kept(w, c) => Kept(w, c)'
  BY PackagesStay
<1>. QED BY <1>1 DEF EventsAreKept, Kept

\* What a request has read, once it is past idle, is an argument of the type.
LEMMA ArgAfter ==
  ASSUME NEW r \in Requests, FillTypes, NEW a \in FillArg, arg' = [arg EXCEPT ![r] = a]
  PROVE  arg' \in [Requests -> FillArg] /\ arg'[r] = a
         /\ \A q \in Requests : q # r => arg'[q] = arg[q]
  BY DEF FillTypes

LEMMA NoArgType == Fill!NoArg \in FillArg
  BY DEF Fill!NoArg, FillArg

\* The requests that do not move keep what they hold.
LEMMA OthersInHand ==
  ASSUME FillTypes, PackageInHand, [Fill!Next]_fillVars, NEW r \in Requests,
         \A q \in Requests : q # r => step'[q] = step[q] /\ arg'[q] = arg[q],
         step'[r] \in {"version", "publish", "nodes", "commit", "enqueue"} =>
           arg'[r].sum \in Fill!Bytes,
         step'[r] \in {"publish", "nodes", "commit"} =>
           \E w, c : w = arg'[r].ver /\ c = arg'[r].sum /\ Kept(w, c)'
  PROVE  PackageInHand'
<1>1. \A w, c : Kept(w, c) => Kept(w, c)'
  BY PackagesStay
<1> SUFFICES ASSUME NEW q \in Requests
             PROVE  /\ step'[q] \in {"version", "publish", "nodes", "commit", "enqueue"} =>
                         arg'[q].sum \in Fill!Bytes
                    /\ step'[q] \in {"publish", "nodes", "commit"} =>
                         Kept(arg[q].ver, arg[q].sum)'
  BY DEF PackageInHand
<1>2. CASE q = r
  BY <1>2 DEF Kept
<1>3. CASE q # r
  <2>1. step'[q] = step[q] /\ arg'[q] = arg[q]
    BY <1>3
  <2>2. step[q] \in {"publish", "nodes", "commit"} => Kept(arg[q].ver, arg[q].sum)
    BY DEF PackageInHand
  <2> PICK w : w = arg[q].ver
    OBVIOUS
  <2> PICK c : c = arg[q].sum
    OBVIOUS
  <2>3. step'[q] \in {"publish", "nodes", "commit"} => Kept(w, c)'
    BY <1>1, <2>1, <2>2
  <2>. QED BY <2>1, <2>3 DEF PackageInHand, Kept
<1>. QED BY <1>2, <1>3

LEMMA InitFill == Fill!Init => FillInv
<1> SUFFICES ASSUME Fill!Init
             PROVE  FillInv
  OBVIOUS
<1>1. FillTypes
  BY NoArgType, FillAssumption DEF Fill!Init, FillTypes, Fill!FillAssumption, Fill!Steps
<1>2. EventsAreKept
  BY DEF Fill!Init, EventsAreKept
<1>3. PackageInHand
  BY DEF Fill!Init, PackageInHand
<1>. QED BY <1>1, <1>2, <1>3 DEF FillInv

\* A step that moves one request and writes no event.
LEMMA EventlessStep ==
  ASSUME FillInv, [Fill!Next]_fillVars, NEW r \in Requests, NEW a \in FillArg,
         NEW s \in Fill!Steps,
         arg' = [arg EXCEPT ![r] = a], step' = [step EXCEPT ![r] = s],
         UNCHANGED <<outbox, queue>>, row' \in Fill!Row \cup {None},
         folder' \in Nat, states' \in Nat, uploads' \in Nat, listed' \in BOOLEAN,
         s \in {"version", "publish", "nodes", "commit", "enqueue"} => a.sum \in Fill!Bytes,
         s \in {"publish", "nodes", "commit"} => Kept(a.ver, a.sum)'
  PROVE  FillInv'
<1>1. FillTypes /\ PackageInHand /\ EventsAreKept
  BY DEF FillInv
<1>2. /\ arg' \in [Requests -> FillArg] /\ arg'[r] = a
      /\ \A q \in Requests : q # r => arg'[q] = arg[q]
  BY <1>1, ArgAfter
<1>3. /\ step' \in [Requests -> Fill!Steps] /\ step'[r] = s
      /\ \A q \in Requests : q # r => step'[q] = step[q]
  BY <1>1 DEF FillTypes
<1>4. FillTypes'
  BY <1>1, <1>2, <1>3 DEF FillTypes
<1>5. PackageInHand'
  <2> PICK w : w = a.ver
    OBVIOUS
  <2> PICK c : c = a.sum
    OBVIOUS
  <2>1. s \in {"publish", "nodes", "commit"} => Kept(w, c)'
    BY DEF Kept
  <2>. QED BY <1>1, <1>2, <1>3, <2>1, OthersInHand
<1>6. EventsAreKept'
  BY <1>1, EventsStay
<1>. QED BY <1>4, <1>5, <1>6 DEF FillInv

\* A transaction that ends its request's work, or leaves a deletion to clean up.
LEMMA Transaction ==
  ASSUME FillInv, [Fill!Next]_fillVars, NEW r \in Requests, NEW m \in Fill!Event,
         NEW a \in FillArg, NEW s \in {"idle", "clean"},
         arg' = [arg EXCEPT ![r] = a], step' = [step EXCEPT ![r] = s],
         outbox' = Append(outbox, m), UNCHANGED queue,
         row' \in Fill!Row \cup {None},
         folder' \in Nat, states' \in Nat, uploads' \in Nat, listed' \in BOOLEAN,
         m.url = "versioned" => Kept(m.ver, m.sum)
  PROVE  FillInv'
<1>1. FillTypes /\ PackageInHand /\ EventsAreKept
  BY DEF FillInv
<1>2. /\ arg' \in [Requests -> FillArg] /\ arg'[r] = a
      /\ \A q \in Requests : q # r => arg'[q] = arg[q]
  BY <1>1, ArgAfter
<1>3. /\ step' \in [Requests -> Fill!Steps] /\ step'[r] = s
      /\ \A q \in Requests : q # r => step'[q] = step[q]
  BY <1>1 DEF FillTypes, Fill!Steps
<1>4. EventsAreKept' /\ outbox' \in Seq(Fill!Event)
  BY <1>1, EventsAfter
<1>5. FillTypes'
  BY <1>1, <1>2, <1>3, <1>4 DEF FillTypes
<1>6. PackageInHand'
  BY <1>1, <1>2, <1>3, OthersInHand
<1>. QED BY <1>4, <1>5, <1>6 DEF FillInv

LEMMA ConfirmFill ==
  ASSUME FillInv, NEW r \in Requests,
         Fill!BeginConfirm(r) \/ Fill!ReadVersion(r) \/ Fill!Publish(r)
  PROVE  FillInv'
<1>0. [Fill!Next]_fillVars /\ FillTypes /\ PackageInHand
  BY DEF FillInv, Fill!Next, Fill!Step
<1>1. CASE Fill!BeginConfirm(r)
  <2> DEFINE a == [arg[r] EXCEPT !.sum = Fill!Upload(uploads + 1)]
  <2>1. arg' = [arg EXCEPT ![r] = a] /\ step' = [step EXCEPT ![r] = "version"]
    BY <1>1, Zenon DEF Fill!BeginConfirm, Fill!Begin, Fill!Goto
  <2>2. Fill!Upload(uploads + 1) \in Fill!Bytes
    BY <1>0 DEF FillTypes, Fill!Upload, Fill!Bytes
  <2>3. a \in FillArg /\ a.sum \in Fill!Bytes
    BY <1>0, <2>2 DEF FillTypes, FillArg
  <2>4. /\ UNCHANGED <<outbox, queue>> /\ row' \in Fill!Row \cup {None}
        /\ folder' \in Nat /\ states' \in Nat /\ uploads' \in Nat /\ listed' \in BOOLEAN
    BY <1>0, <1>1 DEF Fill!BeginConfirm, Fill!Touch, FillTypes
  <2> HIDE DEF a
  <2>. QED BY <1>0, <2>1, <2>3, <2>4, EventlessStep DEF Fill!Steps
<1>2. CASE Fill!ReadVersion(r)
  <2>0. step[r] = "version" /\ arg[r].sum \in Fill!Bytes /\ arg[r] \in FillArg
    BY <1>0, <1>2 DEF Fill!ReadVersion, PackageInHand, FillTypes
  <2>1. CASE folder = 0
    BY <1>0, <1>2, <2>1, NoArgType, EventlessStep
       DEF Fill!ReadVersion, Fill!End, Fill!Goto, FillTypes, Fill!Steps
  <2>2. CASE folder # 0
    <3> PICK v : v = Fill!NextVersion(row)
      OBVIOUS
    <3> DEFINE a == [arg[r] EXCEPT !.ver = v]
    <3>1. v \in Nat
      BY <1>0 DEF Fill!NextVersion, FillTypes, Fill!Row
    <3>2. arg' = [arg EXCEPT ![r] = a] /\ step' = [step EXCEPT ![r] = "publish"]
      BY <1>2, <2>2, Zenon DEF Fill!ReadVersion, Fill!Goto
    <3>3. a \in FillArg /\ a.ver = v /\ a.sum = arg[r].sum
      BY <2>0, <3>1 DEF FillArg
    <3>4. Fill!Write(v, arg[r].sum)
      BY <1>2, <2>2 DEF Fill!ReadVersion
    <3> PICK c : c = arg[r].sum
      OBVIOUS
    <3>5. Kept(v, c)'
      BY <3>4, WriteKeeps
    <3>6. /\ UNCHANGED <<outbox, queue>> /\ row' \in Fill!Row \cup {None}
          /\ folder' \in Nat /\ states' \in Nat /\ uploads' \in Nat /\ listed' \in BOOLEAN
      BY <1>0, <1>2, <2>2 DEF Fill!ReadVersion, Fill!Touch, FillTypes
    <3> PICK b : b = a
      OBVIOUS
    <3> HIDE DEF a
    <3>7. b \in FillArg /\ b.sum \in Fill!Bytes /\ Kept(b.ver, b.sum)'
      BY <2>0, <3>3, <3>5 DEF Kept
    <3>. QED BY <1>0, <3>2, <3>6, <3>7, EventlessStep DEF Fill!Steps
  <2>. QED BY <2>1, <2>2
<1>3. CASE Fill!Publish(r)
  <2>0. /\ step[r] = "publish" /\ arg[r].sum \in Fill!Bytes /\ arg[r] \in FillArg
        /\ Kept(arg[r].ver, arg[r].sum)
    BY <1>0, <1>3 DEF Fill!Publish, PackageInHand, FillTypes
  <2>1. CASE UNCHANGED <<row, outbox>>
    BY <1>0, <1>3, <2>1, NoArgType, EventlessStep
       DEF Fill!Publish, Fill!End, Fill!Goto, FillTypes, Fill!Steps
  <2>2. CASE ~UNCHANGED <<row, outbox>>
    <3> PICK m : m = Fill!Apply(arg[r].ver, arg[r].sum, "versioned", FALSE)
      OBVIOUS
    <3>1. m \in Fill!Event /\ m.ver = arg[r].ver /\ m.sum = arg[r].sum
      BY <2>0 DEF Fill!Apply, Fill!Event, FillArg, Fill!Urls
    <3>2. outbox' = Append(outbox, m) /\ row' = Fill!RowOf(arg[r].ver, arg[r].sum)
      BY <1>3, <2>2 DEF Fill!Publish, Fill!Post
    <3>3. row' \in Fill!Row
      BY <2>0, <3>2 DEF Fill!RowOf, Fill!Row, FillArg
    <3>. QED
      BY <1>0, <1>3, <2>0, <3>1, <3>2, <3>3, NoArgType, Transaction
         DEF Fill!Publish, Fill!End, Fill!Goto, FillTypes
  <2>. QED BY <2>1, <2>2
<1>. QED BY <1>1, <1>2, <1>3

LEMMA SaveFill ==
  ASSUME FillInv, NEW r \in Requests,
         Fill!Save(r) \/ Fill!FindRow(r) \/ Fill!ListNodes(r) \/ Fill!Commit(r)
  PROVE  FillInv'
<1>0. [Fill!Next]_fillVars /\ FillTypes /\ PackageInHand
  BY DEF FillInv, Fill!Next, Fill!Step
<1>00. arg[r] \in FillArg /\ arg = [arg EXCEPT ![r] = arg[r]]
  BY <1>0 DEF FillTypes
<1>1. CASE Fill!Save(r)
  <2>1. step' = [step EXCEPT ![r] = "find"] /\ UNCHANGED <<outbox, queue, arg>> /\ row' \in Fill!Row \cup {None}
        /\ folder' \in Nat /\ states' \in Nat /\ uploads' \in Nat /\ listed' \in BOOLEAN
    BY <1>0, <1>1 DEF Fill!Save, Fill!Begin, Fill!Goto, Fill!Touch, FillTypes
  <2>. QED BY <1>0, <1>00, <2>1, EventlessStep DEF Fill!Steps
<1>2. CASE Fill!FindRow(r)
  <2>1. CASE row = None \/ folder = 0
    BY <1>0, <1>2, <2>1, NoArgType, EventlessStep
       DEF Fill!FindRow, Fill!End, Fill!Goto, FillTypes, Fill!Steps
  <2>2. CASE ~(row = None \/ folder = 0)
    <3> PICK v : v = row.ver + 1
      OBVIOUS
    <3> PICK c : c = Fill!Zip(folder)
      OBVIOUS
    <3> DEFINE a == [[arg[r] EXCEPT !.ver = v] EXCEPT !.sum = c]
    <3>1. v \in Nat /\ c \in Fill!Bytes
      BY <1>0, <2>2 DEF FillTypes, Fill!Row, Fill!Zip, Fill!Bytes
    <3>2. arg' = [arg EXCEPT ![r] = a]
      BY <1>2, <2>2 DEF Fill!FindRow
    <3>3. a \in FillArg /\ a.ver = v /\ a.sum = c
      BY <1>00, <3>1 DEF FillArg
    <3>4. Kept(v, c)'
      BY <1>2, <2>2, WriteKeeps DEF Fill!FindRow
    <3>5. /\ UNCHANGED <<row, outbox, queue>> /\ row \in Fill!Row \cup {None} /\ step' = [step EXCEPT ![r] = "nodes"]
          /\ folder' \in Nat /\ states' \in Nat /\ uploads' \in Nat /\ listed' \in BOOLEAN
      BY <1>0, <1>2, <2>2 DEF Fill!FindRow, Fill!Goto, FillTypes
    <3> PICK b : b = a
      OBVIOUS
    <3> HIDE DEF a
    <3>6. b \in FillArg /\ b.sum \in Fill!Bytes /\ Kept(b.ver, b.sum)'
      BY <3>1, <3>3, <3>4 DEF Kept
    <3>. QED BY <1>0, <3>2, <3>5, <3>6, EventlessStep DEF Fill!Steps
  <2>. QED BY <2>1, <2>2
<1>3. CASE Fill!ListNodes(r)
  <2> DEFINE a == [arg[r] EXCEPT !.only = listed]
  <2>0. step[r] = "nodes" /\ arg[r].sum \in Fill!Bytes /\ Kept(arg[r].ver, arg[r].sum)
    BY <1>0, <1>3 DEF Fill!ListNodes, PackageInHand
  <2>1. arg' = [arg EXCEPT ![r] = a] /\ step' = [step EXCEPT ![r] = "commit"]
    BY <1>3, Zenon DEF Fill!ListNodes, Fill!Goto
  <2>2. a \in FillArg /\ a.ver = arg[r].ver /\ a.sum = arg[r].sum
    BY <1>0, <1>00 DEF FillTypes, FillArg
  <2>3. UNCHANGED <<row, outbox, queue, folder, states, uploads, listed, files>>
    BY <1>3 DEF Fill!ListNodes, Fill!master
  <2> PICK b : b = a
    OBVIOUS
  <2> HIDE DEF a
  <2>4. b \in FillArg /\ b.sum \in Fill!Bytes /\ Kept(b.ver, b.sum)'
    BY <2>0, <2>2, <2>3 DEF Kept
  <2>. QED BY <1>0, <2>1, <2>3, <2>4, EventlessStep DEF Fill!Steps, FillTypes
<1>4. CASE Fill!Commit(r)
  <2>0. /\ step[r] = "commit" /\ arg[r].sum \in Fill!Bytes
        /\ Kept(arg[r].ver, arg[r].sum)
    BY <1>0, <1>4 DEF Fill!Commit, PackageInHand
  <2>1. /\ step' = [step EXCEPT ![r] = "idle"] /\ arg' = [arg EXCEPT ![r] = Fill!NoArg]
        /\ UNCHANGED <<queue, uploads, listed>>
    BY <1>4 DEF Fill!Commit, Fill!End, Fill!Goto
  <2>2. row' = row \/ row' = Fill!RowOf(arg[r].ver, arg[r].sum)
    BY <1>4 DEF Fill!Commit
  <2>3. row' \in Fill!Row \cup {None}
    BY <1>0, <1>00, <2>0, <2>2 DEF FillTypes, Fill!RowOf, Fill!Row, FillArg
  <2>4. folder' \in Nat /\ states' \in Nat
    <3>1. UNCHANGED <<folder, states>> \/ Fill!Touch
      BY <1>4 DEF Fill!Commit
    <3>. QED BY <1>0, <3>1 DEF Fill!Touch, FillTypes
  <2>5. CASE UNCHANGED outbox
    BY <1>0, <2>1, <2>3, <2>4, <2>5, NoArgType, EventlessStep
       DEF FillTypes, Fill!Steps
  <2>6. CASE ~UNCHANGED outbox
    <3> PICK m : m = Fill!Apply(arg[r].ver, arg[r].sum, "versioned", TRUE)
      OBVIOUS
    <3>1. m \in Fill!Event /\ m.ver = arg[r].ver /\ m.sum = arg[r].sum
      BY <1>00, <2>0 DEF Fill!Apply, Fill!Event, FillArg, Fill!Urls
    <3>2. outbox' = Append(outbox, m)
      BY <1>4, <2>6 DEF Fill!Commit, Fill!Post
    <3>. QED
      BY <1>0, <2>0, <2>1, <2>3, <2>4, <3>1, <3>2, NoArgType, Transaction DEF FillTypes
  <2>. QED BY <2>5, <2>6
<1>. QED BY <1>1, <1>2, <1>3, <1>4

LEMMA DeleteFill ==
  ASSUME FillInv, NEW r \in Requests,
         Fill!BeginDelete(r) \/ Fill!Seek(r) \/ Fill!RemoveRow(r) \/ Fill!Clean(r)
  PROVE  FillInv'
<1>0. [Fill!Next]_fillVars /\ FillTypes /\ PackageInHand
  BY DEF FillInv, Fill!Next, Fill!Step
<1>00. arg[r] \in FillArg /\ arg = [arg EXCEPT ![r] = arg[r]]
  BY <1>0 DEF FillTypes
<1>1. CASE Fill!RemoveRow(r) /\ row # None
  <2> PICK m : m = Fill!Deletion(row.ver)
    OBVIOUS
  <2>1. m \in Fill!Event /\ m.url # "versioned"
    BY <1>0, <1>1 DEF Fill!Deletion, Fill!Event, Fill!Urls, FillTypes, Fill!Row
  <2>2. /\ outbox' = Append(outbox, m) /\ row' = None
        /\ step' = [step EXCEPT ![r] = "clean"]
        /\ UNCHANGED <<queue, arg, folder, states, uploads, listed>>
    BY <1>1 DEF Fill!RemoveRow, Fill!Post, Fill!Goto
  <2>. QED BY <1>0, <1>00, <2>1, <2>2, Transaction DEF FillTypes
<1>2. CASE ~(Fill!RemoveRow(r) /\ row # None)
  <2>1. /\ UNCHANGED <<arg, row, outbox, queue, states, uploads, listed>>
        /\ folder' \in Nat
    BY <1>0, <1>2 DEF Fill!BeginDelete, Fill!Seek, Fill!RemoveRow, Fill!Clean, Fill!master,
                      FillTypes
  <2>2. \E s \in {"seek", "remove", "idle"} : step' = [step EXCEPT ![r] = s]
    BY <1>2 DEF Fill!BeginDelete, Fill!Begin, Fill!Seek, Fill!RemoveRow, Fill!Clean,
                Fill!Goto
  <2>. QED BY <1>0, <1>00, <2>1, <2>2, EventlessStep DEF Fill!Steps, FillTypes
<1>. QED BY <1>1, <1>2

LEMMA SendFill ==
  ASSUME FillInv, NEW r \in Requests,
         Fill!BeginFill(r) \/ Fill!ReadRows(r) \/ Fill!Enqueue(r)
  PROVE  FillInv'
<1>0. [Fill!Next]_fillVars /\ FillTypes /\ PackageInHand
  BY DEF FillInv, Fill!Next, Fill!Step
<1>00. arg[r] \in FillArg /\ arg = [arg EXCEPT ![r] = arg[r]]
  BY <1>0 DEF FillTypes
<1>1. CASE Fill!BeginFill(r)
  <2>1. /\ step' = [step EXCEPT ![r] = "rows"]
        /\ UNCHANGED <<arg, row, outbox, queue, folder, states, uploads, listed>>
    BY <1>1 DEF Fill!BeginFill, Fill!Begin, Fill!Goto, Fill!master
  <2>. QED BY <1>0, <1>00, <2>1, EventlessStep DEF Fill!Steps, FillTypes
<1>2. CASE Fill!ReadRows(r)
  <2>1. UNCHANGED <<row, outbox, queue, folder, states, uploads, listed>>
    BY <1>2 DEF Fill!ReadRows, Fill!master
  <2>2. CASE row = None
    BY <1>0, <1>2, <2>1, <2>2, NoArgType, EventlessStep
       DEF Fill!ReadRows, Fill!End, Fill!Goto, FillTypes, Fill!Steps
  <2>3. CASE row # None
    <3> PICK a : a = [ver |-> row.ver, sum |-> row.sum, only |-> TRUE]
      OBVIOUS
    <3>1. a \in FillArg /\ a.sum \in Fill!Bytes
      BY <1>0, <2>3 DEF FillTypes, Fill!Row, FillArg
    <3>2. arg' = [arg EXCEPT ![r] = a] /\ step' = [step EXCEPT ![r] = "enqueue"]
      BY <1>2, <2>3 DEF Fill!ReadRows, Fill!Goto
    <3>. QED BY <1>0, <2>1, <3>1, <3>2, EventlessStep DEF Fill!Steps, FillTypes
  <2>. QED BY <2>2, <2>3
<1>3. CASE Fill!Enqueue(r)
  <2> PICK m : m = Fill!Apply(arg[r].ver, arg[r].sum, "package", TRUE)
    OBVIOUS
  <2>1. m \in Fill!Event /\ m.url # "versioned"
    BY <1>00 DEF Fill!Apply, Fill!Event, FillArg, Fill!Urls
  <2>2. /\ outbox' = Append(outbox, m) /\ step' = [step EXCEPT ![r] = "idle"]
        /\ arg' = [arg EXCEPT ![r] = Fill!NoArg]
        /\ UNCHANGED <<row, queue, folder, states, uploads, listed>>
    BY <1>3 DEF Fill!Enqueue, Fill!Post, Fill!End, Fill!Goto
  <2>. QED BY <1>0, <2>1, <2>2, NoArgType, Transaction DEF FillTypes
<1>. QED BY <1>1, <1>2, <1>3

\* What is published and consumed was in the outbox.
LEMMA TransportFill ==
  ASSUME FillInv, Fill!DownloadZip \/ Fill!Register \/ Fill!Flush \/ Fill!Consume
  PROVE  FillInv'
<1>0. /\ FillTypes /\ PackageInHand /\ EventsAreKept
      /\ UNCHANGED <<files, row, folder, states, uploads, step, arg>>
      /\ listed' \in BOOLEAN
  BY DEF FillInv, FillTypes, Fill!DownloadZip, Fill!Register, Fill!Flush, Fill!Consume,
         Fill!requests
<1>1. PackageInHand'
  BY <1>0 DEF PackageInHand, Kept
<1>2. ASSUME NEW s \in Seq(Fill!Event), s # <<>>
      PROVE  /\ Tail(s) \in Seq(Fill!Event) /\ Len(Tail(s)) = Len(s) - 1
             /\ \A i \in 1..Len(Tail(s)) : i + 1 \in 1..Len(s) /\ Tail(s)[i] = s[i + 1]
             /\ 1 \in 1..Len(s) /\ Head(s) = s[1] /\ Head(s) \in Fill!Event
  BY <1>2
<1>3. CASE UNCHANGED <<outbox, queue>>
  BY <1>0, <1>1, <1>3 DEF FillInv, FillTypes, EventsAreKept, Kept
<1>4. CASE Fill!Flush
  <2>1. outbox # <<>> /\ outbox' = Tail(outbox) /\ outbox \in Seq(Fill!Event)
    BY <1>0, <1>4 DEF Fill!Flush, FillTypes
  <2>2. queue' = queue \/ queue' = Append(queue, outbox[1])
    BY <1>2, <1>4, <2>1 DEF Fill!Flush
  <2>3. /\ outbox' \in Seq(Fill!Event)
        /\ \A i \in 1..Len(outbox') : outbox'[i].url = "versioned" =>
             Kept(outbox'[i].ver, outbox'[i].sum)
    BY <1>0, <1>2, <2>1 DEF EventsAreKept
  <2>4. /\ queue' \in Seq(Fill!Event)
        /\ \A i \in 1..Len(queue') : (i \in 1..Len(queue) /\ queue'[i] = queue[i])
                                     \/ queue'[i] = outbox[1]
    <3>1. outbox[1] \in Fill!Event /\ queue \in Seq(Fill!Event)
      BY <1>0, <1>2, <2>1 DEF FillTypes
    <3>2. CASE queue' = queue
      BY <3>1, <3>2
    <3>3. CASE queue' = Append(queue, outbox[1])
      BY <3>1, <3>3
    <3>. QED BY <2>2, <3>2, <3>3
  <2>5. \A i \in 1..Len(queue') : queue'[i].url = "versioned" =>
          Kept(queue'[i].ver, queue'[i].sum)
    BY <1>0, <1>2, <2>1, <2>4 DEF EventsAreKept
  <2>6. EventsAreKept'
    BY <1>0, <2>3, <2>5 DEF EventsAreKept, Kept
  <2>. QED BY <1>0, <1>1, <2>3, <2>4, <2>6 DEF FillInv, FillTypes
<1>5. CASE Fill!Consume
  <2>1. /\ queue # <<>> /\ queue' = Tail(queue) /\ queue \in Seq(Fill!Event)
        /\ UNCHANGED outbox
    BY <1>0, <1>5 DEF Fill!Consume, FillTypes
  <2>2. /\ queue' \in Seq(Fill!Event)
        /\ \A i \in 1..Len(queue') : queue'[i].url = "versioned" =>
             Kept(queue'[i].ver, queue'[i].sum)
    BY <1>0, <1>2, <2>1 DEF EventsAreKept
  <2>3. EventsAreKept'
    BY <1>0, <2>1, <2>2 DEF EventsAreKept, Kept
  <2>. QED BY <1>0, <1>1, <2>1, <2>2, <2>3 DEF FillInv, FillTypes
<1>. QED BY <1>3, <1>4, <1>5 DEF Fill!DownloadZip, Fill!Register

LEMMA NextFill == FillInv /\ [Fill!Next]_fillVars => FillInv'
<1> SUFFICES ASSUME FillInv, [Fill!Next]_fillVars
             PROVE  FillInv'
  OBVIOUS
<1>1. CASE UNCHANGED fillVars
  BY <1>1 DEF fillVars, FillInv, FillTypes, PackageInHand, EventsAreKept, Kept
<1>2. ASSUME NEW r \in Requests, Fill!Step(r)
      PROVE  FillInv'
  BY <1>2, ConfirmFill, SaveFill, DeleteFill, SendFill DEF Fill!Step
<1>3. CASE Fill!DownloadZip \/ Fill!Register \/ Fill!Flush \/ Fill!Consume
  BY <1>3, TransportFill
<1>. QED BY <1>1, <1>2, <1>3 DEF Fill!Next

LEMMA FillInvariance == PartSpec => []FillInv
<1>1. PartInit => FillInv
  BY InitFill DEF PartInit
<1>2. FillInv /\ [PartNext]_<<part, vars, fillVars, opVars>> => FillInv'
  BY NextFill DEF PartNext, VerifyPart, FillPart, OperationPart
<1>. QED BY <1>1, <1>2, PTL DEF PartSpec

(***************************************************************************)
(* A versioned package keeps its bytes: whatever confirmations, saves and  *)
(* deletions overlap, an event of the outbox or of the node's queue that   *)
(* names one finds the bytes of its checksum.                              *)
(***************************************************************************)
THEOREM VersionedBytesKept == PartSpec => []FillVersionedBytesAreKept
<1>1. FillInv => FillVersionedBytesAreKept
  <2> SUFFICES ASSUME FillInv, NEW m \in Fill!Pending, m.url = "versioned"
               PROVE  m.sum \in Fill!Served(m)
    BY DEF FillVersionedBytesAreKept, Fill!VersionedBytesAreKept
  <2>1. Kept(m.ver, m.sum)
    BY DEF Fill!Pending, FillInv, EventsAreKept
  <2>. QED BY <2>1 DEF Kept, Fill!Served
<1>. QED BY <1>1, FillInvariance, PTL

(***************************************************************************)
(* Without fills the events have the order of the transactions, and every  *)
(* event finds its package: what the node will have is the master's row.   *)
(***************************************************************************)
LEMMA InitNoFills == ListedFirst /\ Fill!Init => NoFills
  BY DEF Fill!Init, NoFills, Upcoming

LEMMA UpcomingAfter ==
  ASSUME FillTypes, NEW m \in Fill!Event, outbox' = Append(outbox, m)
  PROVE  /\ Upcoming' = RowAfter(m)
         /\ (\A i \in 1..Len(outbox) : outbox[i].url # "package") /\ m.url # "package"
              => \A i \in 1..Len(outbox') : outbox'[i].url # "package"
<1>1. /\ Len(outbox) \in Nat /\ Len(outbox') = Len(outbox) + 1
      /\ outbox'[Len(outbox) + 1] = m /\ outbox' # <<>>
      /\ \A i \in 1..Len(outbox) : outbox'[i] = outbox[i]
  BY DEF FillTypes
<1>2. Upcoming' = RowAfter(m)
  BY <1>1 DEF Upcoming, RowAfter
<1>3. \A i \in 1..Len(outbox') : i \in 1..Len(outbox) \/ outbox'[i] = m
  BY <1>1
<1>. QED BY <1>1, <1>2, <1>3

LEMMA StepNoFills ==
  ASSUME "fill" \notin Operations, FillInv, NoFills,
         NEW r \in Requests, Fill!Step(r)
  PROVE  NoFills'
<1>0. FillTypes /\ PackageInHand /\ arg[r] \in FillArg
  BY DEF FillInv, FillTypes
<1>1. /\ UNCHANGED <<queue, listed, edge>> /\ step[r] \notin {"rows", "enqueue"}
      /\ ~Fill!BeginFill(r)
  BY DEF NoFills, Fill!Step, Fill!BeginFill, Fill!Begin, Fill!BeginConfirm,
         Fill!ReadVersion, Fill!Publish, Fill!Save, Fill!FindRow, Fill!ListNodes,
         Fill!Commit, Fill!BeginDelete, Fill!Seek, Fill!RemoveRow, Fill!Clean,
         Fill!ReadRows, Fill!Enqueue, Fill!master
<1>2. Fill!ListNodes(r) => arg'[r].only
  BY <1>0 DEF Fill!ListNodes, NoFills, FillTypes, FillArg
<1>3. /\ \A q \in Requests : q # r => step'[q] = step[q] /\ arg'[q] = arg[q]
      /\ step'[r] \notin {"rows", "enqueue"}
      /\ step'[r] = "commit" => arg'[r].only
  BY <1>0, <1>1, <1>2
     DEF FillTypes, Fill!Step, Fill!Begin, Fill!BeginConfirm, Fill!ReadVersion,
         Fill!Publish, Fill!Save, Fill!FindRow, Fill!ListNodes, Fill!Commit,
         Fill!BeginDelete, Fill!Seek, Fill!RemoveRow, Fill!Clean, Fill!ReadRows,
         Fill!Enqueue, Fill!End, Fill!Goto
<1>4. CASE UNCHANGED <<row, outbox>>
  BY <1>1, <1>3, <1>4 DEF NoFills, Upcoming, RowAfter
<1>5. ASSUME NEW m \in Fill!Event, outbox' = Append(outbox, m), m.url # "package",
             row' = RowAfter(m)
      PROVE  NoFills'
  <2>1. /\ Upcoming' = RowAfter(m)
        /\ \A i \in 1..Len(outbox') : outbox'[i].url # "package"
    BY <1>0, <1>5, UpcomingAfter DEF NoFills
  <2>. QED BY <1>1, <1>3, <1>5, <2>1 DEF NoFills
<1>6. CASE Fill!Publish(r) /\ ~UNCHANGED <<row, outbox>>
  <2> PICK m : m = Fill!Apply(arg[r].ver, arg[r].sum, "versioned", FALSE)
    OBVIOUS
  <2>1. m \in Fill!Event /\ m.url = "versioned" /\ m.ver = arg[r].ver /\ m.sum = arg[r].sum
    BY <1>0 DEF Fill!Apply, Fill!Event, FillArg, Fill!Urls
  <2>2. outbox' = Append(outbox, m) /\ row' = Fill!RowOf(arg[r].ver, arg[r].sum)
    BY <1>6 DEF Fill!Publish, Fill!Post
  <2>. QED BY <1>5, <2>1, <2>2 DEF RowAfter
<1>7. CASE Fill!Commit(r) /\ ~UNCHANGED <<row, outbox>>
  <2> PICK m : m = Fill!Apply(arg[r].ver, arg[r].sum, "versioned", TRUE)
    OBVIOUS
  <2>1. m \in Fill!Event /\ m.url = "versioned" /\ m.ver = arg[r].ver /\ m.sum = arg[r].sum
    BY <1>0 DEF Fill!Apply, Fill!Event, FillArg, Fill!Urls
  <2>2. arg[r].only
    BY <1>7 DEF Fill!Commit, NoFills
  <2>3. outbox' = Append(outbox, m) /\ row' = Fill!RowOf(arg[r].ver, arg[r].sum)
    BY <1>7, <2>2 DEF Fill!Commit, Fill!Post
  <2>. QED BY <1>5, <2>1, <2>3 DEF RowAfter
<1>8. CASE Fill!RemoveRow(r) /\ ~UNCHANGED <<row, outbox>>
  <2> PICK m : m = Fill!Deletion(row.ver)
    OBVIOUS
  <2>1. row # None /\ outbox' = Append(outbox, m) /\ row' = None
    BY <1>8 DEF Fill!RemoveRow, Fill!Post
  <2>2. m \in Fill!Event /\ m.url = "none"
    BY <1>0, <2>1 DEF Fill!Deletion, Fill!Event, Fill!Urls, FillTypes, Fill!Row
  <2>. QED BY <1>5, <2>1, <2>2 DEF RowAfter
<1>9. Fill!Publish(r) \/ Fill!Commit(r) \/ Fill!RemoveRow(r) \/ UNCHANGED <<row, outbox>>
  BY <1>1 DEF Fill!Step, Fill!BeginConfirm, Fill!ReadVersion, Fill!Save, Fill!FindRow,
              Fill!ListNodes, Fill!BeginDelete, Fill!Seek, Fill!Clean, Fill!ReadRows,
              Fill!Enqueue, Fill!master
<1>. QED BY <1>4, <1>6, <1>7, <1>8, <1>9

LEMMA EmptySeq == ASSUME NEW S, NEW s \in Seq(S), Len(s) = 0
                 PROVE  s = <<>>
  OBVIOUS

LEMMA TransportNoFills ==
  ASSUME FillInv, NoFills,
         Fill!DownloadZip \/ Fill!Register \/ Fill!Flush \/ Fill!Consume
  PROVE  NoFills'
<1>0. /\ FillTypes /\ UNCHANGED <<row, step, arg>> /\ listed' /\ EventsAreKept
  BY DEF FillInv, NoFills, Fill!DownloadZip, Fill!Register, Fill!Flush, Fill!Consume,
         Fill!requests
<1>2. ASSUME NEW s \in Seq(Fill!Event), s # <<>>
      PROVE  /\ Len(s) \in Nat \ {0} /\ Tail(s) \in Seq(Fill!Event)
             /\ Len(Tail(s)) = Len(s) - 1 /\ (Tail(s) = <<>> <=> Len(s) = 1)
             /\ \A i \in 1..Len(Tail(s)) : i + 1 \in 1..Len(s) /\ Tail(s)[i] = s[i + 1]
             /\ Tail(s) # <<>> => Tail(s)[Len(Tail(s))] = s[Len(s)]
             /\ 1 \in 1..Len(s) /\ Head(s) = s[1] /\ Head(s) \in Fill!Event
  <2>1. /\ Len(s) \in Nat \ {0} /\ Tail(s) \in Seq(Fill!Event)
        /\ Len(Tail(s)) = Len(s) - 1
    BY <1>2
  <2>2. Tail(s) = <<>> <=> Len(s) = 1
    <3>1. Len(Tail(s)) = 0 => Tail(s) = <<>>
      BY <2>1, EmptySeq, Zenon
    <3>2. Len(<<>>) = 0
      OBVIOUS
    <3>3. Tail(s) = <<>> => Len(Tail(s)) = 0
      BY <3>2, Zenon
    <3>4. Len(Tail(s)) = 0 <=> Len(s) = 1
      BY <2>1
    <3>. QED BY <3>1, <3>3, <3>4, Zenon
  <2>3. \A i \in 1..Len(Tail(s)) : i + 1 \in 1..Len(s) /\ Tail(s)[i] = s[i + 1]
    BY <1>2, <2>1
  <2>4. Tail(s) # <<>> => Tail(s)[Len(Tail(s))] = s[Len(s)]
    BY <2>1, <2>2, <2>3
  <2>5. 1 \in 1..Len(s) /\ Head(s) = s[1] /\ Head(s) \in Fill!Event
    BY <1>2, <2>1
  <2>. QED BY <2>1, <2>2, <2>3, <2>4, <2>5
<1>3. CASE UNCHANGED <<outbox, queue, edge>>
  BY <1>0, <1>3 DEF NoFills, Upcoming, RowAfter
<1>4. CASE Fill!Flush
  <2>1. /\ outbox # <<>> /\ outbox' = Tail(outbox) /\ outbox \in Seq(Fill!Event)
        /\ queue' = Append(queue, Head(outbox)) /\ UNCHANGED edge /\ queue \in Seq(Fill!Event)
    BY <1>0, <1>4 DEF Fill!Flush, FillTypes, NoFills
  <2>2. \A i \in 1..Len(outbox') : outbox'[i].url # "package"
    BY <1>2, <2>1 DEF NoFills
  <2>3. Head(outbox).url # "package"
    BY <1>2, <2>1 DEF NoFills
  <2>4. /\ queue' # <<>> /\ queue'[Len(queue')] = Head(outbox)
        /\ \A i \in 1..Len(queue') : (i \in 1..Len(queue) /\ queue'[i] = queue[i])
                                     \/ queue'[i] = Head(outbox)
    <3>1. Head(outbox) \in Fill!Event
      BY <1>2, <2>1
    <3>. QED BY <2>1, <3>1
  <2>5. \A i \in 1..Len(queue') : queue'[i].url # "package"
    BY <2>3, <2>4 DEF NoFills
  <2>6. Upcoming = RowAfter(outbox[Len(outbox)])
    BY <2>1 DEF Upcoming
  <2>7. CASE outbox' = <<>>
    <3>1. Head(outbox) = outbox[Len(outbox)]
      BY <1>2, <2>1, <2>7
    <3>2. Upcoming' = RowAfter(queue'[Len(queue')])
      BY <2>4, <2>7 DEF Upcoming, RowAfter
    <3>. QED BY <1>0, <2>2, <2>4, <2>5, <2>6, <3>1, <3>2 DEF NoFills
  <2>8. CASE outbox' # <<>>
    <3>1. outbox'[Len(outbox')] = outbox[Len(outbox)]
      BY <1>2, <2>1, <2>8
    <3>2. Upcoming' = RowAfter(outbox'[Len(outbox')])
      BY <2>8 DEF Upcoming, RowAfter
    <3>. QED BY <1>0, <2>2, <2>5, <2>6, <3>1, <3>2 DEF NoFills
  <2>. QED BY <2>7, <2>8
<1>5. CASE Fill!Consume
  <2> PICK m : m = Head(queue)
    OBVIOUS
  <2>1. /\ queue # <<>> /\ queue' = Tail(queue) /\ queue \in Seq(Fill!Event)
        /\ UNCHANGED outbox
    BY <1>0, <1>5 DEF Fill!Consume, FillTypes
  <2>2. \A i \in 1..Len(queue') : queue'[i].url # "package"
    BY <1>2, <2>1 DEF NoFills
  <2>3. m \in Fill!Event /\ m = queue[1] /\ m.url # "package"
    BY <1>2, <2>1 DEF NoFills
  <2>4. edge' = RowAfter(m)
    <3>1. CASE m.url = "none"
      BY <1>5, <3>1 DEF Fill!Consume, RowAfter
    <3>2. CASE m.url # "none"
      <4>1. m.url = "versioned"
        BY <2>3, <3>2 DEF Fill!Event, Fill!Urls
      <4>2. Kept(m.ver, m.sum)
        BY <1>0, <1>2, <2>1, <2>3, <4>1 DEF EventsAreKept
      <4>3. m.sum \in Fill!Served(m)
        BY <4>1, <4>2 DEF Kept, Fill!Served
      <4>. QED BY <1>5, <3>2, <4>3 DEF Fill!Consume, RowAfter
    <3>. QED BY <3>1, <3>2
  <2>5. Upcoming' = Upcoming
    <3>1. CASE outbox # <<>>
      BY <2>1, <3>1 DEF Upcoming, RowAfter
    <3>2. CASE outbox = <<>> /\ queue' # <<>>
      BY <1>2, <2>1, <3>2 DEF Upcoming, RowAfter
    <3>3. CASE outbox = <<>> /\ queue' = <<>>
      <4>1. queue[Len(queue)] = m
        BY <1>2, <2>1, <2>3, <3>3
      <4>. QED BY <2>1, <2>4, <3>3, <4>1 DEF Upcoming
    <3>. QED BY <3>1, <3>2, <3>3
  <2>. QED BY <1>0, <2>1, <2>2, <2>5 DEF NoFills
<1>. QED BY <1>3, <1>4, <1>5 DEF Fill!DownloadZip, Fill!Register

(***************************************************************************)
(* A node that was there before the first landing ends with the master's   *)
(* row, whatever confirm, syncSingle and deleteLanding overlap, once all   *)
(* events are consumed; unless all landings were queued for a node.        *)
(***************************************************************************)
THEOREM SettledNodes ==
  ASSUME "fill" \notin Operations
  PROVE  PartSpec => [](Fill!SettledNodeHasRow)
<1>1. CASE ListedFirst
  <2>1. PartInit => NoFills
    BY <1>1, InitNoFills DEF PartInit
  <2>2. NoFills /\ FillInv /\ FillInv' /\ [PartNext]_<<part, vars, fillVars, opVars>>
          => NoFills'
    <3> SUFFICES ASSUME NoFills, FillInv, [PartNext]_<<part, vars, fillVars, opVars>>
                 PROVE  NoFills'
      OBVIOUS
    <3>1. CASE UNCHANGED fillVars
      BY <3>1 DEF fillVars, NoFills, Upcoming, RowAfter
    <3>2. CASE Fill!Next
      BY <3>2, StepNoFills, TransportNoFills DEF Fill!Next
    <3>. QED BY <3>1, <3>2 DEF PartNext, VerifyPart, FillPart, OperationPart
  <2>3. NoFills /\ FillInv => Fill!SettledNodeHasRow
    <3> SUFFICES ASSUME NoFills, FillInv, Fill!Pending = {}
                 PROVE  edge = row
      BY DEF Fill!SettledNodeHasRow, Fill!Quiet
    <3>1. \A i \in 1..Len(outbox) : FALSE
      BY DEF Fill!Pending
    <3>2. \A i \in 1..Len(queue) : FALSE
      BY DEF Fill!Pending
    <3>3. outbox = <<>> /\ queue = <<>>
      BY <3>1, <3>2 DEF FillInv, FillTypes
    <3>. QED BY <3>3 DEF NoFills, Upcoming
  <2>. QED BY <2>1, <2>2, <2>3, FillInvariance, PTL DEF PartSpec
<1>2. CASE ~ListedFirst
  <2>1. Fill!SettledNodeHasRow
    BY <1>2 DEF Fill!SettledNodeHasRow
  <2>. QED BY <2>1, PTL
<1>. QED BY <1>1, <1>2
-----------------------------------------------------------------------------
(***************************************************************************)
(* SyncOperation.  While the landing has its row, whoever says COMPLETED   *)
(* of a node - an entry, an entry some call has read, a result it has      *)
(* found - says so of a node that had the version.                         *)
(***************************************************************************)
\* A call's branch for a node has been to it and not failed to find something.
Probed(t, n) == tab[t] = "probe" /\ branch[t][n] # "probe" /\ n \in Op!Members(t)

OpTypes ==
  /\ landing \in Nat
  /\ disk \in [OpNodes -> Nat] /\ loading \in [OpNodes -> Nat]
  /\ entry \in Op!Entries /\ status \in Op!OpStatus
  /\ tab \in [Tabs -> Op!Steps]
  /\ seen \in [Tabs -> [entries : Op!Entries, status : Op!OpStatus]]
  /\ want \in [Tabs -> Nat]
  /\ branch \in [Tabs -> [OpNodes -> {"probe", "save", "done", "broken"}]]
  /\ result \in [Tabs -> Op!Entries]

\* Entries only ever disappear, so that a call knows of every entry there is.
CallsKnowEntries ==
  \A t \in Tabs, n \in OpNodes :
    tab[t] \in {"expect", "probe"} /\ seen[t].entries[n] = None => entry[n] = None

\* Only a call that probes has branches at work, one for each entry it read.
BranchesOfCalls ==
  \A t \in Tabs, n \in OpNodes :
    branch[t][n] \in {"probe", "save"} => tab[t] = "probe" /\ n \in Op!Members(t)

CompletionIsBacked ==
  \A n \in OpNodes : n \notin had =>
    /\ disk[n] = 0
    /\ entry[n] # None => entry[n].status # "COMPLETED" /\ status # "COMPLETED"
    /\ \A t \in Tabs :
         /\ tab[t] \in {"expect", "probe"} /\ seen[t].entries[n] # None =>
              seen[t].entries[n].status # "COMPLETED"
         /\ Probed(t, n) => result[t][n].status # "COMPLETED"

CallsExpectIt == \A t \in Tabs : tab[t] = "probe" => want[t] # 0

OpInv == /\ OpTypes /\ CallsKnowEntries /\ BranchesOfCalls
         /\ landing # 0 => CallsExpectIt /\ CompletionIsBacked

LEMMA InitOp == Op!Init => OpInv
<1> SUFFICES ASSUME Op!Init
             PROVE  OpInv
  OBVIOUS
<1>1. Op!Created \in Op!Entries
  BY DEF Op!Created, Op!Entries, Op!Entry, Op!NodeStatus, Op!Errors
<1>2. Op!NoCall.seen \in [entries : Op!Entries, status : Op!OpStatus]
  BY <1>1 DEF Op!NoCall, Op!OpStatus
<1>3. Op!NoCall.branch = [n \in OpNodes |-> "done"] /\ Op!NoCall.result \in Op!Entries
  BY DEF Op!NoCall, Op!Entries
<1>4. OpTypes
  BY <1>1, <1>2, <1>3 DEF Op!Init, OpTypes, Op!Steps, Op!OpStatus
<1>5. CallsKnowEntries /\ BranchesOfCalls /\ CallsExpectIt
  BY <1>3 DEF Op!Init, CallsKnowEntries, BranchesOfCalls, CallsExpectIt, Probed
<1>6. CompletionIsBacked
  BY DEF Op!Init, CompletionIsBacked, Probed, Op!Created
<1>. QED BY <1>4, <1>5, <1>6 DEF OpInv

\* What goes on outside the calls: the landing, the fleet and the entries.
LEMMA WorldStep ==
  ASSUME OpInv,
         \/ Op!Resend \/ Op!DeleteLanding
         \/ \E n \in OpNodes : \/ Op!RemoveNode(n) \/ Op!Down(n) \/ Op!Up(n)
                               \/ Op!Download(n) \/ Op!Deploy(n) \/ Op!Undeploy(n)
  PROVE  OpInv'
<1>1. UNCHANGED <<status, tab, seen, want, branch, result>>
  BY DEF Op!Resend, Op!DeleteLanding, Op!RemoveNode, Op!Down, Op!Up, Op!Download,
         Op!Deploy, Op!Undeploy, Op!tables, Op!calls
<1>2. /\ landing' \in Nat /\ (landing' # 0 => landing # 0)
      /\ disk' \in [OpNodes -> Nat] /\ loading' \in [OpNodes -> Nat]
      /\ had \subseteq had'
      /\ \A n \in OpNodes : n \notin had' /\ disk[n] = 0 => disk'[n] = 0
  BY DEF OpInv, OpTypes, Op!Resend, Op!DeleteLanding, Op!RemoveNode, Op!Down, Op!Up,
         Op!Download, Op!Deploy, Op!Undeploy, Op!fleet
<1>3. entry' \in Op!Entries /\ \A n \in OpNodes : entry'[n] # None => entry'[n] = entry[n]
  BY DEF OpInv, OpTypes, Op!Entries, Op!Resend, Op!DeleteLanding, Op!RemoveNode, Op!Down,
         Op!Up, Op!Download, Op!Deploy, Op!Undeploy, Op!tables
<1>4. OpTypes' /\ CallsKnowEntries' /\ BranchesOfCalls'
  BY <1>1, <1>2, <1>3
     DEF OpInv, OpTypes, CallsKnowEntries, BranchesOfCalls, Probed, Op!Members
<1>5. landing' # 0 => CallsExpectIt' /\ CompletionIsBacked'
  BY <1>1, <1>2, <1>3
     DEF OpInv, CallsExpectIt, CompletionIsBacked, Probed, Op!Members
<1>. QED BY <1>4, <1>5 DEF OpInv

\* A call is opened, waits, reads the operation and what it expects.
LEMMA ReadStep ==
  ASSUME OpInv, NEW t \in Tabs,
         Op!Open(t) \/ Op!ReadOperation(t) \/ Op!ReadExpected(t) \/ Op!Again(t)
  PROVE  OpInv'
<1>1. UNCHANGED <<landing, disk, loading, had, entry, status, result>>
  BY DEF Op!Open, Op!ReadOperation, Op!ReadExpected, Op!Again, Op!fleet, Op!tables
<1>2. CASE Op!Open(t) \/ Op!Again(t)
  <2>1. /\ UNCHANGED <<seen, want, branch>> /\ tab[t] \in {"closed", "waiting"}
        /\ tab' = [tab EXCEPT ![t] = "read"]
    BY <1>2 DEF Op!Open, Op!Again, Op!At
  <2>. QED
    BY <1>1, <2>1
       DEF OpInv, OpTypes, CallsKnowEntries, BranchesOfCalls, Probed, Op!Members,
           CallsExpectIt, CompletionIsBacked, Op!Steps
<1>3. CASE Op!ReadOperation(t)
  <2> DEFINE s == [entries |-> entry, status |-> status]
  <2>1. /\ UNCHANGED <<want, branch>> /\ tab[t] = "read"
        /\ tab' = [tab EXCEPT ![t] = "expect"] /\ seen' = [seen EXCEPT ![t] = s]
    BY <1>3 DEF Op!ReadOperation, Op!At
  <2>2. s \in [entries : Op!Entries, status : Op!OpStatus]
    BY DEF OpInv, OpTypes
  <2>3. /\ tab' \in [Tabs -> Op!Steps] /\ tab'[t] = "expect" /\ seen'[t].entries = entry
        /\ seen' \in [Tabs -> [entries : Op!Entries, status : Op!OpStatus]]
        /\ \A u \in Tabs : u # t => tab'[u] = tab[u] /\ seen'[u] = seen[u]
    BY <2>1, <2>2 DEF OpInv, OpTypes, Op!Steps
  <2>4. OpTypes'
    BY <1>1, <2>1, <2>3 DEF OpInv, OpTypes
  <2>5. CallsKnowEntries'
    BY <1>1, <2>1, <2>3 DEF OpInv, CallsKnowEntries
  <2>6. BranchesOfCalls'
    BY <1>1, <2>1, <2>3 DEF OpInv, BranchesOfCalls, Probed, Op!Members
  <2>7. CallsExpectIt => CallsExpectIt'
    BY <2>1, <2>3 DEF CallsExpectIt
  <2>8. CompletionIsBacked => CompletionIsBacked'
    BY <1>1, <2>1, <2>3 DEF CompletionIsBacked, Probed, Op!Members
  <2>. QED BY <1>1, <2>4, <2>5, <2>6, <2>7, <2>8 DEF OpInv
<1>4. CASE Op!ReadExpected(t)
  <2> DEFINE b == [n \in OpNodes |-> IF n \in Op!Members(t) THEN "probe" ELSE "done"]
  <2>1. /\ UNCHANGED seen /\ tab[t] = "expect"
        /\ tab' = [tab EXCEPT ![t] = "probe"] /\ want' = [want EXCEPT ![t] = landing]
        /\ branch' = [branch EXCEPT ![t] = b]
    BY <1>4 DEF Op!ReadExpected, Op!At
  <2>2. /\ b \in [OpNodes -> {"probe", "save", "done", "broken"}]
        /\ \A n \in OpNodes : b[n] # "save" /\ (b[n] = "probe" <=> n \in Op!Members(t))
    OBVIOUS
  <2>3. /\ tab' \in [Tabs -> Op!Steps] /\ tab'[t] = "probe"
        /\ want' \in [Tabs -> Nat] /\ want'[t] = landing
        /\ branch' \in [Tabs -> [OpNodes -> {"probe", "save", "done", "broken"}]]
        /\ branch'[t] = b
        /\ \A u \in Tabs : u # t => /\ tab'[u] = tab[u] /\ want'[u] = want[u]
                                    /\ branch'[u] = branch[u]
    <3> HIDE DEF b
    <3>. QED BY <2>1, <2>2 DEF OpInv, OpTypes, Op!Steps
  <2> HIDE DEF b
  <2>4. OpTypes'
    BY <1>1, <2>1, <2>3 DEF OpInv, OpTypes
  <2>5. CallsKnowEntries'
    BY <1>1, <2>1, <2>3 DEF OpInv, CallsKnowEntries
  <2>6. \A u \in Tabs, n \in OpNodes : Probed(u, n)' => u # t /\ Probed(u, n)
    BY <2>1, <2>2, <2>3 DEF Probed, Op!Members
  <2>7. BranchesOfCalls'
    BY <1>1, <2>1, <2>2, <2>3, <2>6 DEF OpInv, BranchesOfCalls, Op!Members
  <2>8. landing # 0 /\ CallsExpectIt => CallsExpectIt'
    BY <2>1, <2>3 DEF CallsExpectIt
  <2>9. CompletionIsBacked => CompletionIsBacked'
    BY <1>1, <2>1, <2>3, <2>6 DEF CompletionIsBacked
  <2>. QED BY <1>1, <2>4, <2>5, <2>7, <2>8, <2>9 DEF OpInv
<1>. QED BY <1>2, <1>3, <1>4

LEMMA ProbeStep ==
  ASSUME OpInv, NEW t \in Tabs, NEW n \in OpNodes, Op!Probe(t, n)
  PROVE  OpInv'
<1> DEFINE found == Op!Found(t, n)
<1>1. /\ UNCHANGED <<landing, disk, loading, had, entry, status, tab, seen, want>>
      /\ branch[t][n] = "probe" /\ result' = [result EXCEPT ![t][n] = found]
  BY DEF Op!Probe, Op!fleet, Op!tables
<1>2. tab[t] = "probe" /\ n \in Op!Members(t) /\ seen[t].entries[n] \in Op!Entry
  BY <1>1 DEF OpInv, OpTypes, BranchesOfCalls, Op!Members, Op!Entries
<1>3. found \in Op!Entry
  BY <1>2 DEF Op!Found, Op!Entry, Op!NodeStatus, Op!Errors
<1>4. landing # 0 /\ n \notin had => found.status # "COMPLETED"
  <2> SUFFICES ASSUME landing # 0, n \notin had
               PROVE  found.status # "COMPLETED"
    OBVIOUS
  <2>1. want[t] # 0 /\ disk[n] = 0 /\ seen[t].entries[n].status # "COMPLETED"
    BY <1>2 DEF OpInv, CallsExpectIt, CompletionIsBacked, Op!Members
  <2>2. ~Op!Complete(t, n)
    BY <2>1 DEF Op!Complete, Op!Lists
  <2>. QED BY <2>1, <2>2 DEF Op!Found
<1> HIDE DEF found
<1>5. PICK s \in {"save", "done"} : branch' = [branch EXCEPT ![t][n] = s]
  BY DEF Op!Probe
<1>6. /\ result' \in [Tabs -> Op!Entries]
      /\ branch' \in [Tabs -> [OpNodes -> {"probe", "save", "done", "broken"}]]
      /\ result'[t][n] = found /\ branch'[t][n] = s
      /\ \A u \in Tabs, m \in OpNodes : u # t \/ m # n =>
           result'[u][m] = result[u][m] /\ branch'[u][m] = branch[u][m]
  BY <1>1, <1>3, <1>5 DEF OpInv, OpTypes, Op!Entries
<1>7. OpTypes' /\ CallsKnowEntries' /\ (CallsExpectIt => CallsExpectIt')
  BY <1>1, <1>6 DEF OpInv, OpTypes, CallsKnowEntries, CallsExpectIt
<1>8. BranchesOfCalls'
  BY <1>1, <1>2, <1>6 DEF OpInv, BranchesOfCalls, Op!Members
<1>9. \A u \in Tabs, m \in OpNodes : Probed(u, m)' => Probed(u, m) \/ (u = t /\ m = n)
  BY <1>1, <1>6 DEF Probed, Op!Members
<1>10. landing # 0 /\ CompletionIsBacked => CompletionIsBacked'
  BY <1>1, <1>4, <1>6, <1>9 DEF CompletionIsBacked
<1>. QED BY <1>1, <1>7, <1>8, <1>10 DEF OpInv

LEMMA SaveStep ==
  ASSUME OpInv, NEW t \in Tabs, NEW n \in OpNodes, Op!Save(t, n)
  PROVE  OpInv'
<1>1. /\ UNCHANGED <<landing, disk, loading, had, status, tab, seen, want, result>>
      /\ branch[t][n] = "save"
  BY DEF Op!Save, Op!fleet
<1>2. PICK s \in {"broken", "done"} : branch' = [branch EXCEPT ![t][n] = s]
  BY DEF Op!Save
<1>3. /\ branch' \in [Tabs -> [OpNodes -> {"probe", "save", "done", "broken"}]]
      /\ branch'[t][n] = s
      /\ \A u \in Tabs, m \in OpNodes : u # t \/ m # n => branch'[u][m] = branch[u][m]
  BY <1>2 DEF OpInv, OpTypes
<1>4. Probed(t, n)
  BY <1>1 DEF OpInv, BranchesOfCalls, Probed
<1>5. \/ entry' = entry
      \/ entry[n] # None /\ entry' = [entry EXCEPT ![n] = result[t][n]]
  BY DEF Op!Save
<1>6. /\ entry' \in Op!Entries
      /\ \A m \in OpNodes : entry'[m] # entry[m] =>
           m = n /\ entry[m] # None /\ entry'[m] = result[t][n]
  BY <1>5 DEF OpInv, OpTypes, Op!Entries
<1>7. OpTypes' /\ CallsKnowEntries' /\ (CallsExpectIt => CallsExpectIt')
  BY <1>1, <1>3, <1>6 DEF OpInv, OpTypes, CallsKnowEntries, CallsExpectIt
<1>8. BranchesOfCalls'
  BY <1>1, <1>3 DEF OpInv, BranchesOfCalls, Op!Members
<1>9. \A u \in Tabs, m \in OpNodes : Probed(u, m)' => Probed(u, m)
  BY <1>1, <1>3, <1>4 DEF Probed, Op!Members
<1>10. CompletionIsBacked => CompletionIsBacked'
  BY <1>1, <1>4, <1>6, <1>9 DEF CompletionIsBacked
<1>. QED BY <1>1, <1>7, <1>8, <1>10 DEF OpInv

LEMMA AnswerStep ==
  ASSUME OpInv, NEW t \in Tabs, Op!Answer(t)
  PROVE  OpInv'
<1> DEFINE overall == Op!Overall({result[t][n].status : n \in Op!Members(t)})
<1>1. /\ UNCHANGED <<landing, disk, loading, had, entry>> /\ tab[t] = "probe"
      /\ \A n \in OpNodes : branch[t][n] \in {"done", "broken"}
      /\ status' = status \/ status' = overall
      /\ Op!Forget(t)
  BY DEF Op!Answer, Op!fleet
<1>2. PICK s \in {"closed", "waiting"} : tab' = [tab EXCEPT ![t] = s]
  BY DEF Op!Answer, Op!At
<1>3. overall \in Op!OpStatus
  BY DEF Op!Overall, Op!OverallOf, Op!OpStatus
<1>4. \A n \in OpNodes : landing # 0 /\ n \notin had /\ entry[n] # None =>
        overall # "COMPLETED"
  <2> SUFFICES ASSUME NEW n \in OpNodes, landing # 0, n \notin had, entry[n] # None
               PROVE  overall # "COMPLETED"
    OBVIOUS
  <2>1. n \in Op!Members(t)
    BY <1>1 DEF OpInv, CallsKnowEntries, Op!Members
  <2>2. Probed(t, n)
    BY <1>1, <2>1 DEF Probed
  <2>3. result[t][n].status # "COMPLETED"
    BY <2>2 DEF OpInv, CompletionIsBacked
  <2>4. \E x \in {result[t][m].status : m \in Op!Members(t)} : x # "COMPLETED"
    BY <2>1, <2>3
  <2>. QED BY <2>4 DEF Op!Overall, Op!OverallOf
<1> HIDE DEF overall
<1>5. /\ Op!NoCall.seen \in [entries : Op!Entries, status : Op!OpStatus]
      /\ Op!NoCall.branch = [n \in OpNodes |-> "done"] /\ Op!NoCall.result \in Op!Entries
  BY DEF Op!NoCall, Op!Created, Op!Entries, Op!Entry, Op!NodeStatus, Op!Errors, Op!OpStatus
<1>6. /\ seen' \in [Tabs -> [entries : Op!Entries, status : Op!OpStatus]]
      /\ want' \in [Tabs -> Nat] /\ result' \in [Tabs -> Op!Entries]
      /\ branch' \in [Tabs -> [OpNodes -> {"probe", "save", "done", "broken"}]]
      /\ tab' \in [Tabs -> Op!Steps] /\ tab'[t] \in {"closed", "waiting"}
      /\ \A n \in OpNodes : branch'[t][n] = "done"
      /\ \A u \in Tabs : u # t =>
           /\ tab'[u] = tab[u] /\ seen'[u] = seen[u] /\ want'[u] = want[u]
           /\ branch'[u] = branch[u] /\ result'[u] = result[u]
  BY <1>1, <1>2, <1>5 DEF OpInv, OpTypes, Op!Forget, Op!Steps
<1>7. OpTypes' /\ CallsKnowEntries' /\ BranchesOfCalls'
  <2>1. OpTypes'
    BY <1>1, <1>3, <1>6 DEF OpInv, OpTypes
  <2>2. CallsKnowEntries'
    <3> SUFFICES ASSUME NEW u \in Tabs, NEW n \in OpNodes, tab'[u] \in {"expect", "probe"},
                        seen'[u].entries[n] = None
                 PROVE  entry'[n] = None
      BY DEF CallsKnowEntries
    <3>1. u # t
      BY <1>6
    <3>. QED BY <1>1, <1>6, <3>1 DEF OpInv, CallsKnowEntries
  <2>3. BranchesOfCalls'
    <3> SUFFICES ASSUME NEW u \in Tabs, NEW n \in OpNodes,
                        branch'[u][n] \in {"probe", "save"}
                 PROVE  tab'[u] = "probe" /\ n \in Op!Members(u)'
      BY DEF BranchesOfCalls
    <3>1. u # t
      BY <1>6
    <3>. QED BY <1>6, <3>1 DEF OpInv, BranchesOfCalls, Op!Members
  <2>. QED BY <2>1, <2>2, <2>3
<1>8. \A u \in Tabs, m \in OpNodes : Probed(u, m)' => u # t /\ Probed(u, m)
  BY <1>6 DEF Probed, Op!Members
<1>9. landing # 0 /\ CallsExpectIt => CallsExpectIt'
  BY <1>6 DEF CallsExpectIt
<1>10. landing # 0 /\ CompletionIsBacked => CompletionIsBacked'
  <2> SUFFICES ASSUME landing # 0, CompletionIsBacked, NEW n \in OpNodes, n \notin had
               PROVE  /\ disk'[n] = 0
                      /\ entry'[n] # None =>
                           entry'[n].status # "COMPLETED" /\ status' # "COMPLETED"
                      /\ \A u \in Tabs :
                           /\ tab'[u] \in {"expect", "probe"} /\ seen'[u].entries[n] # None =>
                                seen'[u].entries[n].status # "COMPLETED"
                           /\ Probed(u, n)' => result'[u][n].status # "COMPLETED"
    BY <1>1 DEF CompletionIsBacked
  <2>1. disk'[n] = 0 /\ (entry'[n] # None => entry'[n].status # "COMPLETED")
    BY <1>1 DEF CompletionIsBacked
  <2>2. entry'[n] # None => status' # "COMPLETED"
    BY <1>1, <1>4 DEF CompletionIsBacked
  <2>3. ASSUME NEW u \in Tabs
        PROVE  /\ tab'[u] \in {"expect", "probe"} /\ seen'[u].entries[n] # None =>
                    seen'[u].entries[n].status # "COMPLETED"
               /\ Probed(u, n)' => result'[u][n].status # "COMPLETED"
    BY <1>6, <1>8 DEF CompletionIsBacked
  <2>. QED BY <2>1, <2>2, <2>3
<1>. QED BY <1>1, <1>7, <1>9, <1>10 DEF OpInv

LEMMA NextOp == OpInv /\ [Op!Next]_opVars => OpInv'
<1> SUFFICES ASSUME OpInv, [Op!Next]_opVars
             PROVE  OpInv'
  OBVIOUS
<1>1. CASE UNCHANGED opVars
  BY <1>1 DEF opVars, OpInv, OpTypes, CallsKnowEntries, BranchesOfCalls, CallsExpectIt,
              CompletionIsBacked, Probed, Op!Members
<1>2. ASSUME NEW t \in Tabs, Op!Open(t) \/ Op!TabStep(t)
      PROVE  OpInv'
  BY <1>2, ReadStep, AnswerStep DEF Op!TabStep
<1>3. ASSUME NEW t \in Tabs, NEW n \in OpNodes, Op!Branch(t, n)
      PROVE  OpInv'
  BY <1>3, ProbeStep, SaveStep DEF Op!Branch
<1>. QED BY <1>1, <1>2, <1>3, WorldStep DEF Op!Next

(***************************************************************************)
(* As long as the landing has its row, an entry is COMPLETED, and an       *)
(* operation with it, only of a node that had the version the operation    *)
(* was created for or a later one: whatever the tabs' calls overlap,       *)
(* whichever nodes stop answering or are deleted.                          *)
(***************************************************************************)
THEOREM CompletedAreConfirmed == PartSpec => []OperationCompletedOrDeleted
<1>1. PartInit => OpInv
  BY InitOp DEF PartInit
<1>2. OpInv /\ [PartNext]_<<part, vars, fillVars, opVars>> => OpInv'
  BY NextOp DEF PartNext, VerifyPart, FillPart, OperationPart
<1>3. OpInv => OperationCompletedOrDeleted
  BY DEF OperationCompletedOrDeleted, Op!CompletedOrDeleted, Op!CompletedIsConfirmed,
         OpInv, CompletionIsBacked
<1>. QED BY <1>1, <1>2, <1>3, PTL DEF PartSpec
=============================================================================
