------------------------- MODULE RequestStream_proofs -------------------------
(***************************************************************************)
(* For any number of requests, modes, replans and failures: the recorder   *)
(* is given one outcome of a request, the one that the client reads;       *)
(* episodes of requests that did not overlap have keys of their own, up to *)
(* the limits of the stores; and a profile counts what its execution did,  *)
(* or less where metrics were lost.                                        *)
(***************************************************************************)
EXTENDS RequestStream, SequenceTheorems, WellFoundedInduction, TLAPS

\* The fields of a request.
RequestShape(x) ==
    x \in [phase : {"none", "open", "ended"}, mode : {x.mode}, at : {x.at},
           session : {x.session}, beside : {x.beside}, number : {x.number},
           answer : {x.answer}, round : {x.round}, answered : {x.answered}]

\* What client and recorder know in each phase of a request: nothing is given to
\* the recorder before the end, and nobody comes back after it.
OutcomeOK(r) ==
    /\ RequestShape(req[r])
    /\ req[r].phase = "none" => client[r] = "none" /\ finishes[r] = <<>>
    /\ req[r].phase = "open" => client[r] = "waiting" /\ finishes[r] = <<>>
    /\ req[r].phase = "ended" =>
          \/ client[r] = "done" /\ finishes[r] = <<"completed">>
          \/ client[r] = "error" /\ finishes[r] = <<"failed">>
          \/ client[r] \in {"silence", "left"} /\ finishes[r] = <<>>

IInv ==
    /\ DOMAIN req = Executions
    /\ DOMAIN client = Executions
    /\ DOMAIN finishes = Executions
    /\ \A r \in Executions : OutcomeOK(r)

-----------------------------------------------------------------------------
\* Client and recorder of the other requests learn nothing.
OthersAsBefore(r) ==
    /\ DOMAIN client' = Executions /\ DOMAIN finishes' = Executions
    /\ \A q \in Executions \ {r} : client'[q] = client[q] /\ finishes'[q] = finishes[q]

\* What may have been learnt at the end of request r.
Learnt(r) ==
    \/ client[r] = "done" /\ finishes[r] = <<"completed">>
    \/ client[r] = "error" /\ finishes[r] = <<"failed">>
    \/ client[r] \in {"silence", "left"} /\ finishes[r] = <<>>

\* A step of one request keeps the invariant if it keeps that request's part.
LEMMA RequestKeepsInv ==
    ASSUME IInv, NEW r \in Executions, NEW x,
           req' = [req EXCEPT ![r] = x],
           OthersAsBefore(r),
           RequestShape(x),
           \/ x.phase = "open" /\ client'[r] = "waiting" /\ finishes'[r] = <<>>
           \/ x.phase = "ended" /\ Learnt(r)'
    PROVE  IInv'
  <1>1. /\ DOMAIN req' = Executions
        /\ req'[r] = x
        /\ \A q \in Executions \ {r} : req'[q] = req[q]
    BY DEF IInv
  <1>2. OutcomeOK(r)'
    BY <1>1 DEF OutcomeOK, Learnt
  <1>3. ASSUME NEW q \in Executions \ {r}
        PROVE  OutcomeOK(q)'
    BY <1>1, <1>3 DEF IInv, OutcomeOK, OthersAsBefore
  <1> QED
    BY <1>1, <1>2, <1>3 DEF IInv, OthersAsBefore

\* Without a word to client or recorder.
LEMMA QuietKeepsInv ==
    ASSUME IInv, NEW r \in Executions, NEW x, Open(r),
           req' = [req EXCEPT ![r] = x], UNCHANGED <<client, finishes>>,
           RequestShape(x), x.phase = "open"
    PROVE  IInv'
  <1>1. client'[r] = "waiting" /\ finishes'[r] = <<>>
    BY DEF IInv, OutcomeOK, Open
  <1>2. OthersAsBefore(r)
    BY DEF IInv, OthersAsBefore
  <1> QED
    BY <1>1, <1>2, RequestKeepsInv

\* The end of a request that is open.
LEMMA EndingKeepsInv ==
    ASSUME IInv, NEW r \in Executions, Open(r),
           req' = [req EXCEPT ![r].phase = "ended"],
           OthersAsBefore(r), Learnt(r)'
    PROVE  IInv'
  <1> DEFINE x == [req[r] EXCEPT !.phase = "ended"]
  <1>1. req' = [req EXCEPT ![r] = x]
    BY DEF IInv
  <1>2. RequestShape(x) /\ x.phase = "ended"
    BY DEF IInv, OutcomeOK, RequestShape
  <1> HIDE DEF x
  <1> QED
    BY <1>1, <1>2, RequestKeepsInv

\* The outcome given to the recorder is the first.
LEMMA FirstFinish ==
    ASSUME IInv, NEW r \in Executions, Open(r), NEW s, Finish(r, s)
    PROVE  finishes' = [finishes EXCEPT ![r] = <<s>>]
  <1>1. finishes[r] = <<>>
    BY DEF IInv, OutcomeOK, Open
  <1>2. Append(finishes[r], s) = <<s>>
    BY <1>1
  <1> QED
    BY <1>2 DEF Finish, IInv
-----------------------------------------------------------------------------
LEMMA InitEstablishesInv == RequestInit => IInv
  <1> SUFFICES ASSUME RequestInit
               PROVE  IInv
    OBVIOUS
  <1>1. /\ DOMAIN req = Executions /\ DOMAIN client = Executions
        /\ DOMAIN finishes = Executions
    BY DEF RequestInit
  <1>2. ASSUME NEW r \in Executions
        PROVE  OutcomeOK(r)
    <2>1. RequestShape(req[r]) /\ req[r].phase = "none"
      BY DEF RequestInit, RequestShape
    <2>2. client[r] = "none" /\ finishes[r] = <<>>
      BY DEF RequestInit
    <2> QED
      BY <2>1, <2>2 DEF OutcomeOK
  <1> QED
    BY <1>1, <1>2 DEF IInv

\* StartRequest, in either mode.
LEMMA StartKeepsInv ==
    ASSUME IInv, NEW r \in Executions, StartRequest(r)
    PROVE  IInv'
  <1>1. PICK mode \in Modes[r], s \in Sessions :
           req' = [req EXCEPT ![r].phase = "open", ![r].mode = mode, ![r].session = s]
    BY DEF StartRequest
  <1> DEFINE x == [req[r] EXCEPT !.phase = "open", !.mode = mode, !.session = s]
  <1>2. req' = [req EXCEPT ![r] = x]
    BY <1>1 DEF IInv
  <1>3. RequestShape(x) /\ x.phase = "open"
    BY DEF IInv, OutcomeOK, RequestShape
  <1>4. finishes[r] = <<>>
    BY DEF IInv, OutcomeOK, StartRequest
  <1>5. finishes' = finishes
    BY DEF StartRequest
  <1>6. client' = [client EXCEPT ![r] = "waiting"]
    BY DEF StartRequest
  <1>7. OthersAsBefore(r) /\ client'[r] = "waiting" /\ finishes'[r] = <<>>
    BY <1>4, <1>5, <1>6 DEF IInv, OthersAsBefore
  <1> HIDE DEF x
  <1> QED
    BY <1>2, <1>3, <1>7, RequestKeepsInv

\* Answered and EndNode leave the request open.
LEMMA WorkKeepsInv ==
    ASSUME IInv, NEW r \in Executions, Answered(r) \/ EndNode(r)
    PROVE  IInv'
  <1>1. Open(r) /\ UNCHANGED <<client, finishes>>
    BY DEF Answered, EndNode
  <1>2. RequestShape(req[r]) /\ req[r].phase = "open" /\ DOMAIN req = Executions
    BY <1>1 DEF IInv, OutcomeOK, Open
  <1>3. ASSUME NEW x, req' = [req EXCEPT ![r] = x], RequestShape(x), x.phase = "open"
        PROVE  IInv'
    BY <1>1, <1>3, QuietKeepsInv
  <1>4. CASE Answered(r)
    <2> DEFINE x == [req[r] EXCEPT !.answered = TRUE]
    <2>1. req' = [req EXCEPT ![r] = x]
      BY <1>2, <1>4 DEF Answered
    <2>2. RequestShape(x) /\ x.phase = "open"
      BY <1>2 DEF RequestShape
    <2> HIDE DEF x
    <2> QED
      BY <1>3, <2>1, <2>2
  <1>5. CASE EndNode(r)
    <2>1. CASE /\ req[r].at = "memory_load"
               /\ req' = [req EXCEPT ![r].at = "execution",
                                     ![r].number = EpisodesLoaded(req[r].session),
                                     ![r].beside = Beside(r)]
      <3> DEFINE x == [req[r] EXCEPT !.at = "execution",
                                     !.number = EpisodesLoaded(req[r].session),
                                     !.beside = Beside(r)]
      <3>1. req' = [req EXCEPT ![r] = x]
        BY <1>2, <2>1
      <3>2. RequestShape(x) /\ x.phase = "open"
        BY <1>2 DEF RequestShape
      <3> HIDE DEF x
      <3> QED
        BY <1>3, <3>1, <3>2
    <2>2. CASE /\ req[r].at = "execution"
               /\ req' = [req EXCEPT ![r].at = "memory_persist"]
      <3> DEFINE x == [req[r] EXCEPT !.at = "memory_persist"]
      <3>1. req' = [req EXCEPT ![r] = x]
        BY <1>2, <2>2
      <3>2. RequestShape(x) /\ x.phase = "open"
        BY <1>2 DEF RequestShape
      <3> HIDE DEF x
      <3> QED
        BY <1>3, <3>1, <3>2
    <2>3. CASE /\ req[r].at = "memory_persist"
               /\ req' = [req EXCEPT ![r].at = "critic", ![r].answered = FALSE,
                                     ![r].number = NextNumber(r)]
      <3> DEFINE x == [req[r] EXCEPT !.at = "critic", !.answered = FALSE,
                                     !.number = NextNumber(r)]
      <3>1. req' = [req EXCEPT ![r] = x]
        BY <1>2, <2>3
      <3>2. RequestShape(x) /\ x.phase = "open"
        BY <1>2 DEF RequestShape
      <3> HIDE DEF x
      <3> QED
        BY <1>3, <3>1, <3>2
    <2>4. ASSUME NEW next \in {"execution", "finalize"},
                 req' = [req EXCEPT ![r].at = next,
                              ![r].answer = req[r].round + 1, ![r].answered = FALSE,
                              ![r].round = IF next = "execution" THEN @ + 1 ELSE @]
          PROVE  IInv'
      <3> DEFINE x == [req[r] EXCEPT !.at = next,
                              !.answer = req[r].round + 1, !.answered = FALSE,
                              !.round = IF next = "execution" THEN req[r].round + 1
                                        ELSE req[r].round]
      <3>1. req' = [req EXCEPT ![r] = x]
        BY <1>2, <2>4
      <3>2. RequestShape(x) /\ x.phase = "open"
        BY <1>2 DEF RequestShape
      <3> HIDE DEF x
      <3> QED
        BY <1>3, <3>1, <3>2
    <2>5. CASE /\ req[r].at = "finalize"
               /\ req' = [req EXCEPT ![r].at = "END", ![r].answer = req[r].round + 1]
      <3> DEFINE x == [req[r] EXCEPT !.at = "END", !.answer = req[r].round + 1]
      <3>1. req' = [req EXCEPT ![r] = x]
        BY <1>2, <2>5
      <3>2. RequestShape(x) /\ x.phase = "open"
        BY <1>2 DEF RequestShape
      <3> HIDE DEF x
      <3> QED
        BY <1>3, <3>1, <3>2
    <2> QED
      BY <1>5, <2>1, <2>2, <2>3, <2>4, <2>5 DEF EndNode
  <1> QED
    BY <1>4, <1>5

\* CompleteRequest and RequestFails give one outcome to both.
LEMMA OutcomeKeepsInv ==
    ASSUME IInv, NEW r \in Executions, CompleteRequest(r) \/ RequestFails(r)
    PROVE  IInv'
  <1>1. CASE CompleteRequest(r)
    <2>1. Open(r) /\ Finish(r, "completed")
      BY <1>1 DEF CompleteRequest
    <2>2. finishes' = [finishes EXCEPT ![r] = <<"completed">>]
      BY <2>1, FirstFinish
    <2>3. OthersAsBefore(r) /\ Learnt(r)'
      BY <1>1, <2>2 DEF CompleteRequest, IInv, OthersAsBefore, Learnt
    <2> QED
      BY <1>1, <2>1, <2>3, EndingKeepsInv DEF CompleteRequest
  <1>2. CASE RequestFails(r)
    <2>1. Open(r) /\ Finish(r, "failed")
      BY <1>2 DEF RequestFails
    <2>2. finishes' = [finishes EXCEPT ![r] = <<"failed">>]
      BY <2>1, FirstFinish
    <2>3. OthersAsBefore(r) /\ Learnt(r)'
      BY <1>2, <2>2 DEF RequestFails, IInv, OthersAsBefore, Learnt
    <2> QED
      BY <1>2, <2>1, <2>3, EndingKeepsInv DEF RequestFails
  <1> QED
    BY <1>1, <1>2

\* A cancelled stream tells nobody anything.
LEMMA CancelKeepsInv ==
    ASSUME IInv, NEW r \in Executions, HeartbeatTimesOut(r) \/ ClientLeaves(r)
    PROVE  IInv'
  <1>1. PICK learnt \in {"silence", "left"} : Open(r) /\ Cancelled(r, learnt)
    BY DEF HeartbeatTimesOut, ClientLeaves
  <1>2. /\ req' = [req EXCEPT ![r].phase = "ended"]
        /\ client' = [client EXCEPT ![r] = learnt]
        /\ finishes' = finishes
    BY <1>1 DEF Cancelled
  <1>3. finishes[r] = <<>>
    BY <1>1 DEF IInv, OutcomeOK, Open
  <1>4. OthersAsBefore(r) /\ Learnt(r)'
    BY <1>2, <1>3 DEF IInv, OthersAsBefore, Learnt
  <1> QED
    BY <1>1, <1>2, <1>4, EndingKeepsInv

LEMMA NextKeepsInv == IInv /\ [Next]_vars => IInv'
  <1> SUFFICES ASSUME IInv, [Next]_vars
               PROVE  IInv'
    OBVIOUS
  <1>1. ASSUME UNCHANGED requestVars
        PROVE  IInv'
    BY <1>1 DEF requestVars, IInv, OutcomeOK
  <1>2. CASE Collector
    BY <1>1, <1>2 DEF Collector
  <1>3. CASE UNCHANGED vars
    BY <1>1, <1>3 DEF vars
  <1> QED
    BY <1>2, <1>3, StartKeepsInv, WorkKeepsInv, OutcomeKeepsInv, CancelKeepsInv
       DEF Next, RequestProceeds

\* The inductive invariant holds in every behaviour.
THEOREM RequestsInvariant == Spec => []IInv
  BY InitEstablishesInv, NextKeepsInv, PTL DEF Spec

\* _finish_execution in invoke and stream: one outcome, the one the client reads, and
\* none if the client left or a heartbeat cancelled the stream.
THEOREM OutcomesAreRead == Spec => []OutcomeAsRead
  <1>1. IInv => OutcomeAsRead
    <2> SUFFICES ASSUME IInv, NEW r \in Executions
                 PROVE  finishes[r] = CASE client[r] = "done" -> <<"completed">>
                                        [] client[r] = "error" -> <<"failed">>
                                        [] OTHER -> <<>>
      BY DEF OutcomeAsRead
    <2>1. req[r].phase \in {"none", "open", "ended"}
      BY DEF IInv, OutcomeOK, RequestShape
    <2> QED
      BY <2>1 DEF IInv, OutcomeOK
  <1> QED
    BY <1>1, RequestsInvariant, PTL


-----------------------------------------------------------------------------
(***************************************************************************)
(* The keys of episodes.  A request that has read its session's memory     *)
(* numbers its episodes above those that were there, unless a limit is     *)
(* reached; requests that are open at the same time know it of each other. *)
(* Here all is a session's episodes, q the requests.                       *)
(***************************************************************************)
Episode == [number : Nat, of : Executions]
Cap == IF LoadLimit < MaxMessages THEN LoadLimit ELSE MaxMessages
Loaded(x) == x.at # "memory_load"
Live(x) == x.phase = "open" /\ Loaded(x)
Overlap(q, i, j) == i \in q[j].beside \/ j \in q[i].beside

\* Below the limits no episode is lost and the numbers are below their number.
NumbersFit(all, q, s) ==
    Len(all) < Cap =>
        /\ \A i \in DOMAIN all : all[i].number < Len(all)
        /\ \A r \in Executions : Live(q[r]) /\ q[r].session = s => q[r].number <= Len(all)

\* The next number of an open request is above those of its own episodes and of all
\* requests that it did not overlap.
NextAbove(all, q, s) ==
    \A r \in Executions :
        Live(q[r]) /\ q[r].session = s /\ q[r].number < Cap =>
            \A i \in DOMAIN all : Overlap(q, all[i].of, r) \/ all[i].number < q[r].number

KeysDistinct(all, q) ==
    \A i, j \in DOMAIN all :
        i < j /\ all[i].number = all[j].number =>
            \/ all[i].number >= LoadLimit
            \/ all[i].number >= MaxMessages
            \/ Overlap(q, all[i].of, all[j].of)

SessionKeys(all, q, s) ==
    /\ all \in Seq(Episode)
    /\ \A i \in DOMAIN all : Loaded(q[all[i].of])
    /\ NumbersFit(all, q, s)
    /\ NextAbove(all, q, s)
    /\ KeysDistinct(all, q)

\* Requests of a session that are open together, and have read its memory, overlap.
OpenOverlap(q) ==
    \A r, o \in Executions :
        r # o /\ Live(q[r]) /\ Live(q[o]) /\ q[r].session = q[o].session => Overlap(q, r, o)

RequestOK(x) ==
    /\ x.number \in Nat
    /\ x.phase = "none" => ~Loaded(x)
    /\ x.phase # "none" => x.session \in Sessions

KeysOK ==
    /\ DOMAIN memory = Sessions
    /\ \A s \in Sessions :
          /\ memory[s] \in [short : {memory[s].short}, long : {memory[s].long},
                            episodes : {memory[s].episodes}]
          /\ SessionKeys(memory[s].episodes, req, s)
    /\ \A r \in Executions : RequestOK(req[r])
    /\ OpenOverlap(req)

\* What an episode is, and where its sequence has it.
LEMMA EpisodesAre ==
    ASSUME NEW all \in Seq(Episode)
    PROVE  /\ Len(all) \in Nat
           /\ DOMAIN all = 1..Len(all)
           /\ \A i \in DOMAIN all : all[i].number \in Nat /\ all[i].of \in Executions
  <1>1. Len(all) \in Nat /\ DOMAIN all = 1..Len(all)
    OBVIOUS
  <1>2. \A i \in DOMAIN all : all[i] \in Episode
    OBVIOUS
  <1>3. \A i \in DOMAIN all : all[i].number \in Nat /\ all[i].of \in Executions
    BY <1>2 DEF Episode
  <1> QED
    BY <1>1, <1>3

LEMMA CapIs == /\ Cap \in Nat \ {0} /\ Cap <= LoadLimit /\ Cap <= MaxMessages
               /\ Cap = LoadLimit \/ Cap = MaxMessages
               /\ LoadLimit \in Nat /\ MaxMessages \in Nat
  BY MemoryAssumption DEF Cap

LEMMA KeysAtFirst == RequestInit => KeysOK
  <1> SUFFICES ASSUME RequestInit
               PROVE  KeysOK
    OBVIOUS
  <1>1. /\ memory = [s \in Sessions |-> [short |-> <<>>, long |-> <<>>, episodes |-> <<>>]]
        /\ \A r \in Executions : /\ req[r].phase = "none" /\ req[r].at = "memory_load"
                                 /\ req[r].number = 0
    BY DEF RequestInit, MemoryInit
  <1>2. <<>> \in Seq(Episode) /\ DOMAIN <<>> = {}
    OBVIOUS
  <1>3. \A r \in Executions : ~Live(req[r]) /\ RequestOK(req[r])
    BY <1>1 DEF Live, RequestOK, Loaded
  <1>4. \A s \in Sessions : SessionKeys(<<>>, req, s)
    BY <1>2, <1>3 DEF SessionKeys, NumbersFit, NextAbove, KeysDistinct
  <1> QED
    BY <1>1, <1>3, <1>4 DEF KeysOK, OpenOverlap

\* Requests that ended or went on, without reading or writing the memory.
SameKeys(x, y) ==
    /\ y.number = x.number /\ y.beside = x.beside
    /\ Loaded(y) <=> Loaded(x)
    /\ Live(y) => Live(x) /\ y.session = x.session

\* As far as session s can tell.
SameFor(x, y, s) ==
    /\ y.beside = x.beside
    /\ Loaded(y) <=> Loaded(x)
    /\ Live(y) /\ y.session = s => Live(x) /\ x.session = s /\ y.number = x.number

LEMMA SessionStays ==
    ASSUME NEW all, NEW q, NEW p, NEW s, SessionKeys(all, q, s),
           \A r \in Executions : SameFor(q[r], p[r], s)
    PROVE  SessionKeys(all, p, s)
  <1>1. \A i, j \in Executions : Overlap(p, i, j) <=> Overlap(q, i, j)
    BY DEF Overlap, SameFor
  <1>2. \A i \in DOMAIN all : all[i].of \in Executions
    BY EpisodesAre DEF SessionKeys
  <1>3. \A i \in DOMAIN all : Loaded(p[all[i].of])
    BY <1>2 DEF SessionKeys, SameFor
  <1>4. NumbersFit(all, p, s)
    BY DEF SessionKeys, NumbersFit, SameFor
  <1>5. NextAbove(all, p, s)
    BY <1>1, <1>2 DEF SessionKeys, NextAbove, SameFor
  <1>6. KeysDistinct(all, p)
    BY <1>1, <1>2 DEF SessionKeys, KeysDistinct
  <1> QED
    BY <1>3, <1>4, <1>5, <1>6 DEF SessionKeys

LEMMA OverlapStays ==
    ASSUME NEW q, NEW p, OpenOverlap(q),
           \A r \in Executions :
              /\ p[r].beside = q[r].beside
              /\ Live(p[r]) => Live(q[r]) /\ p[r].session = q[r].session
    PROVE  OpenOverlap(p)
  BY DEF OpenOverlap, Overlap

\* A step of one request that neither reads nor writes the memory.
LEMMA RequestKeepsKeys ==
    ASSUME IInv, KeysOK, UNCHANGED memory, NEW r \in Executions, NEW x,
           req' = [req EXCEPT ![r] = x],
           SameKeys(req[r], x), x.phase # "none", x.session \in Sessions
    PROVE  KeysOK'
  <1>1. req'[r] = x /\ \A o \in Executions \ {r} : req'[o] = req[o]
    BY DEF IInv
  <1>2. \A o \in Executions : SameKeys(req[o], req'[o])
    BY <1>1 DEF SameKeys
  <1>3. \A o \in Executions : RequestOK(req'[o])
    BY <1>1 DEF KeysOK, RequestOK, SameKeys
  <1>4. OpenOverlap(req')
    BY <1>2, OverlapStays DEF KeysOK, SameKeys
  <1>5. \A s \in Sessions : SessionKeys(memory[s].episodes, req', s)
    <2>1. \A s : \A o \in Executions : SameFor(req[o], req'[o], s)
      BY <1>2 DEF SameKeys, SameFor
    <2> QED
      BY <2>1, SessionStays DEF KeysOK
  <1> QED
    BY <1>3, <1>4, <1>5 DEF KeysOK

\* memory_load: the number is that of the episodes that are there.
LEMMA SessionAfterLoad ==
    ASSUME NEW all, NEW q, NEW p, NEW s, NEW r \in Executions, SessionKeys(all, q, s),
           ~Loaded(q[r]), \A o \in Executions \ {r} : p[o] = q[o],
           p[r].session = s => p[r].number = IF Len(all) < LoadLimit THEN Len(all)
                                             ELSE LoadLimit
    PROVE  SessionKeys(all, p, s)
  <1>1. /\ Len(all) \in Nat
        /\ \A i \in DOMAIN all : /\ all[i].of \in Executions \ {r}
                                 /\ all[i].number \in Nat
    BY EpisodesAre DEF SessionKeys
  <1>2. \A i \in DOMAIN all : p[all[i].of] = q[all[i].of] /\ Loaded(p[all[i].of])
    BY <1>1 DEF SessionKeys
  <1>3. p[r].session = s => /\ p[r].number <= Len(all)
                            /\ p[r].number < Cap => p[r].number = Len(all)
    BY <1>1, CapIs
  <1>4. NumbersFit(all, p, s)
    <2> SUFFICES ASSUME Len(all) < Cap
                 PROVE  /\ \A i \in DOMAIN all : all[i].number < Len(all)
                        /\ \A o \in Executions :
                              Live(p[o]) /\ p[o].session = s => p[o].number <= Len(all)
      BY DEF NumbersFit
    <2>1. \A o \in Executions \ {r} :
             Live(p[o]) /\ p[o].session = s => p[o].number <= Len(all)
      BY DEF SessionKeys, NumbersFit
    <2> QED
      BY <1>3, <2>1 DEF SessionKeys, NumbersFit
  <1>5. NextAbove(all, p, s)
    <2> SUFFICES ASSUME NEW o \in Executions, Live(p[o]), p[o].session = s,
                        p[o].number < Cap, NEW i \in DOMAIN all
                 PROVE  Overlap(p, all[i].of, o) \/ all[i].number < p[o].number
      BY DEF NextAbove
    <2>1. CASE o = r
      <3>1. p[o].number = Len(all) /\ Len(all) < Cap
        BY <1>3, <2>1
      <3> QED
        BY <3>1 DEF SessionKeys, NumbersFit
    <2>2. CASE o # r
      <3>1. p[o] = q[o] /\ p[all[i].of] = q[all[i].of]
        BY <1>2, <2>2
      <3>2. Overlap(q, all[i].of, o) \/ all[i].number < q[o].number
        BY <3>1 DEF SessionKeys, NextAbove
      <3> QED
        BY <3>1, <3>2 DEF Overlap
    <2> QED
      BY <2>1, <2>2
  <1>6. KeysDistinct(all, p)
    <2>1. \A i, j \in DOMAIN all :
             Overlap(p, all[i].of, all[j].of) <=> Overlap(q, all[i].of, all[j].of)
      BY <1>2 DEF Overlap
    <2> QED
      BY <2>1 DEF SessionKeys, KeysDistinct
  <1> QED
    BY <1>2, <1>4, <1>5, <1>6 DEF SessionKeys

\* The requests that may still persist an episode are noted.
LEMMA OverlapAfterLoad ==
    ASSUME NEW q, NEW p, NEW r \in Executions, OpenOverlap(q),
           \A o \in Executions \ {r} : p[o] = q[o],
           \A o \in Executions \ {r} :
              q[o].phase = "open" /\ q[o].session = p[r].session => o \in p[r].beside
    PROVE  OpenOverlap(p)
  <1> SUFFICES ASSUME NEW i \in Executions, NEW j \in Executions, i # j,
                      Live(p[i]), Live(p[j]), p[i].session = p[j].session
               PROVE  Overlap(p, i, j)
    BY DEF OpenOverlap
  <1>1. CASE i = r \/ j = r
    BY <1>1 DEF Live, Overlap
  <1>2. CASE i # r /\ j # r
    <2>1. p[i] = q[i] /\ p[j] = q[j]
      BY <1>2
    <2> QED
      BY <2>1 DEF OpenOverlap, Overlap
  <1> QED
    BY <1>1, <1>2

\* memory_load and the keys of all sessions: only r's session is read.
LEMMA LoadKeepsKeys ==
    ASSUME KeysOK, UNCHANGED memory, NEW r \in Executions, Open(r),
           req[r].at = "memory_load", NEW m, NEW b,
           m = EpisodesLoaded(req[r].session), b = Beside(r),
           \A o \in Executions \ {r} : req'[o] = req[o],
           req'[r].number = m, req'[r].beside = b,
           req'[r].session = req[r].session, req'[r].phase = req[r].phase
    PROVE  KeysOK'
  <1>1. req[r].session \in Sessions /\ req[r].phase = "open"
    BY DEF KeysOK, RequestOK, Open
  <1>2. m = LET n == Len(memory[req[r].session].episodes)
            IN  IF n < LoadLimit THEN n ELSE LoadLimit
    BY DEF EpisodesLoaded
  <1>3. m \in Nat
    <2>1. Len(memory[req[r].session].episodes) \in Nat
      BY <1>1, EpisodesAre DEF KeysOK, SessionKeys
    <2> QED
      BY <1>2, <2>1, CapIs
  <1>4. \A o \in Executions : RequestOK(req'[o])
    BY <1>1, <1>3 DEF KeysOK, RequestOK
  <1>5. OpenOverlap(req')
    <2>1. \A o \in Executions \ {r} :
             req[o].phase = "open" /\ req[o].session = req'[r].session => o \in req'[r].beside
      BY DEF Beside, Open
    <2>2. OpenOverlap(req) /\ \A o \in Executions \ {r} : req'[o] = req[o]
      BY DEF KeysOK
    <2> QED
      BY <2>1, <2>2, OverlapAfterLoad
  <1>6. ASSUME NEW s \in Sessions
        PROVE  SessionKeys(memory[s].episodes, req', s)
    <2>1. req'[r].session = s =>
             req'[r].number = IF Len(memory[s].episodes) < LoadLimit
                              THEN Len(memory[s].episodes) ELSE LoadLimit
      BY <1>2
    <2>2. ~Loaded(req[r]) /\ SessionKeys(memory[s].episodes, req, s)
      BY DEF Loaded, KeysOK
    <2> QED
      BY <2>1, <2>2, SessionAfterLoad
  <1> QED
    BY <1>4, <1>5, <1>6 DEF KeysOK

\* A bounded append drops the oldest entries, if any, and then the store is full.
LEMMA BoundedAppend ==
    ASSUME NEW all \in Seq(Episode), NEW e \in Episode
    PROVE  LET new == Bounded(Append(all, e))
           IN /\ new \in Seq(Episode)
              /\ \E k \in Nat :
                    /\ Len(new) = Len(all) + 1 - k
                    /\ k = 0 \/ Len(new) = MaxMessages
                    /\ \A i \in DOMAIN new :
                          IF i + k \in DOMAIN all THEN new[i] = all[i + k]
                          ELSE i + k = Len(all) + 1 /\ new[i] = e
  <1> DEFINE long == Append(all, e)
             n == Len(all) + 1
             k == IF n > MaxMessages THEN n - MaxMessages ELSE 0
             new == SubSeq(long, k + 1, n)
  <1>1. /\ long \in Seq(Episode) /\ Len(long) = n /\ Len(all) \in Nat /\ DOMAIN all = 1..Len(all)
        /\ \A i \in 1..Len(all) : long[i] = all[i]
        /\ long[n] = e
    OBVIOUS
  <1>2. k \in Nat /\ k + 1 <= n /\ (k = 0 \/ n - k = MaxMessages)
    BY <1>1, CapIs
  <1>3. Bounded(long) = new
    BY <1>1, CapIs DEF Bounded
  <1> HIDE DEF long, n, k
  <1>4. /\ new \in Seq(Episode) /\ Len(new) = n - k
        /\ \A i \in 1..(n - k) : new[i] = long[k + i]
    <2>1. \A i \in (k + 1)..n : long[i] \in Episode
      <3>1. DOMAIN long = 1..n /\ \A i \in DOMAIN long : long[i] \in Episode
        BY <1>1
      <3> QED
        BY <1>2, <3>1
    <2>2. k + 1 \in Int /\ n \in Int
      BY <1>1, <1>2 DEF n
    <2>3. /\ new \in Seq(Episode)
          /\ Len(new) = IF k + 1 <= n THEN n - (k + 1) + 1 ELSE 0
          /\ \A i \in 1..(n - (k + 1) + 1) : new[i] = long[(k + 1) + i - 1]
      BY <2>1, <2>2, SubSeqProperties
    <2>4. n - (k + 1) + 1 = n - k /\ \A i \in 1..(n - k) : (k + 1) + i - 1 = k + i
      BY <1>2, <2>2
    <2> QED
      BY <1>2, <2>3, <2>4
  <1> HIDE DEF new
  <1>5. DOMAIN new = 1..(n - k)
    BY <1>4
  <1>6. \A i \in DOMAIN new :
           IF i + k \in DOMAIN all THEN new[i] = all[i + k]
           ELSE i + k = Len(all) + 1 /\ new[i] = e
    <2> TAKE i \in DOMAIN new
    <2>1. n \in Nat /\ k \in Nat /\ n = Len(all) + 1 /\ Len(all) \in Nat /\ i \in 1..(n - k)
      BY <1>1, <1>2, <1>5 DEF n
    <2>2. k + i = i + k /\ i + k \in 1..n
      BY <2>1
    <2>3. new[i] = long[i + k]
      BY <1>4, <2>1, <2>2
    <2>4. i + k \in DOMAIN all \/ i + k = n
      BY <1>1, <2>1, <2>2
    <2> QED
      BY <1>1, <2>1, <2>3, <2>4
  <1>7. Len(new) = Len(all) + 1 - k /\ (k = 0 \/ Len(new) = MaxMessages)
    BY <1>2, <1>4 DEF n
  <1> QED
    BY <1>2, <1>3, <1>4, <1>6, <1>7 DEF long

\* memory_persist: the request's own episode is the last.
LEMMA SessionAfterPersist ==
    ASSUME NEW all, NEW q, NEW p, NEW s, NEW r \in Executions,
           SessionKeys(all, q, s), OpenOverlap(q),
           Live(q[r]), q[r].session = s, \A o \in Executions : q[o].number \in Nat,
           \A o \in Executions : o # r => p[o] = q[o],
           p[r].number = q[r].number + 1, p[r].beside = q[r].beside,
           p[r].session = s, Live(p[r])
    PROVE  SessionKeys(Bounded(Append(all, [number |-> q[r].number, of |-> r])), p, s)
  <1> DEFINE m == q[r].number
             e == [number |-> m, of |-> r]
             new == Bounded(Append(all, e))
  <1>1. all \in Seq(Episode) /\ e \in Episode /\ e.number = m /\ e.of = r
    BY DEF SessionKeys, Episode
  <1> HIDE DEF e
  <1>2. /\ new \in Seq(Episode)
        /\ \E k \in Nat :
              /\ Len(new) = Len(all) + 1 - k
              /\ k = 0 \/ Len(new) = MaxMessages
              /\ \A i \in DOMAIN new :
                    IF i + k \in DOMAIN all THEN new[i] = all[i + k]
                    ELSE i + k = Len(all) + 1 /\ new[i] = e
    BY <1>1, BoundedAppend
  <1> HIDE DEF new
  <1>3. PICK k \in Nat :
           /\ Len(new) = Len(all) + 1 - k
           /\ k = 0 \/ Len(new) = MaxMessages
           /\ \A i \in DOMAIN new :
                 IF i + k \in DOMAIN all THEN new[i] = all[i + k]
                 ELSE i + k = Len(all) + 1 /\ new[i] = e
    BY <1>2
  <1>4. /\ Len(all) \in Nat /\ DOMAIN all = 1..Len(all) /\ DOMAIN new = 1..Len(new)
        /\ Len(new) \in Nat
        /\ \A i \in DOMAIN all : all[i].number \in Nat /\ all[i].of \in Executions
    BY <1>1, <1>2, EpisodesAre
  <1>5. /\ \A i, j \in Executions : Overlap(p, i, j) <=> Overlap(q, i, j)
        /\ \A o \in Executions : Loaded(p[o]) <=> Loaded(q[o])
    <2>1. \A o \in Executions : p[o].beside = q[o].beside
      OBVIOUS
    <2>2. \A o \in Executions : Loaded(p[o]) <=> Loaded(q[o])
      BY DEF Live
    <2> QED
      BY <2>1, <2>2 DEF Overlap
  <1>6. \A i \in DOMAIN new : Loaded(p[new[i].of])
    <2> TAKE i \in DOMAIN new
    <2>1. CASE i + k \in DOMAIN all
      BY <1>3, <1>4, <1>5, <2>1 DEF SessionKeys
    <2>2. CASE i + k \notin DOMAIN all
      BY <1>1, <1>3, <2>2 DEF Live
    <2> QED
      BY <2>1, <2>2
  <1>7. NumbersFit(new, p, s)
    <2> SUFFICES ASSUME Len(new) < Cap
                 PROVE  /\ \A i \in DOMAIN new : new[i].number < Len(new)
                        /\ \A o \in Executions :
                              Live(p[o]) /\ p[o].session = s => p[o].number <= Len(new)
      BY DEF NumbersFit
    <2>1. k = 0 /\ Len(new) = Len(all) + 1 /\ Len(all) < Cap
      BY <1>3, <1>4, CapIs
    <2>2. /\ \A i \in DOMAIN all : all[i].number < Len(all)
          /\ \A o \in Executions : Live(q[o]) /\ q[o].session = s => q[o].number <= Len(all)
      BY <2>1 DEF SessionKeys, NumbersFit
    <2>3. \A i \in DOMAIN new : IF i \in DOMAIN all THEN new[i] = all[i] ELSE new[i] = e
      BY <1>3, <1>4, <2>1
    <2>4. m <= Len(all)
      BY <2>2
    <2>5. \A i \in DOMAIN new : new[i].number < Len(new)
      BY <1>1, <1>4, <2>1, <2>2, <2>3, <2>4
    <2>6. ASSUME NEW o \in Executions, Live(p[o]), p[o].session = s
          PROVE  p[o].number <= Len(new)
      <3>1. CASE o = r
        BY <1>4, <2>1, <2>4, <3>1
      <3>2. CASE o # r
        <4>1. p[o] = q[o] /\ q[o].number \in Nat
          BY <3>2
        <4>2. q[o].number <= Len(all)
          BY <2>2, <2>6, <4>1
        <4> QED
          BY <1>4, <2>1, <4>1, <4>2
      <3> QED
        BY <3>1, <3>2
    <2> QED
      BY <2>5, <2>6
  <1>8. NextAbove(new, p, s)
    <2> SUFFICES ASSUME NEW o \in Executions, Live(p[o]), p[o].session = s,
                        p[o].number < Cap, NEW i \in DOMAIN new
                 PROVE  Overlap(q, new[i].of, o) \/ new[i].number < p[o].number
      <3>1. \A i \in DOMAIN new : new[i].of \in Executions
        BY <1>2, EpisodesAre
      <3> QED
        BY <1>5, <3>1 DEF NextAbove
    <2>1. CASE o = r /\ i + k \in DOMAIN all
      <3>1. m < Cap /\ new[i] = all[i + k] /\ all[i + k].number \in Nat
        BY <1>3, <1>4, <2>1, CapIs
      <3>2. Overlap(q, all[i + k].of, r) \/ all[i + k].number < m
        BY <2>1, <3>1 DEF SessionKeys, NextAbove
      <3> QED
        BY <2>1, <3>1, <3>2
    <2>2. CASE o = r /\ i + k \notin DOMAIN all
      BY <1>1, <1>3, <2>2
    <2>3. CASE o # r /\ i + k \in DOMAIN all
      <3>1. p[o] = q[o] /\ new[i] = all[i + k]
        BY <1>3, <2>3
      <3> QED
        BY <2>3, <3>1 DEF SessionKeys, NextAbove
    <2>4. CASE o # r /\ i + k \notin DOMAIN all
      <3>1. p[o] = q[o] /\ new[i].of = r
        BY <1>1, <1>3, <2>4
      <3> QED
        BY <2>4, <3>1 DEF OpenOverlap
    <2> QED
      BY <2>1, <2>2, <2>3, <2>4
  <1>9. KeysDistinct(new, p)
    <2> SUFFICES ASSUME NEW i \in DOMAIN new, NEW j \in DOMAIN new, i < j,
                        new[i].number = new[j].number
                 PROVE  \/ new[i].number >= LoadLimit
                        \/ new[i].number >= MaxMessages
                        \/ Overlap(q, new[i].of, new[j].of)
      <3>1. \A l \in DOMAIN new : new[l].of \in Executions
        BY <1>2, EpisodesAre
      <3> QED
        BY <1>5, <3>1 DEF KeysDistinct
    <2>1. i \in Nat /\ j \in Nat /\ i + k \in Nat /\ j + k \in Nat /\ i + k < j + k
      BY <1>4
    <2>2. j + k <= Len(all) + 1
      BY <1>3, <1>4, <2>1
    <2>3. i + k \in DOMAIN all
      BY <1>4, <2>1, <2>2
    <2>4. new[i] = all[i + k]
      BY <1>3, <2>3
    <2>5. CASE j + k \in DOMAIN all
      <3>1. new[j] = all[j + k]
        BY <1>3, <2>5
      <3> QED
        BY <2>1, <2>3, <2>4, <2>5, <3>1 DEF SessionKeys, KeysDistinct
    <2>6. CASE j + k \notin DOMAIN all
      <3>1. new[j].number = m /\ new[j].of = r
        BY <1>1, <1>3, <2>6
      <3>2. CASE m < Cap
        <4>1. Overlap(q, all[i + k].of, r) \/ all[i + k].number < m
          BY <2>3, <3>2 DEF SessionKeys, NextAbove
        <4> QED
          BY <2>4, <3>1, <4>1
      <3>3. CASE m >= Cap
        BY <3>1, <3>3, CapIs
      <3> QED
        BY <3>2, <3>3, CapIs
    <2> QED
      BY <2>5, <2>6
  <1>10. SessionKeys(new, p, s)
    BY <1>2, <1>6, <1>7, <1>8, <1>9 DEF SessionKeys
  <1> QED
    BY <1>10 DEF new, e

\* memory_persist and the keys of all sessions: only r's session is written.
LEMMA PersistKeepsKeys ==
    ASSUME KeysOK, NEW r \in Executions, Open(r), Loaded(req[r]), NEW answer,
           Persist(req[r].session, r, req[r].number, answer),
           \A o \in Executions \ {r} : req'[o] = req[o],
           req'[r].number = req[r].number + 1, req'[r].beside = req[r].beside,
           req'[r].session = req[r].session, req'[r].phase = req[r].phase,
           Loaded(req'[r])
    PROVE  KeysOK'
  <1> DEFINE s == req[r].session
             new == Bounded(Append(memory[s].episodes, [number |-> req[r].number, of |-> r]))
  <1>1. /\ s \in Sessions /\ Live(req[r]) /\ Live(req'[r])
        /\ \A o \in Executions : req[o].number \in Nat
    BY DEF KeysOK, RequestOK, Open, Live
  <1>2. SessionKeys(new, req', s)
    <2>1. SessionKeys(memory[s].episodes, req, s) /\ OpenOverlap(req)
      BY <1>1 DEF KeysOK
    <2>2. \A o \in Executions : o # r => req'[o] = req[o]
      OBVIOUS
    <2> HIDE DEF s
    <2>3. s = req[r].session /\ s = req'[r].session
      BY DEF s
    <2> QED
      BY <1>1, <2>1, <2>2, <2>3, SessionAfterPersist
  <1>3. \A t \in Sessions \ {s} : SessionKeys(memory[t].episodes, req', t)
    <2> TAKE t \in Sessions \ {s}
    <2>1. \A o \in Executions : SameFor(req[o], req'[o], t)
      <3>1. \A o \in Executions \ {r} : SameFor(req[o], req'[o], t)
        BY DEF SameFor
      <3>2. SameFor(req[r], req'[r], t)
        BY DEF SameFor
      <3> QED
        BY <3>1, <3>2
    <2> QED
      BY <2>1, SessionStays DEF KeysOK
  <1>4. OpenOverlap(req')
    <2>1. \A o \in Executions :
             /\ req'[o].beside = req[o].beside
             /\ Live(req'[o]) => Live(req[o]) /\ req'[o].session = req[o].session
      BY <1>1
    <2> QED
      BY <2>1, OverlapStays DEF KeysOK
  <1>5. \A o \in Executions : RequestOK(req'[o])
    <2>1. \A o \in Executions \ {r} : RequestOK(req'[o])
      BY DEF KeysOK
    <2>2. RequestOK(req'[r])
      BY <1>1 DEF RequestOK, Live
    <2> QED
      BY <2>1, <2>2
  <1> DEFINE short == Bounded(Append(memory[s].short, r))
             long == IF answer = 0 THEN memory[s].long
                     ELSE Append(memory[s].long, <<r, answer>>)
  <1>6. /\ DOMAIN memory' = Sessions
        /\ memory'[s] = [memory[s] EXCEPT !.episodes = new, !.short = short, !.long = long]
        /\ \A t \in Sessions \ {s} : memory'[t] = memory[t]
    BY <1>1 DEF KeysOK, Persist
  <1> HIDE DEF new, short, long
  <1>7. memory'[s] \in [short : {short}, long : {long}, episodes : {new}]
    BY <1>1, <1>6 DEF KeysOK
  <1>8. /\ memory'[s].episodes = new /\ memory'[s].short = short /\ memory'[s].long = long
    BY <1>7
  <1>9. \A t \in Sessions :
           /\ memory'[t] \in [short : {memory'[t].short}, long : {memory'[t].long},
                              episodes : {memory'[t].episodes}]
           /\ SessionKeys(memory'[t].episodes, req', t)
    <2> TAKE t \in Sessions
    <2>1. CASE t = s
      BY <1>2, <1>7, <1>8, <2>1
    <2>2. CASE t # s
      BY <1>3, <1>6, <2>2 DEF KeysOK
    <2> QED
      BY <2>1, <2>2
  <1> QED
    BY <1>4, <1>5, <1>6, <1>9 DEF KeysOK

\* What a node that does not touch the memory leaves alone of a request.
SameButWork(x, y) ==
    /\ y.number = x.number /\ y.beside = x.beside /\ y.session = x.session
    /\ y.phase = x.phase /\ y.at # "memory_load"

\* EndNode at the memory nodes.
LEMMA MemoryNodeKeepsKeys ==
    ASSUME IInv, KeysOK, NEW r \in Executions, EndNode(r),
           req[r].at \in {"memory_load", "memory_persist"}
    PROVE  KeysOK'
  <1>1. /\ Open(r) /\ RequestShape(req[r])
        /\ \A x : req' = [req EXCEPT ![r] = x] =>
              req'[r] = x /\ \A o \in Executions \ {r} : req'[o] = req[o]
    BY DEF EndNode, IInv, OutcomeOK
  <1>2. CASE req[r].at = "memory_load"
    <2> DEFINE m == EpisodesLoaded(req[r].session)
               b == Beside(r)
               x == [req[r] EXCEPT !.at = "execution", !.number = m, !.beside = b]
    <2>1. req' = [req EXCEPT ![r].at = "execution", ![r].number = m, ![r].beside = b]
          /\ memory' = memory
      BY <1>2 DEF EndNode
    <2>2. req' = [req EXCEPT ![r] = x]
      BY <2>1 DEF IInv
    <2> HIDE DEF m, b
    <2>3. x.number = m /\ x.beside = b /\ x.session = req[r].session /\ x.phase = req[r].phase
      <3>1. RequestShape(req[r])
        BY <1>1
      <3> QED
        BY <3>1 DEF RequestShape
    <2> HIDE DEF x
    <2>4. req'[r] = x /\ \A o \in Executions \ {r} : req'[o] = req[o]
      BY <1>1, <2>2
    <2>5. m = EpisodesLoaded(req[r].session) /\ b = Beside(r)
      BY DEF m, b
    <2> QED
      BY <1>1, <1>2, <2>1, <2>3, <2>4, <2>5, LoadKeepsKeys
  <1>3. CASE req[r].at = "memory_persist"
    <2> DEFINE m == NextNumber(r)
               x == [req[r] EXCEPT !.at = "critic", !.answered = FALSE, !.number = m]
    <2>1. /\ req' = [req EXCEPT ![r].at = "critic", ![r].answered = FALSE, ![r].number = m]
          /\ Persist(req[r].session, r, req[r].number, req[r].answer)
      BY <1>3 DEF EndNode
    <2>2. req' = [req EXCEPT ![r] = x]
      BY <2>1 DEF IInv
    <2> HIDE DEF m
    <2>3. /\ x.number = m /\ x.beside = req[r].beside /\ x.session = req[r].session
          /\ x.phase = req[r].phase /\ x.at = "critic"
      <3>1. RequestShape(req[r])
        BY <1>1
      <3> QED
        BY <3>1 DEF RequestShape
    <2> HIDE DEF x
    <2>4. req'[r] = x /\ \A o \in Executions \ {r} : req'[o] = req[o]
      BY <1>1, <2>2
    <2>5. m = req[r].number + 1 /\ Loaded(req[r]) /\ Loaded(req'[r])
      BY <1>3, <2>3, <2>4 DEF m, NextNumber, Loaded
    <2> QED
      BY <1>1, <2>1, <2>3, <2>4, <2>5, PersistKeepsKeys
  <1> QED
    BY <1>2, <1>3

\* EndNode at the other nodes.
LEMMA OtherNodeKeepsKeys ==
    ASSUME IInv, KeysOK, NEW r \in Executions, EndNode(r),
           req[r].at \notin {"memory_load", "memory_persist"}
    PROVE  KeysOK'
  <1>1. /\ Open(r) /\ UNCHANGED memory
        /\ RequestShape(req[r]) /\ DOMAIN req = Executions
    BY DEF EndNode, IInv, OutcomeOK
  <1>2. req[r].session \in Sessions /\ Loaded(req[r])
    BY <1>1 DEF KeysOK, RequestOK, Open, Loaded
  <1>3. ASSUME NEW x, req' = [req EXCEPT ![r] = x], SameButWork(req[r], x)
        PROVE  KeysOK'
    <2>1. SameKeys(req[r], x) /\ x.phase # "none" /\ x.session \in Sessions
      BY <1>1, <1>2, <1>3 DEF SameKeys, SameButWork, Live, Loaded, Open
    <2> QED
      BY <1>1, <1>3, <2>1, RequestKeepsKeys
  <1>4. CASE req' = [req EXCEPT ![r].at = "memory_persist"]
    <2> DEFINE x == [req[r] EXCEPT !.at = "memory_persist"]
    <2>1. req' = [req EXCEPT ![r] = x]
      BY <1>1, <1>4
    <2>2. SameButWork(req[r], x)
      BY <1>1 DEF RequestShape, SameButWork
    <2> HIDE DEF x
    <2> QED
      BY <1>3, <2>1, <2>2
  <1>5. ASSUME NEW next \in {"execution", "finalize"},
               req' = [req EXCEPT ![r].at = next,
                              ![r].answer = req[r].round + 1, ![r].answered = FALSE,
                              ![r].round = IF next = "execution" THEN @ + 1 ELSE @]
        PROVE  KeysOK'
    <2> DEFINE x == [req[r] EXCEPT !.at = next,
                              !.answer = req[r].round + 1, !.answered = FALSE,
                              !.round = IF next = "execution" THEN req[r].round + 1
                                        ELSE req[r].round]
    <2>1. req' = [req EXCEPT ![r] = x]
      BY <1>1, <1>5
    <2>2. SameButWork(req[r], x)
      BY <1>1 DEF RequestShape, SameButWork
    <2> HIDE DEF x
    <2> QED
      BY <1>3, <2>1, <2>2
  <1>6. CASE req' = [req EXCEPT ![r].at = "END", ![r].answer = req[r].round + 1]
    <2> DEFINE x == [req[r] EXCEPT !.at = "END", !.answer = req[r].round + 1]
    <2>1. req' = [req EXCEPT ![r] = x]
      BY <1>1, <1>6
    <2>2. SameButWork(req[r], x)
      BY <1>1 DEF RequestShape, SameButWork
    <2> HIDE DEF x
    <2> QED
      BY <1>3, <2>1, <2>2
  <1> QED
    BY <1>4, <1>5, <1>6 DEF EndNode

\* A request begins, is answered, or ends in any way.
LEMMA OtherStepsKeepKeys ==
    ASSUME IInv, KeysOK, NEW r \in Executions,
           \/ StartRequest(r) \/ Answered(r) \/ CompleteRequest(r) \/ RequestFails(r)
           \/ HeartbeatTimesOut(r) \/ ClientLeaves(r)
    PROVE  KeysOK'
  <1>1. /\ UNCHANGED memory
        /\ RequestShape(req[r]) /\ DOMAIN req = Executions
    BY DEF IInv, OutcomeOK, StartRequest, Answered, CompleteRequest, RequestFails,
           HeartbeatTimesOut, ClientLeaves, Cancelled
  <1>2. req[r].phase # "none" => req[r].session \in Sessions
    BY DEF KeysOK, RequestOK
  <1>3. ASSUME NEW mode \in Modes[r], NEW s \in Sessions, StartRequest(r),
               req' = [req EXCEPT ![r].phase = "open", ![r].mode = mode, ![r].session = s]
        PROVE  KeysOK'
    <2> DEFINE x == [req[r] EXCEPT !.phase = "open", !.mode = mode, !.session = s]
    <2>1. req' = [req EXCEPT ![r] = x]
      BY <1>1, <1>3
    <2>2. /\ x.number = req[r].number /\ x.beside = req[r].beside /\ x.at = req[r].at
          /\ x.phase = "open" /\ x.session = s
      BY <1>1 DEF RequestShape
    <2> HIDE DEF x
    <2>3. ~Loaded(req[r])
      BY <1>3 DEF StartRequest, KeysOK, RequestOK
    <2>4. SameKeys(req[r], x)
      BY <2>2, <2>3 DEF SameKeys, Live, Loaded
    <2> QED
      BY <1>1, <2>1, <2>2, <2>4, RequestKeepsKeys
  <1>4. CASE Answered(r)
    <2> DEFINE x == [req[r] EXCEPT !.answered = TRUE]
    <2>1. req' = [req EXCEPT ![r] = x] /\ Open(r)
      BY <1>1, <1>4 DEF Answered
    <2>2. /\ x.number = req[r].number /\ x.beside = req[r].beside /\ x.at = req[r].at
          /\ x.phase = req[r].phase /\ x.session = req[r].session
      BY <1>1 DEF RequestShape
    <2> HIDE DEF x
    <2>3. SameKeys(req[r], x)
      BY <2>2 DEF SameKeys, Live, Loaded
    <2> QED
      BY <1>1, <1>2, <2>1, <2>2, <2>3, RequestKeepsKeys DEF Open
  <1>5. ASSUME Open(r), req' = [req EXCEPT ![r].phase = "ended"]
        PROVE  KeysOK'
    <2> DEFINE x == [req[r] EXCEPT !.phase = "ended"]
    <2>1. req' = [req EXCEPT ![r] = x]
      BY <1>1, <1>5
    <2>2. /\ x.number = req[r].number /\ x.beside = req[r].beside /\ x.at = req[r].at
          /\ x.phase = "ended" /\ x.session = req[r].session
      BY <1>1 DEF RequestShape
    <2> HIDE DEF x
    <2>3. SameKeys(req[r], x)
      BY <2>2 DEF SameKeys, Live, Loaded
    <2> QED
      BY <1>1, <1>2, <1>5, <2>1, <2>2, <2>3, RequestKeepsKeys DEF Open
  <1> QED
    BY <1>3, <1>4, <1>5 DEF StartRequest, CompleteRequest, RequestFails,
       HeartbeatTimesOut, ClientLeaves, Cancelled

LEMMA NextKeepsKeys == IInv /\ KeysOK /\ [Next]_vars => KeysOK'
  <1> SUFFICES ASSUME IInv, KeysOK, [Next]_vars
               PROVE  KeysOK'
    OBVIOUS
  <1>1. ASSUME UNCHANGED <<memory, requestVars>>
        PROVE  KeysOK'
    BY <1>1 DEF requestVars, KeysOK
  <1>2. CASE Collector
    BY <1>1, <1>2 DEF Collector
  <1>3. CASE UNCHANGED vars
    BY <1>1, <1>3 DEF vars
  <1> QED
    BY <1>2, <1>3, MemoryNodeKeepsKeys, OtherNodeKeepsKeys, OtherStepsKeepKeys
       DEF Next, RequestProceeds

\* memory_load and memory_persist: two episodes of a session have one key only if their
\* requests overlapped, or the number is one that a limit of the stores has made stand still.
THEOREM EpisodesToldApart == Spec => []EpisodeKeysDistinct
  <1>1. KeysOK => EpisodeKeysDistinct
    BY DEF KeysOK, SessionKeys, KeysDistinct, Overlap, EpisodeKeysDistinct
  <1> QED
    BY <1>1, RequestsInvariant, KeysAtFirst, NextKeepsKeys, PTL DEF Spec
-----------------------------------------------------------------------------
(***************************************************************************)
(* The profiles.  A queue of metrics is looked at through what the         *)
(* worker's next round makes of it: the stores f[0], f[1], ... that the    *)
(* jobs lead to, the first being the present one.  None of them says more  *)
(* than was done, and the last is exact for who lost no metric.            *)
(***************************************************************************)
Ends == {"completed", "failed"}
Profile == [status : {"absent", "running"} \cup Ends, nodes : [NodeIds -> Nat],
            calls : Nat, llm : Nat]

\* Metrics, and the jobs that the observer makes of them.
Metric == [kind : {"start", "tool", "llm"}]
          \cup [kind : {"node"}, node : MacroNodes]
          \cup [kind : {"end"}, status : Ends]
Job == [kind : {"start", "tool", "llm"}, execution : Executions]
       \cup [kind : {"node"}, node : MacroNodes, execution : Executions]
       \cup [kind : {"end"}, status : Ends, execution : Executions]

\* Profile p has no more of anything than what was done.
NotOver(p, done) ==
    /\ \A n \in NodeIds : p.nodes[n] <= done.nodes[n]
    /\ p.calls <= done.calls /\ p.llm <= done.llm
    /\ p.status = "absent" => p = NoProfile
    /\ p.status \in {"absent", "running", done.status}

\* What the collector is told of what was done.
Seen(done, all) == IF all THEN done ELSE [done EXCEPT !.calls = 0, !.llm = 0]

\* A metric comes first, or of an execution that is running.
Timely(job, done) ==
    IF job.kind = "start" THEN done = NoProfile ELSE done.status = "running"

LEMMA NoProfileIsProfile == NoProfile \in Profile /\ NoProfile.status = "absent"
  BY DEF NoProfile, Profile

\* Putting a metric down to an execution leaves it what it is.
LEMMA MetricIsJob ==
    ASSUME NEW m \in Metric, NEW r \in Executions
    PROVE  /\ For(m, r) \in Job
           /\ For(m, r).execution = r
           /\ For(m, r).kind = m.kind
           /\ \A p \in Profile : Counted(p, For(m, r)) = Counted(p, m)
  <1>1. CASE m \in [kind : {"start", "tool", "llm"}]
    <2>1. For(m, r) = [kind |-> m.kind, execution |-> r]
      BY <1>1 DEF For
    <2>2. /\ For(m, r) \in Job /\ For(m, r).execution = r /\ For(m, r).kind = m.kind
          /\ m.kind \in {"start", "tool", "llm"}
      BY <1>1, <2>1 DEF Job
    <2> QED
      BY <2>2 DEF Counted
  <1>2. CASE m \in [kind : {"node"}, node : MacroNodes]
    <2>1. For(m, r) = [kind |-> m.kind, node |-> m.node, execution |-> r]
      BY <1>2 DEF For
    <2>2. /\ For(m, r) \in Job /\ For(m, r).execution = r /\ For(m, r).kind = m.kind
          /\ m.kind = "node" /\ For(m, r).node = m.node
      BY <1>2, <2>1 DEF Job
    <2> QED
      BY <2>2 DEF Counted
  <1>3. CASE m \in [kind : {"end"}, status : Ends]
    <2>1. For(m, r) = [kind |-> m.kind, status |-> m.status, execution |-> r]
      BY <1>3 DEF For
    <2>2. /\ For(m, r) \in Job /\ For(m, r).execution = r /\ For(m, r).kind = m.kind
          /\ m.kind = "end" /\ For(m, r).status = m.status
      BY <1>3, <2>1 DEF Job
    <2> QED
      BY <2>2 DEF Counted
  <1> QED
    BY <1>1, <1>2, <1>3 DEF Metric

\* What counting does, kind by kind.
LEMMA CountedIs ==
    ASSUME NEW p \in Profile, NEW job \in Job \cup Metric
    PROVE  /\ Counted(p, job) \in Profile
           /\ \/ /\ job.kind = "start"
                 /\ Counted(p, job) = [NoProfile EXCEPT !.status = "running"]
              \/ /\ job.kind = "end" /\ job.status \in Ends
                 /\ Counted(p, job) = [p EXCEPT !.status = job.status]
              \/ /\ job.kind = "node"
                 /\ Counted(p, job) = [p EXCEPT !.nodes[job.node] = @ + 1]
              \/ /\ job.kind = "tool" /\ Counted(p, job) = [p EXCEPT !.calls = @ + 1]
              \/ /\ job.kind = "llm" /\ Counted(p, job) = [p EXCEPT !.llm = @ + 1]
  <1>1. job.kind \in {"start", "tool", "llm", "node", "end"}
        /\ (job.kind = "end" => job.status \in Ends)
    BY DEF Job, Metric
  <1>2. /\ p.status \in {"absent", "running"} \cup Ends /\ p.nodes \in [NodeIds -> Nat]
        /\ p.calls \in Nat /\ p.llm \in Nat
    BY DEF Profile
  <1>3. CASE job.kind = "start"
    BY <1>3, NoProfileIsProfile DEF Counted, Profile
  <1>4. CASE job.kind = "end"
    BY <1>1, <1>4 DEF Counted, Profile
  <1>5. CASE job.kind = "node"
    <2>1. Counted(p, job) = [p EXCEPT !.nodes[job.node] = @ + 1]
      BY <1>5 DEF Counted
    <2> DEFINE nodes == [p.nodes EXCEPT ![job.node] = @ + 1]
    <2>2. nodes \in [NodeIds -> Nat]
      <3>1. ASSUME NEW n \in NodeIds
            PROVE  nodes[n] \in Nat
        <4>1. p.nodes[n] \in Nat
          BY <1>2
        <4> QED
          BY <1>2, <4>1
      <3> QED
        BY <1>2, <3>1
    <2>3. Counted(p, job) = [p EXCEPT !.nodes = nodes]
      BY <2>1
    <2> HIDE DEF nodes
    <2>4. [p EXCEPT !.nodes = nodes] \in Profile
      BY <1>2, <2>2 DEF Profile
    <2> QED
      BY <1>5, <2>1, <2>3, <2>4
  <1>6. CASE job.kind = "tool"
    BY <1>2, <1>6 DEF Counted, Profile
  <1>7. CASE job.kind = "llm"
    BY <1>2, <1>7 DEF Counted, Profile
  <1> QED
    BY <1>1, <1>3, <1>4, <1>5, <1>6, <1>7

\* The fields of the profile after a metric.
LEMMA CountedFields ==
    ASSUME NEW p \in Profile, NEW job \in Job \cup Metric, NEW c, c = Counted(p, job)
    PROVE  /\ c \in Profile
           /\ job.kind = "start" => c = [NoProfile EXCEPT !.status = "running"]
           /\ job.kind # "start" =>
                /\ c.status = IF job.kind = "end" THEN job.status ELSE p.status
                /\ c.calls = IF job.kind = "tool" THEN p.calls + 1 ELSE p.calls
                /\ c.llm = IF job.kind = "llm" THEN p.llm + 1 ELSE p.llm
                /\ \A n \in NodeIds :
                      c.nodes[n] = IF job.kind = "node" /\ job.node = n THEN p.nodes[n] + 1
                                   ELSE p.nodes[n]
           /\ c.status # "absent" \/ (job.kind # "start" /\ p.status = "absent")
           /\ job.kind = "end" => job.status \in Ends
  <1>1. c \in Profile /\ (job.kind = "start" => c = [NoProfile EXCEPT !.status = "running"])
    BY CountedIs
  <1>2. p.nodes \in [NodeIds -> Nat] /\ DOMAIN p = {"status", "nodes", "calls", "llm"}
    BY DEF Profile
  <1>3. job.kind = "end" => job.status \in Ends
    BY CountedIs
  <1>4. job.kind # "start" =>
           /\ c.status = IF job.kind = "end" THEN job.status ELSE p.status
           /\ c.calls = IF job.kind = "tool" THEN p.calls + 1 ELSE p.calls
           /\ c.llm = IF job.kind = "llm" THEN p.llm + 1 ELSE p.llm
    BY <1>2, CountedIs
  <1>5. job.kind # "start" =>
           \A n \in NodeIds :
              c.nodes[n] = IF job.kind = "node" /\ job.node = n THEN p.nodes[n] + 1
                           ELSE p.nodes[n]
    <2>1. CASE job.kind = "node"
      <3>1. c.nodes = [p.nodes EXCEPT ![job.node] = @ + 1]
        BY <1>2, <2>1, CountedIs
      <3> QED
        BY <1>2, <2>1, <3>1
    <2>2. CASE job.kind \notin {"node", "start"}
      <3>1. c.nodes = p.nodes
        BY <1>2, <2>2, CountedIs
      <3> QED
        BY <2>2, <3>1
    <2> QED
      BY <2>1, <2>2
  <1>6. c.status # "absent" \/ (job.kind # "start" /\ p.status = "absent")
    <2>1. job.kind = "start" => c.status = "running"
      BY <1>1, NoProfileIsProfile DEF NoProfile
    <2> QED
      BY <1>3, <1>4, <2>1 DEF Ends
  <1> QED
    BY <1>1, <1>3, <1>4, <1>5, <1>6

\* More was done: a profile that did not overstate does not.
LEMMA MoreDone ==
    ASSUME NEW p \in Profile, NEW done \in Profile, NEW job \in Job \cup Metric,
           NotOver(p, done), Timely(job, done)
    PROVE  NotOver(p, Counted(done, job))
  <1> DEFINE c == Counted(done, job)
  <1> SUFFICES NotOver(p, c)
    OBVIOUS
  <1>1. p.nodes \in [NodeIds -> Nat] /\ done.nodes \in [NodeIds -> Nat]
        /\ p.calls \in Nat /\ p.llm \in Nat /\ done.calls \in Nat /\ done.llm \in Nat
    BY DEF Profile
  <1>2. CASE job.kind = "start"
    <2>1. done = NoProfile /\ c = [NoProfile EXCEPT !.status = "running"]
      BY <1>2, CountedFields DEF Timely
    <2>2. /\ c.nodes = done.nodes /\ c.calls = done.calls /\ c.llm = done.llm
          /\ c.status = "running" /\ done.status = "absent"
      BY <2>1 DEF NoProfile
    <2> HIDE DEF c
    <2> QED
      BY <2>2 DEF NotOver
  <1>3. CASE job.kind # "start"
    <2>1. done.status = "running"
      BY <1>3 DEF Timely
    <2>2. /\ c.calls >= done.calls /\ c.llm >= done.llm
          /\ \A n \in NodeIds : c.nodes[n] >= done.nodes[n] /\ c.nodes[n] \in Nat
          /\ c.calls \in Nat /\ c.llm \in Nat
      BY <1>1, <1>3, CountedFields
    <2>3. p.status \in {"absent", "running"}
      BY <2>1 DEF NotOver
    <2> HIDE DEF c
    <2>4. \A n \in NodeIds : p.nodes[n] <= c.nodes[n]
      BY <1>1, <2>2 DEF NotOver
    <2>5. p.calls <= c.calls /\ p.llm <= c.llm
      BY <1>1, <2>2 DEF NotOver
    <2> QED
      BY <2>3, <2>4, <2>5 DEF NotOver
  <1> QED
    BY <1>2, <1>3

\* A metric counted on both sides.
LEMMA BothCounted ==
    ASSUME NEW p \in Profile, NEW done \in Profile, NEW job \in Job \cup Metric,
           NotOver(p, done), Timely(job, done), job.kind = "start" \/ p.status # "absent"
    PROVE  NotOver(Counted(p, job), Counted(done, job))
  <1> DEFINE b == Counted(p, job)
             c == Counted(done, job)
  <1> SUFFICES NotOver(b, c)
    OBVIOUS
  <1>1. p.nodes \in [NodeIds -> Nat] /\ done.nodes \in [NodeIds -> Nat]
        /\ p.calls \in Nat /\ p.llm \in Nat /\ done.calls \in Nat /\ done.llm \in Nat
    BY DEF Profile
  <1>2. CASE job.kind = "start"
    <2>1. b = c /\ c \in Profile /\ c.status # "absent"
      BY <1>2, CountedFields
    <2>2. c.nodes \in [NodeIds -> Nat] /\ c.calls \in Nat /\ c.llm \in Nat
      BY <2>1 DEF Profile
    <2> HIDE DEF b, c
    <2>3. \A n \in NodeIds : c.nodes[n] <= c.nodes[n]
      BY <2>2
    <2> QED
      BY <2>1, <2>2, <2>3 DEF NotOver
  <1>3. CASE job.kind # "start"
    <2>1. /\ b.status = IF job.kind = "end" THEN job.status ELSE p.status
          /\ b.calls = IF job.kind = "tool" THEN p.calls + 1 ELSE p.calls
          /\ b.llm = IF job.kind = "llm" THEN p.llm + 1 ELSE p.llm
          /\ \A n \in NodeIds :
                b.nodes[n] = IF job.kind = "node" /\ job.node = n THEN p.nodes[n] + 1
                             ELSE p.nodes[n]
          /\ b.status # "absent"
      BY <1>3, CountedFields
    <2>2. /\ c.status = IF job.kind = "end" THEN job.status ELSE done.status
          /\ c.calls = IF job.kind = "tool" THEN done.calls + 1 ELSE done.calls
          /\ c.llm = IF job.kind = "llm" THEN done.llm + 1 ELSE done.llm
          /\ \A n \in NodeIds :
                c.nodes[n] = IF job.kind = "node" /\ job.node = n THEN done.nodes[n] + 1
                             ELSE done.nodes[n]
      BY <1>3, CountedFields
    <2>3. p.status = "running" /\ done.status = "running"
      BY <1>3 DEF Timely, NotOver
    <2> HIDE DEF b, c
    <2>4. ASSUME NEW n \in NodeIds
          PROVE  b.nodes[n] <= c.nodes[n]
      <3>1. p.nodes[n] <= done.nodes[n] /\ p.nodes[n] \in Nat /\ done.nodes[n] \in Nat
        BY <1>1 DEF NotOver
      <3>2. \/ b.nodes[n] = p.nodes[n] + 1 /\ c.nodes[n] = done.nodes[n] + 1
            \/ b.nodes[n] = p.nodes[n] /\ c.nodes[n] = done.nodes[n]
        BY <2>1, <2>2
      <3> QED
        BY <3>1, <3>2
    <2>5. b.calls <= c.calls
      BY <1>1, <2>1, <2>2 DEF NotOver
    <2>6. b.llm <= c.llm
      BY <1>1, <2>1, <2>2 DEF NotOver
    <2> QED
      BY <2>1, <2>2, <2>3, <2>4, <2>5, <2>6 DEF NotOver
  <1> QED
    BY <1>2, <1>3

\* A profile without its calls.
LEMMA Cleared ==
    ASSUME NEW c \in Profile
    PROVE  [c EXCEPT !.calls = 0, !.llm = 0]
              = [status |-> c.status, nodes |-> c.nodes, calls |-> 0, llm |-> 0]
  <1>1. DOMAIN c = {"status", "nodes", "calls", "llm"}
        /\ c = [status |-> c.status, nodes |-> c.nodes, calls |-> c.calls, llm |-> c.llm]
    BY DEF Profile
  <1> DEFINE d == [c EXCEPT !.calls = 0, !.llm = 0]
  <1>2. DOMAIN d = {"status", "nodes", "calls", "llm"}
    BY <1>1
  <1>3. /\ d.status = c.status /\ d.nodes = c.nodes /\ d.calls = 0 /\ d.llm = 0
        /\ d = [x \in DOMAIN d |-> d[x]]
    BY <1>1
  <1> HIDE DEF d
  <1>4. d = [status |-> c.status, nodes |-> c.nodes, calls |-> 0, llm |-> 0]
    BY <1>2, <1>3
  <1> QED
    BY <1>4 DEF d

\* What the collector sees, counted or not.
LEMMA SeenCounted ==
    ASSUME NEW done \in Profile, NEW job \in Job \cup Metric, NEW all \in BOOLEAN
    PROVE  /\ all \/ job.kind \notin {"tool", "llm"} =>
                 Counted(Seen(done, all), job) = Seen(Counted(done, job), all)
           /\ ~all /\ job.kind \in {"tool", "llm"} =>
                 Seen(Counted(done, job), all) = Seen(done, all)
           /\ Seen(done, all).status = done.status
           /\ Seen(NoProfile, all) = NoProfile
  <1>1. DOMAIN done = {"status", "nodes", "calls", "llm"}
        /\ done = [status |-> done.status, nodes |-> done.nodes,
                   calls |-> done.calls, llm |-> done.llm]
    BY DEF Profile
  <1>2. Seen(done, all).status = done.status
    BY <1>1 DEF Seen
  <1>3. Seen(NoProfile, all) = NoProfile
    BY DEF Seen, NoProfile
  <1>4. CASE all
    BY <1>2, <1>3, <1>4 DEF Seen
  <1>5. CASE ~all
    <2> DEFINE s == [status |-> done.status, nodes |-> done.nodes, calls |-> 0, llm |-> 0]
    <2>1. Seen(done, all) = s
      BY <1>1, <1>5 DEF Seen
    <2>2. s \in Profile
      BY DEF Profile
    <2> DEFINE c == Counted(done, job)
    <2>3. Seen(c, all) = [status |-> c.status, nodes |-> c.nodes, calls |-> 0, llm |-> 0]
      BY <1>5, CountedIs, Cleared DEF Seen
    <2> DEFINE goal == /\ job.kind \notin {"tool", "llm"} =>
                             Counted(s, job) = Seen(Counted(done, job), all)
                       /\ job.kind \in {"tool", "llm"} => Seen(Counted(done, job), all) = s
    <2>4. ASSUME job.kind = "start" PROVE goal
      <3>1. /\ Counted(s, job) = [NoProfile EXCEPT !.status = "running"]
            /\ c = [NoProfile EXCEPT !.status = "running"]
        BY <2>4 DEF Counted
      <3>2. [NoProfile EXCEPT !.status = "running"]
               = [status |-> "running", nodes |-> NoProfile.nodes, calls |-> 0, llm |-> 0]
        BY DEF NoProfile
      <3> QED
        BY <2>3, <2>4, <3>1, <3>2
    <2>5. ASSUME job.kind = "end" PROVE goal
      <3>1. Counted(s, job) = [s EXCEPT !.status = job.status]
            /\ c = [done EXCEPT !.status = job.status]
        BY <2>5 DEF Counted
      <3>2. c.status = job.status /\ c.nodes = done.nodes
        BY <1>1, <3>1
      <3> QED
        BY <2>3, <2>5, <3>1, <3>2
    <2>6. ASSUME job.kind = "node" PROVE goal
      <3> DEFINE nodes == [done.nodes EXCEPT ![job.node] = @ + 1]
      <3>1. Counted(done, job) = [done EXCEPT !.nodes = nodes]
        BY <2>6 DEF Counted
      <3>2. Counted(s, job) = [s EXCEPT !.nodes = nodes]
        BY <2>6 DEF Counted
      <3> HIDE DEF nodes
      <3>3. c.status = done.status /\ c.nodes = nodes
        BY <1>1, <3>1
      <3> QED
        BY <2>3, <2>6, <3>2, <3>3
    <2>7. ASSUME job.kind = "tool" PROVE goal
      <3>1. c = [done EXCEPT !.calls = @ + 1]
        BY <2>7 DEF Counted
      <3>2. c.status = done.status /\ c.nodes = done.nodes
        BY <1>1, <3>1
      <3> QED
        BY <2>3, <2>7, <3>2
    <2>8. ASSUME job.kind = "llm" PROVE goal
      <3>1. c = [done EXCEPT !.llm = @ + 1]
        BY <2>8 DEF Counted
      <3>2. c.status = done.status /\ c.nodes = done.nodes
        BY <1>1, <3>1
      <3> QED
        BY <2>3, <2>8, <3>2
    <2>9. job.kind \in {"start", "end", "node", "tool", "llm"}
      BY CountedIs
    <2>10. goal
      <3> HIDE DEF s
      <3> QED
        BY <2>4, <2>5, <2>6, <2>7, <2>8, <2>9
    <2> HIDE DEF s
    <2> QED
      BY <1>2, <1>3, <1>5, <2>1, <2>10 DEF goal
  <1> QED
    BY <1>4, <1>5

-----------------------------------------------------------------------------
Stores == [Executions -> Profile]

\* What a job does to the store.
LEMMA AppliedIs ==
    ASSUME NEW store \in Stores, NEW job \in Job, NEW new, new = Applied(store, job),
           NEW e, e = job.execution
    PROVE  /\ new \in Stores /\ e \in Executions
           /\ \A d \in Executions \ {e} : new[d] = store[d]
           /\ job.kind = "start" \/ store[e].status # "absent" =>
                 new[e] = Counted(store[e], job)
           /\ job.kind # "start" /\ store[e].status = "absent" => new[e] = store[e]
  <1>1. e \in Executions /\ store[e] \in Profile
    BY DEF Job, Stores
  <1>2. CASE job.kind # "start" /\ store[e].status = "absent"
    BY <1>1, <1>2 DEF Applied
  <1>3. CASE ~(job.kind # "start" /\ store[e].status = "absent")
    <2> DEFINE c == Counted(store[e], job)
    <2>1. new = [store EXCEPT ![e] = c]
      BY <1>3 DEF Applied
    <2>2. c \in Profile
      BY <1>1, CountedIs
    <2> HIDE DEF c
    <2>3. new \in Stores /\ new[e] = c /\ \A d \in Executions \ {e} : new[d] = store[d]
      BY <1>1, <2>1, <2>2 DEF Stores
    <2> QED
      BY <1>1, <1>3, <2>3 DEF c
  <1> QED
    BY <1>2, <1>3

\* The least number of a set of numbers.
LEMMA LeastNat ==
    ASSUME NEW S \in SUBSET Nat, S # {}
    PROVE  \E x \in S : \A y \in S : x <= y
  <1>1. PICK x \in S : \A y \in S : ~(<<y, x>> \in OpToRel(<, Nat))
    BY NatLessThanWellFounded, WFMin
  <1>2. ASSUME NEW y \in S
        PROVE  x <= y
    <2>1. <<y, x>> \in Nat \X Nat
      OBVIOUS
    <2>2. ~(y < x)
      BY <1>1, <2>1 DEF OpToRel
    <2> QED
      BY <2>2
  <1> QED
    BY <1>2

\* The stores that a queue leads to.
Trace(f, store, list) ==
    /\ f = [k \in 0..Len(list) |-> f[k]]
    /\ f[0] = store
    /\ \A k \in 1..Len(list) : f[k] = Applied(f[k - 1], list[k])

\* The worker's round ends with the last of them.
LEMMA RoundEnds ==
    ASSUME NEW list, Len(list) \in Nat, NEW store, NEW f, Trace(f, store, list)
    PROVE  InTurn(Applied, store, list) = f[Len(list)]
  <1> DEFINE n == Len(list)
             Solves(g) == g = [k \in 0..n |-> IF k = 0 THEN store
                                              ELSE Applied(g[k - 1], list[k])]
             after == CHOOSE g : Solves(g)
  <1>1. n \in Nat
    OBVIOUS
  <1>2. Solves(f)
    <2> DEFINE h == [k \in 0..n |-> IF k = 0 THEN store ELSE Applied(f[k - 1], list[k])]
    <2>1. \A k \in 0..n : f[k] = h[k]
      BY <1>1 DEF Trace
    <2>2. f = [k \in 0..n |-> f[k]]
      BY DEF Trace
    <2>3. [k \in 0..n |-> f[k]] = h
      BY <2>1
    <2> QED
      BY <2>2, <2>3
  <1>3. Solves(after)
    BY <1>2
  <1>4. InTurn(Applied, store, list) = after[n]
    BY DEF InTurn
  <1> HIDE DEF after
  <1>5. \A k \in 0..n : after[k] = IF k = 0 THEN store ELSE Applied(after[k - 1], list[k])
    BY <1>3
  <1>6. \A k \in 0..n : f[k] = IF k = 0 THEN store ELSE Applied(f[k - 1], list[k])
    BY <1>2
  <1> HIDE DEF n, Solves
  <1>7. \A k \in 0..n : after[k] = f[k]
    <2> DEFINE S == {k \in 0..n : after[k] # f[k]}
    <2> SUFFICES ASSUME S # {}
                 PROVE  FALSE
      OBVIOUS
    <2>1. PICK x \in S : \A y \in S : x <= y
      <3>1. S \in SUBSET Nat
        BY <1>1
      <3> HIDE DEF S
      <3> QED
        BY <3>1, LeastNat
    <2>2. x \in 0..n /\ after[x] # f[x]
      OBVIOUS
    <2>3. x # 0
      BY <1>1, <1>5, <1>6, <2>2
    <2>4. x - 1 \in 0..n /\ ~(x <= x - 1)
      BY <1>1, <2>2, <2>3
    <2>5. after[x - 1] = f[x - 1]
      BY <2>1, <2>4
    <2> QED
      BY <1>5, <1>6, <2>2, <2>3, <2>5
  <1>8. n \in 0..n
    BY <1>1
  <1> QED
    BY <1>4, <1>7, <1>8 DEF n

\* One job: what InTurn does with a single metric.
LEMMA OneCounted ==
    ASSUME NEW p, NEW m
    PROVE  InTurn(Counted, p, <<m>>) = Counted(p, m)
  <1> DEFINE Solves(g) == g = [k \in 0..1 |-> IF k = 0 THEN p
                                              ELSE Counted(g[k - 1], <<m>>[k])]
             after == CHOOSE g : Solves(g)
             f == [k \in 0..1 |-> IF k = 0 THEN p ELSE Counted(p, m)]
  <1>1. Solves(f)
    <2> DEFINE h == [k \in 0..1 |-> IF k = 0 THEN p ELSE Counted(f[k - 1], <<m>>[k])]
    <2>1. f[0] = p
      OBVIOUS
    <2> HIDE DEF f
    <2>2. ASSUME NEW k \in 0..1
          PROVE  f[k] = h[k]
      <3>1. k = 0 \/ k = 1
        OBVIOUS
      <3>2. CASE k = 0
        BY <2>1, <3>2
      <3>3. CASE k = 1
        <4>1. h[k] = Counted(f[0], m)
          BY <3>3
        <4>2. f[k] = Counted(p, m)
          BY <3>3 DEF f
        <4> QED
          BY <2>1, <4>1, <4>2
      <3> QED
        BY <3>1, <3>2, <3>3
    <2>3. f = [k \in 0..1 |-> f[k]]
      BY DEF f
    <2>4. [k \in 0..1 |-> f[k]] = h
      BY <2>2
    <2> QED
      BY <2>3, <2>4
  <1> HIDE DEF f
  <1>2. Solves(after)
    BY <1>1
  <1>3. Len(<<m>>) = 1
    OBVIOUS
  <1>4. InTurn(Counted, p, <<m>>) = after[1]
    BY <1>3 DEF InTurn
  <1> HIDE DEF after
  <1>5. after[0] = p
    BY <1>2
  <1>6. after[1] = Counted(after[0], m)
    BY <1>2
  <1> QED
    BY <1>4, <1>5, <1>6

\* A job that joins the queue leads on from the last store.
LEMMA TraceGrows ==
    ASSUME NEW list \in Seq(Job), NEW job \in Job, NEW store, NEW f, Trace(f, store, list)
    PROVE  \E g : /\ Trace(g, store, Append(list, job))
                  /\ \A k \in 0..Len(list) : g[k] = f[k]
                  /\ g[Len(list) + 1] = Applied(f[Len(list)], job)
  <1> DEFINE n == Len(list)
             new == Append(list, job)
             last == Applied(f[n], job)
             g == [k \in 0..(n + 1) |-> IF k = n + 1 THEN last ELSE f[k]]
  <1>1. /\ n \in Nat /\ Len(new) = n + 1 /\ new[n + 1] = job
        /\ \A k \in 1..n : new[k] = list[k]
    OBVIOUS
  <1>2. f[0] = store /\ \A k \in 1..n : f[k] = Applied(f[k - 1], list[k])
    BY DEF Trace
  <1> HIDE DEF n, new, last
  <1>3. g[n + 1] = last /\ g = [k \in 0..(n + 1) |-> g[k]]
    BY <1>1
  <1>4. \A k \in 0..n : g[k] = f[k]
    BY <1>1
  <1> HIDE DEF g
  <1>5. ASSUME NEW k \in 1..(n + 1)
        PROVE  g[k] = Applied(g[k - 1], new[k])
    <2>1. CASE k = n + 1
      <3>1. k - 1 = n /\ n \in 0..n
        BY <1>1, <2>1
      <3>2. g[k - 1] = f[n]
        BY <1>4, <3>1
      <3> QED
        BY <1>1, <1>3, <2>1, <3>2 DEF last
    <2>2. CASE k # n + 1
      <3>1. k \in 1..n /\ k \in 0..n /\ k - 1 \in 0..n
        BY <1>1, <2>2
      <3> QED
        BY <1>1, <1>2, <1>4, <3>1
    <2> QED
      BY <2>1, <2>2
  <1>6. g[0] = store
    <2>1. 0 \in 0..n
      BY <1>1
    <2> QED
      BY <1>2, <1>4, <2>1
  <1>7. Trace(g, store, new)
    BY <1>1, <1>3, <1>5, <1>6 DEF Trace
  <1>8. g[n + 1] = Applied(f[n], job)
    BY <1>3 DEF last
  <1> QED
    BY <1>4, <1>7, <1>8 DEF n, new

\* Jobs change the profiles of their executions only.
LEMMA TraceKeeps ==
    ASSUME NEW list \in Seq(Job), NEW store, NEW f, Trace(f, store, list),
           \A k \in 0..Len(list) : f[k] \in Stores,
           NEW r \in Executions, \A i \in DOMAIN list : list[i].execution # r
    PROVE  f[Len(list)][r] = store[r]
  <1> DEFINE n == Len(list)
             S == {k \in 0..n : f[k][r] # store[r]}
  <1>1. n \in Nat /\ DOMAIN list = 1..n /\ \A i \in 1..n : list[i] \in Job
    OBVIOUS
  <1> HIDE DEF n
  <1>2. CASE S = {}
    <2>1. n \in 0..n
      BY <1>1
    <2> QED
      BY <1>2, <2>1 DEF n
  <1>3. CASE S # {}
    <2>1. PICK x \in S : \A y \in S : x <= y
      <3>1. S \in SUBSET Nat
        BY <1>1
      <3> HIDE DEF S
      <3> QED
        BY <1>3, <3>1, LeastNat
    <2>2. x \in 0..n /\ f[x][r] # store[r] /\ f[0] = store
      BY DEF Trace
    <2>3. x # 0
      BY <2>2
    <2>4. x - 1 \in 0..n /\ x \in 1..n /\ ~(x <= x - 1)
      BY <1>1, <2>2, <2>3
    <2>5. f[x - 1][r] = store[r]
      BY <2>1, <2>4
    <2>6. f[x] = Applied(f[x - 1], list[x]) /\ f[x - 1] \in Stores
      BY <2>4 DEF Trace, n
    <2>7. list[x] \in Job /\ list[x].execution # r
      BY <1>1, <2>4
    <2>8. f[x][r] = f[x - 1][r]
      BY <2>6, <2>7, AppliedIs
    <2> QED
      BY <2>2, <2>5, <2>8
  <1> QED
    BY <1>2, <1>3

-----------------------------------------------------------------------------
\* The stores f on the way to an empty queue: no profile says more than was done,
\* and the last one of an execution that lost no metric is exact.
Leads(f) ==
    /\ Trace(f, profiles, jobs)
    /\ \A k \in 0..Len(jobs) :
          /\ f[k] \in Stores
          /\ \A r \in Executions : NotOver(f[k][r], did[r])
    /\ \A r \in Executions \ dropped : f[Len(jobs)][r] = Told(r)

\* What was done, by the request's phase.
DidOK ==
    /\ did \in Stores
    /\ \A r \in Executions :
          /\ req[r].phase = "none" => did[r] = NoProfile
          /\ req[r].phase = "open" => did[r].status = "running"

ProfilesOK ==
    /\ jobs \in Seq(Job) /\ Len(jobs) <= MetricsQueue
    /\ DidOK
    /\ \E f : Leads(f)

\* What a metric does to queue and history.
LEMMA RecordIs ==
    ASSUME ProfilesOK, NEW r \in Executions, NEW m \in Metric, NEW to, to \in {r, NoId},
           Record(r, <<m>>, to)
    PROVE  /\ did' = [did EXCEPT ![r] = Counted(did[r], m)]
           /\ \/ to = NoId /\ jobs' = jobs /\ dropped' = dropped
              \/ /\ to = r /\ Len(jobs) + 1 <= MetricsQueue
                 /\ jobs' = Append(jobs, For(m, r)) /\ dropped' = dropped
              \/ to = r /\ jobs' = jobs /\ dropped' = dropped \cup {r}
  <1>1. did' = [did EXCEPT ![r] = Counted(did[r], m)]
    BY OneCounted DEF Record
  <1>2. /\ Len(jobs) \in Nat /\ MetricsQueue \in Nat /\ Len(jobs) <= MetricsQueue
        /\ jobs \in Seq(Job)
    BY MetricsAssumption DEF ProfilesOK
  <1> DEFINE room == IF collector = "off" THEN 0 ELSE MetricsQueue - Len(jobs)
  <1>3. room \in Nat /\ (room # 0 => Len(jobs) + 1 <= MetricsQueue)
    BY <1>2
  <1>4. CASE to = NoId
    <2>1. to \notin Executions
      BY <1>4, RequestsAssumption DEF NoId
    <2>2. SubmitMetrics(<<>>)
      BY <2>1 DEF Record
    <2> DEFINE taken == IF Len(<<>>) <= room THEN Len(<<>>) ELSE room
    <2>3. taken = 0
      BY <1>3
    <2>4. jobs' = jobs \o SubSeq(<<>>, 1, taken)
          /\ dropped' = dropped \cup {<<>>[i].execution : i \in (taken + 1)..Len(<<>>)}
      BY <2>2 DEF SubmitMetrics
    <2>5. jobs \o SubSeq(<<>>, 1, taken) = jobs
      BY <1>2, <2>3
    <2>6. (taken + 1)..Len(<<>>) = {}
      BY <2>3
    <2> QED
      BY <1>1, <1>4, <2>4, <2>5, <2>6
  <1>5. CASE to = r
    <2> DEFINE list == [i \in DOMAIN <<m>> |-> For(<<m>>[i], r)]
               job == For(m, r)
    <2>1. SubmitMetrics(list)
      BY <1>5 DEF Record
    <2>2. list = <<job>>
      OBVIOUS
    <2>3. job \in Job /\ job.execution = r
      BY MetricIsJob
    <2> HIDE DEF list, job
    <2> DEFINE taken == IF Len(list) <= room THEN Len(list) ELSE room
    <2>4. jobs' = jobs \o SubSeq(list, 1, taken)
          /\ dropped' = dropped \cup {list[i].execution : i \in (taken + 1)..Len(list)}
      BY <2>1 DEF SubmitMetrics
    <2>5. Len(list) = 1 /\ list[1] = job /\ list \in Seq(Job)
      BY <2>2, <2>3
    <2>6. taken = IF room = 0 THEN 0 ELSE 1
      BY <1>3, <2>5
    <2> HIDE DEF taken, room
    <2>7. CASE room = 0
      <3>1. taken = 0
        BY <2>6, <2>7
      <3>2. SubSeq(list, 1, 0) = <<>>
        BY <2>5
      <3>3. (taken + 1)..Len(list) = {1}
        BY <2>5, <3>1
      <3>4. jobs \o <<>> = jobs
        BY <1>2
      <3>5. jobs' = jobs
        BY <2>4, <3>1, <3>2, <3>4
      <3>6. dropped' = dropped \cup {r}
        BY <2>3, <2>4, <2>5, <3>3
      <3> QED
        BY <1>1, <1>5, <3>5, <3>6
    <2>8. CASE room # 0
      <3>1. taken = 1
        BY <2>6, <2>8
      <3>2. SubSeq(list, 1, 1) = list
        BY <2>5
      <3>3. (taken + 1)..Len(list) = {}
        BY <2>5, <3>1
      <3>4. jobs \o <<job>> = Append(jobs, job)
        BY <1>2, <2>3
      <3>5. jobs' = Append(jobs, job)
        BY <2>2, <2>4, <3>1, <3>2, <3>4
      <3>6. dropped' = dropped
        BY <2>4, <3>3
      <3> QED
        BY <1>1, <1>3, <1>5, <2>8, <3>5, <3>6 DEF job
    <2> QED
      BY <2>7, <2>8
  <1> QED
    BY <1>4, <1>5

\* A metric, taken or dropped, keeps the queue's stores what they have to be.  Here all
\* tells whether the collector is told of r's tool and model calls.
LEMMA RecordKeepsLeads ==
    ASSUME ProfilesOK, NEW r \in Executions, NEW m \in Metric, NEW to, to \in {r, NoId},
           Record(r, <<m>>, to), UNCHANGED profiles, Timely(m, did[r]),
           NEW all \in BOOLEAN, Told(r) = Seen(did[r], all), Told(r)' = Seen(did'[r], all),
           to = NoId => ~all /\ m.kind \in {"tool", "llm"},
           to = r => all \/ m.kind \notin {"tool", "llm"},
           \A q \in Executions \ {r} : Told(q)' = Told(q)
    PROVE  /\ jobs' \in Seq(Job) /\ Len(jobs') <= MetricsQueue'
           /\ did' \in Stores /\ did'[r] = Counted(did[r], m)
           /\ \A q \in Executions \ {r} : did'[q] = did[q]
           /\ \E f : Leads(f)'
  <1> DEFINE n == Len(jobs)
             c == Counted(did[r], m)
  <1>1. jobs \in Seq(Job) /\ n \in Nat /\ n <= MetricsQueue /\ did \in Stores
    BY DEF ProfilesOK, DidOK
  <1>2. did' = [did EXCEPT ![r] = c]
    BY RecordIs
  <1>3. did[r] \in Profile /\ c \in Profile
    BY <1>1, CountedIs DEF Stores
  <1> HIDE DEF c
  <1>4. did' \in Stores /\ did'[r] = c /\ \A q \in Executions \ {r} : did'[q] = did[q]
    BY <1>1, <1>2, <1>3 DEF Stores
  <1>5. PICK f : Leads(f)
    BY DEF ProfilesOK
  <1>6. \A k \in 0..n : f[k] \in Stores /\ \A q \in Executions : NotOver(f[k][q], did'[q])
    <2> SUFFICES ASSUME NEW k \in 0..n, NEW q \in Executions
                 PROVE  f[k] \in Stores /\ NotOver(f[k][q], did'[q])
      OBVIOUS
    <2>1. f[k] \in Stores /\ NotOver(f[k][q], did[q])
      BY <1>5 DEF Leads
    <2>2. f[k][q] \in Profile
      BY <2>1 DEF Stores
    <2>3. CASE q = r
      BY <1>3, <1>4, <2>1, <2>2, <2>3, MoreDone DEF c
    <2>4. CASE q # r
      BY <1>4, <2>1, <2>4
    <2> QED
      BY <2>1, <2>3, <2>4
  <1>7. n \in 0..n
    BY <1>1
  <1>8. CASE jobs' = jobs
    <2>1. Trace(f, profiles', jobs')
      BY <1>5, <1>8 DEF Leads
    <2>2. ASSUME NEW q \in Executions \ dropped'
          PROVE  f[n][q] = Told(q)'
      <3>1. CASE q # r
        <4>1. q \in Executions \ dropped
          BY <2>2, <3>1, RecordIs
        <4> QED
          BY <1>5, <3>1, <4>1 DEF Leads
      <3>2. CASE q = r
        <4>1. r \notin dropped'
          BY <2>2, <3>2
        <4>2. to = NoId \/ jobs' = Append(jobs, For(m, r))
          BY <4>1, RecordIs
        <4>3. jobs' # Append(jobs, For(m, r))
          <5>1. For(m, r) \in Job
            BY MetricIsJob
          <5>2. Len(Append(jobs, For(m, r))) = n + 1
            BY <1>1, <5>1
          <5> QED
            BY <1>1, <1>8, <5>2
        <4>4. to = NoId /\ ~all /\ m.kind \in {"tool", "llm"}
          BY <4>2, <4>3
        <4>5. dropped' = dropped
          BY <4>1, <4>3, RecordIs
        <4>6. Seen(c, all) = Seen(did[r], all)
          BY <1>3, <4>4, SeenCounted DEF c
        <4>7. f[n][r] = Told(r)
          BY <1>5, <4>1, <4>5 DEF Leads
        <4> QED
          BY <1>4, <3>2, <4>6, <4>7
      <3> QED
        BY <3>1, <3>2
    <2>3. Leads(f)'
      BY <1>6, <1>8, <2>1, <2>2 DEF Leads
    <2> QED
      BY <1>1, <1>4, <1>8, <2>3 DEF c
  <1>9. CASE jobs' # jobs
    <2> DEFINE job == For(m, r)
               new == Applied(f[n], job)
    <2>1. /\ to = r /\ n + 1 <= MetricsQueue /\ jobs' = Append(jobs, job)
          /\ dropped' = dropped
      BY <1>9, RecordIs
    <2>2. /\ job \in Job /\ job.execution = r /\ job.kind = m.kind
          /\ \A p \in Profile : Counted(p, job) = Counted(p, m)
      BY MetricIsJob
    <2>3. Trace(f, profiles, jobs) /\ f[n] \in Stores /\ f[n][r] \in Profile
          /\ NotOver(f[n][r], did[r])
      BY <1>5, <1>7 DEF Leads, Stores
    <2> HIDE DEF job
    <2>4. PICK g : /\ Trace(g, profiles, Append(jobs, job))
                   /\ \A k \in 0..n : g[k] = f[k]
                   /\ g[n + 1] = new
      BY <1>1, <2>2, <2>3, TraceGrows
    <2>5. /\ new \in Stores
          /\ \A d \in Executions \ {r} : new[d] = f[n][d]
          /\ m.kind = "start" \/ f[n][r].status # "absent" =>
                 new[r] = Counted(f[n][r], m)
          /\ m.kind # "start" /\ f[n][r].status = "absent" => new[r] = f[n][r]
      BY <2>2, <2>3, AppliedIs
    <2> HIDE DEF new
    <2>6. \A q \in Executions : NotOver(new[q], did'[q])
      <3> TAKE q \in Executions
      <3>1. CASE q # r
        BY <1>6, <1>7, <2>5, <3>1
      <3>2. CASE q = r /\ (m.kind = "start" \/ f[n][r].status # "absent")
        <4>1. NotOver(Counted(f[n][r], m), c)
          BY <1>3, <2>3, <3>2, BothCounted DEF c
        <4> QED
          BY <1>4, <2>5, <3>2, <4>1
      <3>3. CASE q = r /\ m.kind # "start" /\ f[n][r].status = "absent"
        BY <1>6, <1>7, <2>5, <3>3
      <3> QED
        BY <3>1, <3>2, <3>3
    <2>7. ASSUME NEW q \in Executions \ dropped
          PROVE  new[q] = Told(q)'
      <3>1. f[n][q] = Told(q)
        BY <1>5 DEF Leads
      <3>2. CASE q # r
        BY <2>5, <3>1, <3>2
      <3>3. CASE q = r
        <4>1. f[n][r] = Seen(did[r], all)
          BY <3>1, <3>3
        <4>2. all \/ m.kind \notin {"tool", "llm"}
          BY <2>1
        <4>3. Counted(f[n][r], m) = Seen(c, all) /\ f[n][r].status = did[r].status
          BY <1>3, <4>1, <4>2, SeenCounted DEF c
        <4>4. m.kind = "start" \/ f[n][r].status # "absent"
          BY <4>3 DEF Timely
        <4> QED
          BY <1>4, <2>5, <3>3, <4>3, <4>4
      <3> QED
        BY <3>2, <3>3
    <2>8. Len(jobs') = n + 1 /\ jobs' \in Seq(Job)
      BY <1>1, <2>1, <2>2
    <2>9. \A k \in 0..(n + 1) :
             g[k] \in Stores /\ \A q \in Executions : NotOver(g[k][q], did'[q])
      <3> TAKE k \in 0..(n + 1)
      <3>1. CASE k = n + 1
        BY <2>4, <2>5, <2>6, <3>1
      <3>2. CASE k # n + 1
        <4>1. k \in 0..n
          BY <1>1, <3>2
        <4> QED
          BY <1>6, <2>4, <4>1
      <3> QED
        BY <3>1, <3>2
    <2> HIDE DEF n
    <2>10. Leads(g)'
      BY <2>1, <2>4, <2>7, <2>8, <2>9 DEF Leads
    <2> QED
      BY <1>1, <1>4, <2>1, <2>8, <2>10 DEF c
  <1> QED
    BY <1>8, <1>9

-----------------------------------------------------------------------------
LEMMA ToldIs ==
    ASSUME NEW r \in Executions
    PROVE  /\ Told(r) = Seen(did[r], Current(r) = r)
           /\ Current(r) \in {r, NoId} /\ r # NoId
  BY RequestsAssumption DEF Told, Seen, Current, NoId

\* An empty queue leads nowhere.
LEMMA EmptyTrace ==
    ASSUME NEW store
    PROVE  \E f : Trace(f, store, <<>>) /\ \A k \in 0..Len(<<>>) : f[k] = store
  <1> DEFINE f == [k \in 0..0 |-> store]
  <1>1. f[0] = store /\ f = [k \in 0..0 |-> f[k]] /\ \A k \in 0..0 : f[k] = store
    OBVIOUS
  <1> HIDE DEF f
  <1>2. Len(<<>>) = 0
    OBVIOUS
  <1>3. Trace(f, store, <<>>)
    BY <1>1, <1>2 DEF Trace
  <1> QED
    BY <1>1, <1>2, <1>3

LEMMA NoProfileNotOver == NotOver(NoProfile, NoProfile)
  <1>1. \A n \in NodeIds : NoProfile.nodes[n] = 0
    BY DEF NoProfile
  <1>2. NoProfile.calls = 0 /\ NoProfile.llm = 0 /\ NoProfile.status = "absent"
    BY DEF NoProfile
  <1> QED
    BY <1>1, <1>2 DEF NotOver

LEMMA ProfilesAtFirst == RequestInit => ProfilesOK
  <1> SUFFICES ASSUME RequestInit
               PROVE  ProfilesOK
    OBVIOUS
  <1>1. /\ jobs = <<>> /\ profiles = [e \in Executions |-> NoProfile]
        /\ did = [e \in Executions |-> NoProfile]
        /\ \A r \in Executions : req[r].phase = "none"
    BY DEF RequestInit, MetricsInit
  <1>2. jobs \in Seq(Job) /\ Len(jobs) = 0 /\ Len(jobs) <= MetricsQueue
    BY <1>1, MetricsAssumption
  <1>3. profiles \in Stores /\ did \in Stores
    BY <1>1, NoProfileIsProfile DEF Stores
  <1>4. \A r \in Executions : profiles[r] = Told(r)
    BY <1>1, ToldIs, SeenCounted, NoProfileIsProfile DEF Seen, NoProfile
  <1>5. \A r \in Executions : NotOver(profiles[r], did[r])
    BY <1>1, NoProfileNotOver
  <1>6. \E f : Leads(f)
    <2>1. PICK f : Trace(f, profiles, <<>>) /\ \A k \in 0..Len(<<>>) : f[k] = profiles
      BY EmptyTrace
    <2>2. Len(<<>>) \in 0..Len(<<>>)
      OBVIOUS
    <2>3. Leads(f)
      BY <1>1, <1>3, <1>4, <1>5, <2>1, <2>2 DEF Leads
    <2> QED
      BY <2>3
  <1> QED
    BY <1>1, <1>2, <1>3, <1>6 DEF ProfilesOK, DidOK

\* What a request does, with the metric of it.
LEMMA MetricKeepsProfiles ==
    ASSUME IInv, ProfilesOK, NEW r \in Executions, NEW m \in Metric, NEW to,
           Record(r, <<m>>, to), UNCHANGED <<python, profiles>>,
           NEW x, req' = [req EXCEPT ![r] = x],
           x.phase = "open" \/ x.phase = "ended", x.phase = "open" => m.kind # "end",
           \/ m.kind = "start" /\ to = r /\ req[r].phase = "none"
           \/ /\ Open(r) /\ x.mode = req[r].mode /\ m.kind # "start"
              /\ to = IF m.kind \in {"tool", "llm"} THEN Current(r) ELSE r
    PROVE  ProfilesOK'
  <1> DEFINE all == Current(r)' = r
  <1>1. req'[r] = x /\ \A q \in Executions \ {r} : req'[q] = req[q]
    BY DEF IInv
  <1>2. \A q \in Executions \ {r} : Current(q)' = Current(q)
    BY <1>1 DEF Current
  <1>3. m.kind # "start" => Current(r)' = Current(r)
    BY <1>1 DEF Current
  <1>4. Current(r) \in {r, NoId} /\ r # NoId
    BY ToldIs
  <1>5. Timely(m, did[r])
    BY DEF ProfilesOK, DidOK, Timely, Open
  <1>6. Told(r) = Seen(did[r], all)
    <2>1. CASE m.kind = "start"
      <3>1. did[r] = NoProfile
        BY <1>5, <2>1 DEF Timely
      <3>2. \A b \in BOOLEAN : Seen(NoProfile, b) = NoProfile
        BY DEF Seen, NoProfile
      <3> QED
        BY <3>1, <3>2, ToldIs
    <2>2. CASE m.kind # "start"
      BY <1>3, <2>2, ToldIs
    <2> QED
      BY <2>1, <2>2
  <1>7. Told(r)' = Seen(did'[r], all)
    BY DEF Told, Seen
  <1>8. to \in {r, NoId}
    BY <1>4
  <1>9. to = NoId => ~all /\ m.kind \in {"tool", "llm"}
    BY <1>3, <1>4
  <1>10. to = r => all \/ m.kind \notin {"tool", "llm"}
    BY <1>3, <1>4
  <1>11. /\ jobs' \in Seq(Job) /\ Len(jobs') <= MetricsQueue'
         /\ did' \in Stores /\ did'[r] = Counted(did[r], m)
         /\ \A q \in Executions \ {r} : did'[q] = did[q]
         /\ \E f : Leads(f)'
    <2>1. ASSUME \A q \in Executions \ {r} : did'[q] = did[q]
          PROVE  \A q \in Executions \ {r} : Told(q)' = Told(q)
      BY <1>2, <2>1 DEF Told
    <2>2. did' = [did EXCEPT ![r] = Counted(did[r], m)]
      BY <1>8, RecordIs
    <2>3. \A q \in Executions \ {r} : did'[q] = did[q]
      BY <2>2 DEF ProfilesOK, DidOK, Stores
    <2>4. \A q \in Executions \ {r} : Told(q)' = Told(q)
      BY <2>1, <2>3
    <2>5. all \in BOOLEAN
      OBVIOUS
    <2> HIDE DEF all
    <2> QED
      BY <1>5, <1>6, <1>7, <1>8, <1>9, <1>10, <2>4, <2>5, RecordKeepsLeads
  <1>12. x.phase = "open" => did'[r].status = "running"
    <2> SUFFICES ASSUME x.phase = "open"
                 PROVE  did'[r].status = "running"
      OBVIOUS
    <2>1. did[r] \in Profile
      BY DEF ProfilesOK, DidOK, Stores
    <2>2. CASE m.kind = "start"
      BY <1>11, <2>1, <2>2, CountedFields DEF NoProfile
    <2>3. CASE m.kind # "start"
      <3>1. did[r].status = "running"
        BY <1>5, <2>3 DEF Timely
      <3> QED
        BY <1>11, <2>1, <2>3, <3>1, CountedFields
    <2> QED
      BY <2>2, <2>3
  <1>13. DidOK'
    BY <1>1, <1>11, <1>12 DEF ProfilesOK, DidOK
  <1> QED
    BY <1>11, <1>13 DEF ProfilesOK

\* Nothing is recorded, and no mode changes.
LEMMA QuietKeepsProfiles ==
    ASSUME ProfilesOK, UNCHANGED <<python, jobs, profiles, did, dropped>>,
           \A r \in Executions :
              /\ req'[r].mode = req[r].mode
              /\ req'[r].phase = req[r].phase \/ req'[r].phase = "ended"
    PROVE  ProfilesOK'
  <1>1. \A r \in Executions : Told(r)' = Told(r)
    BY DEF Told, Current
  <1>2. PICK f : Leads(f)
    BY DEF ProfilesOK
  <1>3. Leads(f)'
    BY <1>1, <1>2 DEF Leads
  <1>4. DidOK'
    BY DEF ProfilesOK, DidOK
  <1> QED
    BY <1>3, <1>4 DEF ProfilesOK

\* StartRequest.
LEMMA StartKeepsProfiles ==
    ASSUME IInv, ProfilesOK, NEW r \in Executions, StartRequest(r)
    PROVE  ProfilesOK'
  <1>1. PICK mode \in Modes[r], s \in Sessions :
           req' = [req EXCEPT ![r].phase = "open", ![r].mode = mode, ![r].session = s]
    BY DEF StartRequest
  <1> DEFINE x == [req[r] EXCEPT !.phase = "open", !.mode = mode, !.session = s]
             m == [kind |-> "start"]
  <1>2. req' = [req EXCEPT ![r] = x] /\ x.phase = "open"
    BY <1>1 DEF IInv, OutcomeOK, RequestShape
  <1>3. m \in Metric /\ m.kind = "start"
    BY DEF Metric
  <1>4. Record(r, <<m>>, r) /\ UNCHANGED <<python, profiles>> /\ req[r].phase = "none"
    BY DEF StartRequest, Begin
  <1> HIDE DEF x, m
  <1> QED
    BY <1>2, <1>3, <1>4, MetricKeepsProfiles

\* Answered: a tool call, or a completion for the critic.
LEMMA AnsweredKeepsProfiles ==
    ASSUME IInv, ProfilesOK, NEW r \in Executions, Answered(r)
    PROVE  ProfilesOK'
  <1> DEFINE x == [req[r] EXCEPT !.answered = TRUE]
             m == [kind |-> IF req[r].at = "critic" THEN "llm" ELSE "tool"]
  <1>1. req' = [req EXCEPT ![r] = x] /\ Open(r)
    BY DEF Answered, IInv
  <1>2. x.phase = "open" /\ x.mode = req[r].mode
    BY <1>1 DEF IInv, OutcomeOK, RequestShape, Open
  <1>3. m \in Metric /\ m.kind \in {"tool", "llm"}
    BY DEF Metric
  <1>4. Record(r, <<m>>, Current(r)) /\ UNCHANGED <<python, profiles>>
    BY DEF Answered
  <1> HIDE DEF x, m
  <1> QED
    BY <1>1, <1>2, <1>3, <1>4, MetricKeepsProfiles

\* EndNode: a visit of the node.
LEMMA NodeKeepsProfiles ==
    ASSUME IInv, ProfilesOK, NEW r \in Executions, EndNode(r)
    PROVE  ProfilesOK'
  <1> DEFINE m == [kind |-> "node", node |-> req[r].at]
  <1>1. /\ Open(r) /\ Record(r, <<m>>, r) /\ UNCHANGED <<python, profiles>>
        /\ RequestShape(req[r]) /\ DOMAIN req = Executions
    BY DEF EndNode, IInv, OutcomeOK
  <1>2. req[r].at \in MacroNodes
    BY DEF EndNode, MacroNodes
  <1>3. m \in Metric /\ m.kind = "node"
    BY <1>2 DEF Metric
  <1> HIDE DEF m
  <1>4. ASSUME NEW x, req' = [req EXCEPT ![r] = x], x.phase = req[r].phase,
               x.mode = req[r].mode
        PROVE  ProfilesOK'
    BY <1>1, <1>3, <1>4, MetricKeepsProfiles DEF Open
  <1>5. CASE req' = [req EXCEPT ![r].at = "execution",
                                ![r].number = EpisodesLoaded(req[r].session),
                                ![r].beside = Beside(r)]
    <2> DEFINE b == Beside(r)
               e == EpisodesLoaded(req[r].session)
               x == [req[r] EXCEPT !.at = "execution", !.number = e, !.beside = b]
    <2> HIDE DEF b, e
    <2>1. req' = [req EXCEPT ![r] = x]
      BY <1>1, <1>5 DEF b, e
    <2>2. x.phase = req[r].phase /\ x.mode = req[r].mode
      BY <1>1 DEF RequestShape
    <2> HIDE DEF x
    <2> QED
      BY <1>4, <2>1, <2>2
  <1>6. CASE req' = [req EXCEPT ![r].at = "memory_persist"]
    <2> DEFINE x == [req[r] EXCEPT !.at = "memory_persist"]
    <2>1. req' = [req EXCEPT ![r] = x]
      BY <1>1, <1>6
    <2>2. x.phase = req[r].phase /\ x.mode = req[r].mode
      BY <1>1 DEF RequestShape
    <2> HIDE DEF x
    <2> QED
      BY <1>4, <2>1, <2>2
  <1>7. CASE req' = [req EXCEPT ![r].at = "critic", ![r].answered = FALSE,
                                ![r].number = NextNumber(r)]
    <2> DEFINE e == NextNumber(r)
               x == [req[r] EXCEPT !.at = "critic", !.answered = FALSE, !.number = e]
    <2> HIDE DEF e
    <2>1. req' = [req EXCEPT ![r] = x]
      BY <1>1, <1>7 DEF e
    <2>2. x.phase = req[r].phase /\ x.mode = req[r].mode
      BY <1>1 DEF RequestShape
    <2> HIDE DEF x
    <2> QED
      BY <1>4, <2>1, <2>2
  <1>8. ASSUME NEW next \in {"execution", "finalize"},
               req' = [req EXCEPT ![r].at = next,
                              ![r].answer = req[r].round + 1, ![r].answered = FALSE,
                              ![r].round = IF next = "execution" THEN @ + 1 ELSE @]
        PROVE  ProfilesOK'
    <2> DEFINE x == [req[r] EXCEPT !.at = next,
                              !.answer = req[r].round + 1, !.answered = FALSE,
                              !.round = IF next = "execution" THEN req[r].round + 1
                                        ELSE req[r].round]
    <2>1. req' = [req EXCEPT ![r] = x]
      BY <1>1, <1>8
    <2>2. x.phase = req[r].phase /\ x.mode = req[r].mode
      BY <1>1 DEF RequestShape
    <2> HIDE DEF x
    <2> QED
      BY <1>4, <2>1, <2>2
  <1>9. CASE req' = [req EXCEPT ![r].at = "END", ![r].answer = req[r].round + 1]
    <2> DEFINE x == [req[r] EXCEPT !.at = "END", !.answer = req[r].round + 1]
    <2>1. req' = [req EXCEPT ![r] = x]
      BY <1>1, <1>9
    <2>2. x.phase = req[r].phase /\ x.mode = req[r].mode
      BY <1>1 DEF RequestShape
    <2> HIDE DEF x
    <2> QED
      BY <1>4, <2>1, <2>2
  <1> QED
    BY <1>5, <1>6, <1>7, <1>8, <1>9 DEF EndNode

\* The ways in which a request ends.
LEMMA EndingKeepsProfiles ==
    ASSUME IInv, ProfilesOK, NEW r \in Executions,
           \/ CompleteRequest(r) \/ RequestFails(r)
           \/ HeartbeatTimesOut(r) \/ ClientLeaves(r)
    PROVE  ProfilesOK'
  <1> DEFINE x == [req[r] EXCEPT !.phase = "ended"]
  <1>1. /\ Open(r) /\ req' = [req EXCEPT ![r].phase = "ended"]
        /\ UNCHANGED <<python, profiles>>
    BY DEF CompleteRequest, RequestFails, HeartbeatTimesOut, ClientLeaves, Cancelled
  <1>2. req' = [req EXCEPT ![r] = x]
    BY <1>1 DEF IInv
  <1>3. x.phase = "ended" /\ x.mode = req[r].mode
    BY DEF IInv, OutcomeOK, RequestShape
  <1> HIDE DEF x
  <1>4. ASSUME NEW status \in Ends, Finish(r, status)
        PROVE  ProfilesOK'
    <2> DEFINE m == [kind |-> "end", status |-> status]
    <2>1. m \in Metric /\ m.kind = "end" /\ Record(r, <<m>>, r)
      BY <1>4 DEF Metric, Finish
    <2> HIDE DEF m
    <2> QED
      BY <1>1, <1>2, <1>3, <2>1, MetricKeepsProfiles
  <1>5. CASE UNCHANGED <<did, jobs, losses, dropped>>
    <2>1. \A q \in Executions :
             /\ req'[q].mode = req[q].mode
             /\ req'[q].phase = req[q].phase \/ req'[q].phase = "ended"
      BY <1>2, <1>3 DEF IInv
    <2> QED
      BY <1>1, <1>5, <2>1, QuietKeepsProfiles
  <1>6. CASE Record(r, <<[kind |-> "tool"]>>, Current(r))
    <2> DEFINE m == [kind |-> "tool"]
    <2>1. m \in Metric /\ m.kind = "tool" /\ Record(r, <<m>>, Current(r))
      BY <1>6 DEF Metric
    <2> HIDE DEF m
    <2> QED
      BY <1>1, <1>2, <1>3, <2>1, MetricKeepsProfiles
  <1>7. CASE CompleteRequest(r) \/ RequestFails(r)
    BY <1>4, <1>7 DEF CompleteRequest, RequestFails, Ends
  <1>8. CASE HeartbeatTimesOut(r) \/ ClientLeaves(r)
    BY <1>5, <1>6, <1>8 DEF HeartbeatTimesOut, ClientLeaves, Cancelled
  <1> QED
    BY <1>7, <1>8

\* The collector: a round, or the end of it, with or without jobs in the queue.
LEMMA CollectorKeepsProfiles ==
    ASSUME ProfilesOK, Collector
    PROVE  ProfilesOK'
  <1>1. UNCHANGED <<python, req, did>>
    BY DEF Collector, MetricsStep, ApplyJobs, StopCollector, CollectorJoined,
           CollectorDrainTimesOut, requestVars
  <1>2. /\ \A r \in Executions : Told(r)' = Told(r)
        /\ DidOK'
    BY <1>1 DEF Told, Current, ProfilesOK, DidOK
  <1>3. PICK f : Leads(f)
    BY DEF ProfilesOK
  <1>4. jobs \in Seq(Job) /\ Len(jobs) \in Nat /\ 0 \in 0..Len(jobs) /\ Len(jobs) \in 0..Len(jobs)
    BY DEF ProfilesOK
  <1>5. <<>> \in Seq(Job) /\ Len(<<>>) <= MetricsQueue
    BY MetricsAssumption
  <1>6. CASE StopCollector \/ CollectorJoined
    BY <1>1, <1>6, QuietKeepsProfiles DEF StopCollector, CollectorJoined
  <1>7. CASE ApplyJobs
    <2>1. profiles' = f[Len(jobs)] /\ jobs' = <<>> /\ dropped' = dropped
      BY <1>3, <1>4, <1>7, RoundEnds DEF ApplyJobs, Leads
    <2>2. profiles' \in Stores
      BY <1>3, <1>4, <2>1 DEF Leads
    <2>3. \A r \in Executions : NotOver(profiles'[r], did'[r])
      BY <1>1, <1>3, <1>4, <2>1 DEF Leads
    <2>4. \A r \in Executions \ dropped' : profiles'[r] = Told(r)'
      BY <1>2, <1>3, <2>1 DEF Leads
    <2>5. \E g : Leads(g)'
      <3>1. PICK g : Trace(g, profiles', <<>>) /\ \A k \in 0..Len(<<>>) : g[k] = profiles'
        BY EmptyTrace
      <3>2. Len(<<>>) \in 0..Len(<<>>)
        OBVIOUS
      <3>3. Leads(g)'
        BY <2>1, <2>2, <2>3, <2>4, <3>1, <3>2 DEF Leads
      <3> QED
        BY <3>3
    <2> QED
      BY <1>2, <1>5, <2>1, <2>5 DEF ProfilesOK
  <1>8. CASE CollectorDrainTimesOut
    <2>1. /\ profiles' = profiles /\ jobs' = <<>>
          /\ dropped' = dropped \cup {jobs[i].execution : i \in DOMAIN jobs}
      BY <1>8 DEF CollectorDrainTimesOut
    <2>2. profiles = f[0] /\ profiles \in Stores
          /\ \A r \in Executions : NotOver(profiles[r], did[r])
      BY <1>3, <1>4 DEF Leads, Trace
    <2>3. ASSUME NEW r \in Executions \ dropped'
          PROVE  profiles'[r] = Told(r)'
      <3>1. r \notin dropped /\ \A i \in DOMAIN jobs : jobs[i].execution # r
        BY <2>1, <2>3
      <3>2. f[Len(jobs)][r] = profiles[r]
        BY <1>3, <1>4, <3>1, TraceKeeps DEF Leads
      <3> QED
        BY <1>2, <1>3, <2>1, <3>1, <3>2 DEF Leads
    <2>4. \E g : Leads(g)'
      <3>1. PICK g : Trace(g, profiles', <<>>) /\ \A k \in 0..Len(<<>>) : g[k] = profiles'
        BY EmptyTrace
      <3>2. Len(<<>>) \in 0..Len(<<>>)
        OBVIOUS
      <3>3. Leads(g)'
        BY <1>1, <2>1, <2>2, <2>3, <3>1, <3>2 DEF Leads
      <3> QED
        BY <3>3
    <2> QED
      BY <1>2, <1>5, <2>1, <2>4 DEF ProfilesOK
  <1> QED
    BY <1>6, <1>7, <1>8 DEF Collector, MetricsStep

LEMMA NextKeepsProfiles == IInv /\ ProfilesOK /\ [Next]_vars => ProfilesOK'
  <1> SUFFICES ASSUME IInv, ProfilesOK, [Next]_vars
               PROVE  ProfilesOK'
    OBVIOUS
  <1>1. CASE UNCHANGED vars
    BY <1>1, QuietKeepsProfiles DEF vars, metricsVars, requestVars
  <1> QED
    BY <1>1, StartKeepsProfiles, AnsweredKeepsProfiles, NodeKeepsProfiles,
       EndingKeepsProfiles, CollectorKeepsProfiles DEF Next, RequestProceeds

THEOREM ProfilesInvariant == Spec => []ProfilesOK
  BY RequestsInvariant, ProfilesAtFirst, NextKeepsProfiles, PTL DEF Spec

\* MetricsCollector: however a full queue drops metrics of requests that run side by
\* side, no profile has more of anything than its execution did, or an outcome it did not have.
THEOREM ProfilesUnderstate == Spec => []ProfilesNeverOverstate
  <1>1. ProfilesOK => ProfilesNeverOverstate
    <2> SUFFICES ASSUME ProfilesOK, NEW r \in Executions
                 PROVE  NotOver(profiles[r], did[r])
      BY DEF ProfilesNeverOverstate, NotOver
    <2>1. PICK f : Leads(f)
      BY DEF ProfilesOK
    <2>2. 0 \in 0..Len(jobs) /\ f[0] = profiles
      BY <2>1 DEF ProfilesOK, Leads, Trace
    <2> QED
      BY <2>1, <2>2 DEF Leads
  <1> QED
    BY <1>1, ProfilesInvariant, PTL

\* MetricsCollector, MetricsStore: with the queue empty, the profile of an execution that
\* lost no metric counts what it did, the calls of a stream up to Python 3.11 aside.
THEOREM DrainedProfilesExact == Spec => []DrainedProfileIsExact
  <1>1. ProfilesOK => DrainedProfileIsExact
    <2> SUFFICES ASSUME ProfilesOK, jobs = <<>>, NEW r \in Executions, r \notin dropped
                 PROVE  profiles[r] = Told(r)
      BY DEF DrainedProfileIsExact
    <2>1. PICK f : Leads(f)
      BY DEF ProfilesOK
    <2>2. Len(jobs) = 0 /\ f[0] = profiles
      BY <2>1 DEF Leads, Trace
    <2> QED
      BY <2>1, <2>2 DEF Leads
  <1> QED
    BY <1>1, ProfilesInvariant, PTL
=============================================================================
