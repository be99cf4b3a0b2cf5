-------------------------- MODULE Attempts_proofs ---------------------------
(***************************************************************************)
(* For any turns of a conversation, any number of attempts and slots and   *)
(* any number of failures: what an attempt spent is recorded at most once, *)
(* and an answer is one attempt and the whole of it.                       *)
(***************************************************************************)
EXTENDS Attempts, TLAPS

\* Where usage frames are in a connection's wire.
UsageIn(c) == {i \in DOMAIN wire[c] : wire[c][i] \in Usage}

\* A child reports once: while its usage is on the wire no other of its frames
\* has been received, and none follows; the closing frame comes from a handler
\* that is done and whose connection was not lost.
WireInv(c) ==
    /\ stage[c] = "none" => wire[c] = <<>> /\ c \notin spent \cup cut
    /\ c \in reported => stage[c] = "running"
    /\ \A i, j \in UsageIn(c) : i = j
    /\ UsageIn(c) # {} => c \notin spent
    /\ UsageIn(c) # {} \/ c \in spent => c \in reported \/ stage[c] = "closed"
    /\ \A i \in DOMAIN wire[c] : wire[c][i] = "done" => stage[c] = "closed" /\ c \notin cut

\* An attempt that has no slot yet has not touched its connection, and there
\* is one left after a notice.
FreshInv(t) ==
    /\ pc[t] = "notice" => attempt[t] < MaxAttempts
    /\ \A a \in 1..MaxAttempts :
           a > attempt[t] \/ (a = attempt[t] /\ pc[t] \in {"new", "gate"})
               => stage[<<t, a>>] = "none"

StreamInv(t) ==
    /\ pc[t] \notin {"nap", "store"}
    /\ pc[t] \in {"new", "gate"} => heard[t] = Nothing
    /\ shown[t] \subseteq {attempt[t]}
    /\ pc[t] \in {"new", "gate", "notice"} \/ (pc[t] = "read" /\ ~heard[t].text)
           => shown[t] = {}
    /\ pc[t] # "over" => result[t] = "none"
    /\ result[t] = "answer" => stage[Conn(t)] = "closed" /\ Conn(t) \notin cut

\* The frames that streamed turns hold back.
InHand == {Conn(t) : t \in {u \in Streams : pc[u] = "read" /\ heard[u].usage # "none"}}

\* A frame that was received waits in one place to be recorded, or has been.
FrameInv(f) ==
    /\ recorded[f] \in {0, 1}
    /\ recorded[f] = 1 => f \in spent
    /\ f \in InHand \cup Stashed \cup retried => f \in spent /\ recorded[f] = 0
    /\ f \notin InHand \cap Stashed /\ f \notin InHand \cap retried
    /\ f \notin Stashed \cap retried

IInv ==
    /\ TypeOK
    /\ \A c \in Connections : WireInv(c) /\ FrameInv(c)
    /\ \A t \in Turns : FreshInv(t)
    /\ \A t \in Streams : StreamInv(t)
    /\ \A t \in Blocks : \A a, b \in shown[t] : a = b

-----------------------------------------------------------------------------
(* Connections, frames and reports. *)

LEMMA ConnIsOwn ==
  ASSUME attempt \in [Turns -> 1..MaxAttempts]
  PROVE  /\ \A t \in Turns : Conn(t) \in Connections /\ Conn(t) = <<t, attempt[t]>>
         /\ \A t, u \in Turns : t # u => Conn(t) # Conn(u)
         /\ \A t \in Turns : Conn(t)[1] = t /\ Conn(t)[2] = attempt[t]
BY DEF Conn, Connections

LEMMA TurnsAreTwoKinds ==
  Streams \subseteq Turns /\ Blocks \subseteq Turns /\ \A t \in Turns : t \in Streams <=> t \notin Blocks
BY KindsDisjoint DEF Turns

\* What a result is sent as: at most one usage frame, the first, and no end.
LEMMA ReportFrames ==
  ASSUME NEW frames \in Reports
  PROVE  /\ frames \in Seq(Frame)
         /\ \A i, j \in DOMAIN frames : frames[i] \in Usage /\ frames[j] \in Usage => i = j
         /\ \A i \in DOMAIN frames : frames[i] # "done"
<1>1. \/ frames = <<>>
      \/ \E u \in Usage : frames = <<u>>
      \/ \E e \in Errors : frames = <<e>>
      \/ \E u \in Usage, e \in Errors : frames = <<u, e>>
  BY ReportsAreResults
<1>2. CASE frames = <<>>
  BY <1>2
<1>3. ASSUME NEW u \in Usage, frames = <<u>>
      PROVE  /\ frames \in Seq(Frame)
             /\ \A i, j \in DOMAIN frames : frames[i] \in Usage /\ frames[j] \in Usage => i = j
             /\ \A i \in DOMAIN frames : frames[i] # "done"
  BY <1>3 DEF Usage, Frame
<1>4. ASSUME NEW e \in Errors, frames = <<e>>
      PROVE  /\ frames \in Seq(Frame)
             /\ \A i, j \in DOMAIN frames : frames[i] \in Usage /\ frames[j] \in Usage => i = j
             /\ \A i \in DOMAIN frames : frames[i] # "done"
  BY <1>4 DEF Errors, Frame
<1>5. ASSUME NEW u \in Usage, NEW e \in Errors, frames = <<u, e>>
      PROVE  /\ frames \in Seq(Frame)
             /\ \A i, j \in DOMAIN frames : frames[i] \in Usage /\ frames[j] \in Usage => i = j
             /\ \A i \in DOMAIN frames : frames[i] # "done"
  <2>1. Len(frames) = 2 /\ frames[1] = u /\ frames[2] = e /\ DOMAIN frames = {1, 2}
    BY <1>5
  <2>2. e \notin Usage /\ e # "done" /\ u # "done" /\ u \in Frame /\ e \in Frame
    BY DEF Usage, Errors, Frame
  <2> QED
    BY <1>5, <2>1, <2>2
<1> QED
  BY <1>1, <1>2, <1>3, <1>4, <1>5

\* What a sent frame does to the wire of its connection, and of no other.
LEMMA SentFrames ==
  ASSUME wire \in [Connections -> Seq(Frame)], NEW c \in Connections,
         NEW frames \in Seq(Frame), Sent(c, frames)
  PROVE  /\ wire' \in [Connections -> Seq(Frame)]
         /\ \A d \in Connections \ {c} : wire'[d] = wire[d]
         /\ wire'[c] = IF c \in gone \cup cut THEN wire[c] ELSE wire[c] \o frames
<1> USE DEF Sent
<1>1. wire[c] \o frames \in Seq(Frame)
  OBVIOUS
<1> QED
  BY <1>1

-----------------------------------------------------------------------------
(* Types. *)

Heard == [text: BOOLEAN, usage: Usage \cup {"none"}, error: Errors \cup {"none"}]

LEMMA InitTypes ==
  Init => TypeOK
<1> SUFFICES ASSUME Init
             PROVE  TypeOK
  OBVIOUS
<1>1. ProxyTypeOK
  BY DEF Init, ProxyInit, ProxyTypeOK, Stages
<1>2. /\ pc \in [Turns -> Places] /\ attempt \in [Turns -> 1..MaxAttempts]
      /\ heard \in [Turns -> Heard] /\ napped \in [Turns -> BOOLEAN]
      /\ result \in [Turns -> Results] /\ shown \in [Turns -> SUBSET (1..MaxAttempts)]
  BY CountsPositive DEF Init, Places, Heard, Nothing, Results
<1>3. /\ waiting \in Seq(Turns) /\ holders \subseteq Connections /\ stash = None
      /\ retried \subseteq Connections /\ spent \subseteq Connections
      /\ recorded \in [Connections -> Nat] /\ faults \in 0..MaxFaults
  BY FaultsAreCounted DEF Init
<1> QED
  BY <1>1, <1>2, <1>3 DEF TypeOK, Heard

LEMMA NothingIsHeard ==
  Nothing \in Heard
BY DEF Nothing, Heard

LEMMA EndsTypes ==
  ASSUME TypeOK, NEW t \in Turns, NEW how \in Results, Ends(t, how)
  PROVE  /\ pc' \in [Turns -> Places] /\ result' \in [Turns -> Results]
         /\ heard' \in [Turns -> Heard]
BY NothingIsHeard DEF TypeOK, Ends, Goto, Places, Heard

LEMMA AsksTypes ==
  ASSUME TypeOK, NEW t \in Turns, Asks(t)
  PROVE  /\ pc' \in [Turns -> Places] /\ waiting' \in Seq(Turns)
         /\ heard' \in [Turns -> Heard]
BY NothingIsHeard DEF TypeOK, Asks, Goto, Places, Heard

LEMMA ReadsTypes ==
  ASSUME TypeOK, NEW t \in Turns, NEW frame, Reads(t, frame)
  PROVE  /\ ProxyTypeOK' /\ faults' = faults
         /\ wire[Conn(t)] \in Seq(Frame) /\ wire[Conn(t)] # <<>>
         /\ frame = Head(wire[Conn(t)]) /\ wire'[Conn(t)] = Tail(wire[Conn(t)])
         /\ \A d \in Connections \ {Conn(t)} : wire'[d] = wire[d]
<1>1. Conn(t) \in Connections
  BY ConnIsOwn DEF TypeOK
<1>2. wire[Conn(t)] \in Seq(Frame) /\ wire[Conn(t)] # <<>> /\ frame = Head(wire[Conn(t)])
  BY <1>1 DEF TypeOK, ProxyTypeOK, Reads, Coming
<1>3. Tail(wire[Conn(t)]) \in Seq(Frame)
  BY <1>2
<1>4. wire' = [wire EXCEPT ![Conn(t)] = Tail(wire[Conn(t)])] /\ wire \in [Connections -> Seq(Frame)]
  BY DEF Reads, TypeOK, ProxyTypeOK
<1>5. wire' \in [Connections -> Seq(Frame)] /\ wire'[Conn(t)] = Tail(wire[Conn(t)])
      /\ \A d \in Connections \ {Conn(t)} : wire'[d] = wire[d]
  BY <1>1, <1>3, <1>4
<1> QED
  BY <1>2, <1>5 DEF Reads, TypeOK, ProxyTypeOK

LEMMA ReleasesTypes ==
  ASSUME TypeOK, NEW c \in Connections, Releases(c)
  PROVE  /\ ProxyTypeOK' /\ holders' \subseteq Connections
         /\ wire'[c] = <<>> /\ \A d \in Connections \ {c} : wire'[d] = wire[d]
BY DEF TypeOK, ProxyTypeOK, Releases, HangsUp

LEMMA RecordTypes ==
  ASSUME TypeOK, NEW F, Record(F)
  PROVE  recorded' \in [Connections -> Nat]
BY DEF TypeOK, Record

LEMMA FaultTypes ==
  ASSUME TypeOK, Fault
  PROVE  faults' \in 0..MaxFaults
BY FaultsAreCounted DEF TypeOK, Fault

LEMMA ServerTypes ==
  ASSUME TypeOK, NEW c \in Connections, Server(c) \/ Cut(c)
  PROVE  ProxyTypeOK'
<1>1. ProxyTypeOK
  BY DEF TypeOK
<1>2. /\ <<"error", "done", "eof">> \in Seq(Frame) /\ <<"done", "eof">> \in Seq(Frame)
      /\ <<"text">> \in Seq(Frame)
  BY DEF Frame, Errors
<1>3. ASSUME NEW frames \in Seq(Frame), Sent(c, frames)
      PROVE  wire' \in [Connections -> Seq(Frame)]
  BY <1>1, <1>3, SentFrames DEF ProxyTypeOK
<1>4. ASSUME Closed(c)
      PROVE  /\ stage' \in [Connections -> Stages] /\ spoke' \subseteq Connections
             /\ reported' \subseteq Connections /\ errored' \subseteq Connections
  BY <1>1, <1>4 DEF Closed, ProxyTypeOK, Stages
<1>5. CASE Spawn(c)
  BY <1>1, <1>5 DEF Spawn, ProxyTypeOK, Stages
<1>6. CASE SpawnFails(c)
  BY <1>1, <1>2, <1>3, <1>4, <1>6 DEF SpawnFails, ProxyTypeOK
<1>7. CASE ChildSpeaks(c)
  BY <1>1, <1>2, <1>3, <1>7 DEF ChildSpeaks, ProxyTypeOK
<1>8. ASSUME NEW frames \in Reports, ChildReports(c, frames)
      PROVE  ProxyTypeOK'
  BY <1>1, <1>3, <1>8, ReportFrames DEF ChildReports, ProxyTypeOK
<1>9. ASSUME NEW failed \in BOOLEAN, ChildExits(c, failed)
      PROVE  ProxyTypeOK'
  <2>1. wire' \in [Connections -> Seq(Frame)]
    BY <1>2, <1>3, <1>9 DEF ChildExits
  <2> QED
    BY <1>1, <1>4, <1>9, <2>1 DEF ChildExits, ProxyTypeOK
<1>10. CASE Hangup(c)
  BY <1>1, <1>4, <1>10 DEF Hangup, ProxyTypeOK
<1>11. CASE Cut(c)
  <2>1. Append(wire[c], "eof") \in Seq(Frame)
    BY <1>1 DEF ProxyTypeOK, Frame
  <2> QED
    BY <1>1, <1>11, <2>1 DEF Cut, ProxyTypeOK
<1> QED
  BY <1>5, <1>6, <1>7, <1>8, <1>9, <1>10, <1>11 DEF Server

LEMMA StreamTypes ==
  ASSUME TypeOK, NEW t \in Turns, FreshInv(t),
         \/ StreamReadsError(t) \/ StreamTimesOut(t) \/ StreamRetries(t)
         \/ StreamAnswers(t) \/ StreamAgain(t) \/ Cancel(t)
  PROVE  TypeOK'
<1>1. Conn(t) \in Connections /\ Held(t) \subseteq Connections
  BY ConnIsOwn DEF TypeOK, Held
<1>2. CASE StreamReadsError(t)
  <2>1. PICK e \in Errors \cup {"eof"} : Reads(t, e)
    BY <1>2 DEF StreamReadsError
  <2> QED
    BY <1>2, <2>1, ReadsTypes, RecordTypes
       DEF StreamReadsError, StreamFails, Goto, Places, TypeOK
<1>3. CASE StreamTimesOut(t)
  BY <1>3, FaultTypes, RecordTypes
     DEF StreamTimesOut, StreamFails, Goto, Places, TypeOK, ProxyTypeOK, proxyVars
<1>4. CASE StreamRetries(t)
  BY <1>1, <1>4, ReadsTypes DEF StreamRetries, Goto, Places, TypeOK
<1>5. CASE StreamAnswers(t)
  <2>1. Reads(t, "done") /\ Ends(t, "answer") /\ "answer" \in Results /\ Record(Held(t))
    BY <1>5 DEF StreamAnswers, Results
  <2> QED
    BY <1>5, <2>1, ReadsTypes, EndsTypes, RecordTypes DEF StreamAnswers, TypeOK, Heard
<1>6. CASE StreamAgain(t)
  <2>1. attempt' \in [Turns -> 1..MaxAttempts]
    BY <1>6, CountsPositive DEF StreamAgain, TypeOK, FreshInv
  <2> QED
    BY <1>6, <2>1, AsksTypes DEF StreamAgain, TypeOK, ProxyTypeOK, proxyVars, Heard
<1>7. CASE Cancel(t)
  <2>1. Ends(t, "stopped") /\ "stopped" \in Results /\ Fault
    BY <1>7 DEF Cancel, Results
  <2>2. waiting' \in Seq(Turns)
    <3>1. ASSUME NEW i \in DOMAIN waiting
          PROVE  SubSeq(waiting, 1, i - 1) \o SubSeq(waiting, i + 1, Len(waiting)) \in Seq(Turns)
      BY DEF TypeOK
    <3> QED
      BY <1>7, <3>1 DEF Cancel, LeavesQueue, TypeOK
  <2>3. holders' \subseteq Connections /\ ProxyTypeOK'
    BY <1>1, <1>7, ReleasesTypes DEF Cancel, TypeOK, ProxyTypeOK, proxyVars
  <2> QED
    BY <1>7, <2>1, <2>2, <2>3, EndsTypes, FaultTypes DEF Cancel, TypeOK, Heard
<1> QED
  BY <1>2, <1>3, <1>4, <1>5, <1>6, <1>7

LEMMA BlockTypes ==
  ASSUME TypeOK, NEW t \in Turns,
         \/ BlockReadsError(t) \/ BlockNaps(t) \/ BlockRaises(t) \/ BlockTimesOut(t)
         \/ BlockReturns(t) \/ BlockAgain(t)
  PROVE  TypeOK'
<1>1. Conn(t) \in Connections /\ Stashed \subseteq Connections
  BY ConnIsOwn DEF TypeOK, Stashed
<1>2. attempt[t] < MaxAttempts => [attempt EXCEPT ![t] = @ + 1] \in [Turns -> 1..MaxAttempts]
  BY CountsPositive DEF TypeOK
<1>3. BlockEnds(t) => ProxyTypeOK' /\ holders' \subseteq Connections
  BY <1>1, ReleasesTypes DEF BlockEnds
<1>4. "error" \in Results
  BY DEF Results
<1>5. CASE BlockReadsError(t)
  <2>1. PICK e \in Errors : Reads(t, e) /\ heard' = [heard EXCEPT ![t].error = e]
    BY <1>5 DEF BlockReadsError
  <2>2. heard \in [Turns -> Heard]
    BY DEF TypeOK, Heard
  <2>3. heard' \in [Turns -> Heard]
    BY <2>1, <2>2 DEF Heard
  <2> QED
    BY <1>5, <2>1, <2>3, ReadsTypes DEF BlockReadsError, TypeOK, Heard
<1>6. CASE BlockNaps(t)
  BY <1>3, <1>6 DEF BlockNaps, Goto, Places, TypeOK
<1>7. CASE BlockRaises(t)
  BY <1>3, <1>4, <1>7, EndsTypes DEF BlockRaises, TypeOK, Heard
<1>8. CASE BlockTimesOut(t)
  BY <1>1, <1>4, <1>8, EndsTypes, ReleasesTypes, FaultTypes DEF BlockTimesOut, TypeOK, Heard
<1>9. CASE BlockReturns(t)
  <2>1. shown' \in [Turns -> SUBSET (1..MaxAttempts)]
    BY <1>9 DEF BlockReturns, TypeOK
  <2> QED
    BY <1>3, <1>9, <2>1 DEF BlockReturns, Goto, Places, TypeOK
<1>10. CASE BlockAgain(t)
  <2>1. attempt[t] < MaxAttempts
    BY <1>10 DEF BlockAgain, Empty
  <2> QED
    BY <1>1, <1>2, <1>3, <1>10, <2>1, AsksTypes DEF BlockAgain, TypeOK, Heard
<1> QED
  BY <1>5, <1>6, <1>7, <1>8, <1>9, <1>10

LEMMA TurnTypes ==
  ASSUME TypeOK, NEW t \in Turns,
         \/ Begin(t) \/ Refused(t) \/ TakeSlot(t) \/ ReadText(t)
         \/ (\E u \in Usage : ReadUsage(t, u))
         \/ NapAgain(t) \/ NapExhausted(t) \/ Store(t) \/ Drain(t)
  PROVE  TypeOK'
<1>1. Conn(t) \in Connections /\ Stashed \subseteq Connections
  BY ConnIsOwn DEF TypeOK, Stashed
<1>2. {"error", "answer", "refused", "crash", result[t]} \subseteq Results
  BY DEF Results, TypeOK
<1>3. UNCHANGED proxyVars => ProxyTypeOK'
  BY DEF TypeOK, ProxyTypeOK, proxyVars
<1>4. heard \in [Turns -> Heard]
  BY DEF TypeOK, Heard
<1>5. CASE Begin(t)
  BY <1>3, <1>5, AsksTypes DEF Begin, TypeOK, Heard
<1>6. CASE Refused(t)
  BY <1>2, <1>3, <1>6, EndsTypes DEF Refused, TypeOK, Heard
<1>7. CASE TakeSlot(t)
  <2>1. waiting' \in Seq(Turns)
    BY <1>7 DEF TakeSlot, TypeOK
  <2> QED
    BY <1>1, <1>7, <2>1 DEF TakeSlot, Goto, Places, Stages, TypeOK, ProxyTypeOK
<1>8. CASE ReadText(t)
  <2>1. heard' \in [Turns -> Heard]
    BY <1>4, <1>8 DEF ReadText, Heard
  <2>2. shown' \in [Turns -> SUBSET (1..MaxAttempts)]
    BY <1>8 DEF ReadText, TypeOK
  <2> QED
    BY <1>8, <2>1, <2>2, ReadsTypes DEF ReadText, TypeOK, Heard
<1>9. ASSUME NEW u \in Usage, ReadUsage(t, u)
      PROVE  TypeOK'
  <2>1. heard' \in [Turns -> Heard] /\ stash' \in {None} \cup [frame: Connections, size: Usage]
    <3>1. [heard EXCEPT ![t].usage = u] \in [Turns -> Heard]
      BY <1>4 DEF Heard
    <3>2. [frame |-> Conn(t), size |-> u] \in [frame: Connections, size: Usage]
      BY <1>1
    <3> QED
      BY <1>4, <1>9, <3>1, <3>2 DEF ReadUsage, TypeOK
  <2> QED
    BY <1>1, <1>9, <2>1, ReadsTypes DEF ReadUsage, TypeOK, Heard
<1>10. CASE NapAgain(t)
  <2>1. attempt' \in [Turns -> 1..MaxAttempts]
    BY <1>10, CountsPositive DEF NapAgain, TypeOK
  <2> QED
    BY <1>3, <1>10, <2>1, AsksTypes DEF NapAgain, TypeOK, Heard
<1>11. CASE NapExhausted(t)
  <2>1. CASE Goto(t, "store") /\ UNCHANGED <<result, heard>>
    BY <1>3, <1>11, <2>1 DEF NapExhausted, Goto, Places, TypeOK
  <2>2. CASE Ends(t, "crash")
    BY <1>2, <1>3, <1>11, <2>2, EndsTypes DEF NapExhausted, TypeOK, Heard
  <2> QED
    BY <1>11, <2>1, <2>2 DEF NapExhausted
<1>12. CASE Store(t)
  BY <1>2, <1>3, <1>12, RecordTypes DEF Store, Goto, Places, TypeOK
<1>13. CASE Drain(t)
  <2>1. \E how \in Results : Ends(t, how)
    BY <1>2, <1>13 DEF Drain
  <2> QED
    BY <1>3, <1>13, <2>1, EndsTypes, RecordTypes DEF Drain, TypeOK, Heard
<1> QED
  BY <1>5, <1>6, <1>7, <1>8, <1>9, <1>10, <1>11, <1>12, <1>13

\* Every step keeps the types.
LEMMA TypeStep ==
  ASSUME TypeOK, \A t \in Turns : FreshInv(t), [Next]_vars
  PROVE  TypeOK'
<1>1. CASE UNCHANGED vars
  BY <1>1 DEF vars, clientVars, proxyVars, TypeOK, ProxyTypeOK
<1>2. ASSUME NEW t \in Turns, Step(t)
      PROVE  TypeOK'
  BY <1>2, TurnTypes, StreamTypes, BlockTypes DEF Step
<1>3. ASSUME NEW c \in Connections, Finalise(c)
      PROVE  TypeOK'
  BY <1>3, ReleasesTypes DEF Finalise, TypeOK
<1>4. ASSUME NEW c \in Connections, Serves(c)
      PROVE  TypeOK'
  BY <1>4, ServerTypes DEF Serves, clientVars, TypeOK
<1>5. ASSUME NEW c \in Connections, Loses(c)
      PROVE  TypeOK'
  BY <1>5, ServerTypes, FaultTypes DEF Loses, clientVars, TypeOK
<1> QED
  BY <1>1, <1>2, <1>3, <1>4, <1>5 DEF Next

-----------------------------------------------------------------------------
(* The wire of a connection. *)

LEMMA WireKept ==
  ASSUME NEW c \in Connections, WireInv(c), wire'[c] = wire[c], stage'[c] = stage[c],
         (c \in reported') <=> (c \in reported), (c \in cut') <=> (c \in cut),
         (c \in spent') <=> (c \in spent)
  PROVE  WireInv(c)'
<1>1. UsageIn(c)' = UsageIn(c)
  BY DEF UsageIn
<1> QED
  BY <1>1 DEF WireInv

LEMMA WireDropped ==
  ASSUME NEW c \in Connections, WireInv(c), wire'[c] = <<>>, stage'[c] = stage[c],
         (c \in reported') <=> (c \in reported), (c \in cut') <=> (c \in cut),
         (c \in spent') <=> (c \in spent)
  PROVE  WireInv(c)'
<1>1. UsageIn(c)' = {} /\ DOMAIN wire'[c] = {}
  BY DEF UsageIn
<1> QED
  BY <1>1 DEF WireInv

\* What is on the wire after a frame was sent was on it, or was sent.
LEMMA SentParts ==
  ASSUME wire \in [Connections -> Seq(Frame)], NEW c \in Connections,
         NEW frames \in Seq(Frame), Sent(c, frames), NEW i \in DOMAIN wire'[c]
  PROVE  \/ i \in DOMAIN wire[c] /\ wire'[c][i] = wire[c][i]
         \/ /\ c \notin gone \cup cut
            /\ i - Len(wire[c]) \in DOMAIN frames /\ i > Len(wire[c])
            /\ wire'[c][i] = frames[i - Len(wire[c])]
<1>1. wire[c] \in Seq(Frame)
  OBVIOUS
<1>2. wire'[c] = IF c \in gone \cup cut THEN wire[c] ELSE wire[c] \o frames
  BY SentFrames
<1>3. CASE c \in gone \cup cut
  BY <1>2, <1>3
<1>4. CASE c \notin gone \cup cut
  BY <1>1, <1>2, <1>4
<1> QED
  BY <1>3, <1>4

\* Frames without usage are sent while the child has not reported.
LEMMA WireGrows ==
  ASSUME wire \in [Connections -> Seq(Frame)], NEW c \in Connections, WireInv(c),
         NEW frames \in Seq(Frame), Sent(c, frames), spent' = spent, cut' = cut,
         \A i \in DOMAIN frames : frames[i] \notin Usage,
         (\E i \in DOMAIN frames : frames[i] = "done") => stage'[c] = "closed",
         stage[c] = "closed" => stage'[c] = "closed",
         stage[c] # "none", stage'[c] # "none",
         c \in reported' => stage'[c] = "running",
         c \in reported => c \in reported' \/ stage'[c] = "closed"
  PROVE  WireInv(c)'
<1>1. UsageIn(c)' \subseteq UsageIn(c)
  <2> SUFFICES ASSUME NEW i \in DOMAIN wire'[c], wire'[c][i] \in Usage
               PROVE  i \in UsageIn(c)
    BY DEF UsageIn
  <2> QED
    BY SentParts DEF UsageIn
<1>2. ASSUME NEW i \in DOMAIN wire'[c], wire'[c][i] = "done"
      PROVE  stage'[c] = "closed" /\ c \notin cut
  BY <1>2, SentParts DEF WireInv
<1> QED
  BY <1>1, <1>2 DEF WireInv

LEMMA WireServed ==
  ASSUME TypeOK, NEW c \in Connections, WireInv(c), Server(c) \/ Cut(c), spent' = spent
  PROVE  WireInv(c)'
<1>1. /\ wire \in [Connections -> Seq(Frame)] /\ stage \in [Connections -> Stages]
      /\ wire[c] \in Seq(Frame)
  BY DEF TypeOK, ProxyTypeOK
<1>2. CASE Spawn(c)
  <2>1. stage'[c] = "running" /\ wire'[c] = wire[c] /\ stage[c] = "queued"
    BY <1>1, <1>2 DEF Spawn
  <2>2. UsageIn(c)' = UsageIn(c) /\ UsageIn(c) = {} /\ c \notin spent
    BY <2>1 DEF UsageIn, WireInv
  <2> QED
    BY <1>2, <2>1, <2>2 DEF Spawn, WireInv
<1>3. CASE SpawnFails(c)
  <2> DEFINE frames == <<"error", "done", "eof">>
  <2>1. frames \in Seq(Frame) /\ \A i \in DOMAIN frames : frames[i] \notin Usage
    BY DEF Frame, Errors, Usage
  <2>2. Sent(c, frames) /\ stage'[c] = "closed" /\ stage[c] = "queued" /\ c \notin reported'
        /\ cut' = cut
    BY <1>1, <1>3 DEF SpawnFails, Closed
  <2> HIDE DEF frames
  <2> QED
    BY <1>1, <2>1, <2>2, WireGrows
<1>4. CASE ChildSpeaks(c)
  <2> DEFINE frames == <<"text">>
  <2>1. frames \in Seq(Frame) /\ \A i \in DOMAIN frames : frames[i] \notin Usage \cup {"done"}
    BY DEF Frame, Usage
  <2>2. Sent(c, frames) /\ stage' = stage /\ stage[c] = "running" /\ reported' = reported
        /\ cut' = cut
    BY <1>4 DEF ChildSpeaks
  <2> HIDE DEF frames
  <2> QED
    BY <1>1, <2>1, <2>2, WireGrows
<1>5. ASSUME NEW failed \in BOOLEAN, ChildExits(c, failed)
      PROVE  WireInv(c)'
  <2> DEFINE frames == IF failed /\ c \notin errored THEN <<"error", "done", "eof">>
                                                     ELSE <<"done", "eof">>
  <2>1. frames \in Seq(Frame) /\ \A i \in DOMAIN frames : frames[i] \notin Usage
    <3>1. /\ <<"error", "done", "eof">> \in Seq(Frame)
          /\ \A i \in DOMAIN <<"error", "done", "eof">> : <<"error", "done", "eof">>[i] \notin Usage
      BY DEF Frame, Errors, Usage
    <3>2. /\ <<"done", "eof">> \in Seq(Frame)
          /\ \A i \in DOMAIN <<"done", "eof">> : <<"done", "eof">>[i] \notin Usage
      BY DEF Frame, Errors, Usage
    <3> QED
      BY <3>1, <3>2
  <2>2. Sent(c, frames) /\ stage'[c] = "closed" /\ stage[c] = "running" /\ c \notin reported'
        /\ cut' = cut
    BY <1>1, <1>5 DEF ChildExits, Closed
  <2> HIDE DEF frames
  <2> QED
    BY <1>1, <2>1, <2>2, WireGrows
<1>6. CASE Hangup(c)
  <2>1. stage'[c] = "closed" /\ wire'[c] = wire[c] /\ c \notin reported' /\ cut' = cut
        /\ stage[c] \in {"queued", "running"}
    BY <1>1, <1>6 DEF Hangup, Closed
  <2>2. UsageIn(c)' = UsageIn(c)
    BY <2>1 DEF UsageIn
  <2> QED
    BY <2>1, <2>2 DEF WireInv
<1>7. CASE Cut(c)
  <2>1. wire'[c] = Append(wire[c], "eof") /\ stage' = stage /\ stage[c] \in {"queued", "running"}
        /\ reported' = reported
    BY <1>1, <1>7 DEF Cut
  <2>2. \A i \in DOMAIN wire'[c] : \/ i \in DOMAIN wire[c] /\ wire'[c][i] = wire[c][i]
                                   \/ wire'[c][i] = "eof"
    BY <1>1, <2>1
  <2>3. UsageIn(c)' \subseteq UsageIn(c)
    BY <2>2 DEF UsageIn, Usage
  <2>4. \A i \in DOMAIN wire'[c] : wire'[c][i] # "done"
    BY <2>1, <2>2 DEF WireInv
  <2> QED
    BY <2>1, <2>3, <2>4 DEF WireInv
<1>8. ASSUME NEW frames \in Reports, ChildReports(c, frames)
      PROVE  WireInv(c)'
  <2>1. frames \in Seq(Frame) /\ Sent(c, frames) /\ stage' = stage /\ stage[c] = "running"
        /\ c \notin reported /\ c \in reported' /\ cut' = cut
    BY <1>8, ReportFrames DEF ChildReports
  <2>2. UsageIn(c) = {} /\ c \notin spent
    BY <2>1 DEF WireInv
  <2>3. ASSUME NEW i \in UsageIn(c)', NEW j \in UsageIn(c)'
        PROVE  i = j
    <3>1. /\ i \in DOMAIN wire'[c] /\ wire'[c][i] \in Usage
          /\ j \in DOMAIN wire'[c] /\ wire'[c][j] \in Usage
      BY DEF UsageIn
    <3>2. /\ i - Len(wire[c]) \in DOMAIN frames /\ frames[i - Len(wire[c])] \in Usage
          /\ j - Len(wire[c]) \in DOMAIN frames /\ frames[j - Len(wire[c])] \in Usage
      BY <1>1, <2>1, <2>2, <3>1, SentParts DEF UsageIn
    <3>3. i - Len(wire[c]) = j - Len(wire[c])
      BY <3>2, ReportFrames
    <3>4. wire'[c] \in Seq(Frame)
      BY <1>1, <2>1, SentFrames
    <3>5. i \in Int /\ j \in Int /\ Len(wire[c]) \in Int
      BY <1>1, <3>1, <3>4
    <3> QED
      BY <3>3, <3>5
  <2>4. \A i \in DOMAIN wire'[c] : wire'[c][i] # "done"
    <3> SUFFICES ASSUME NEW i \in DOMAIN wire'[c], wire'[c][i] = "done"
                 PROVE  FALSE
      OBVIOUS
    <3>1. \A k \in DOMAIN frames : frames[k] # "done"
      BY ReportFrames
    <3>2. i \in DOMAIN wire[c] /\ wire[c][i] = "done"
      BY <1>1, <2>1, <3>1, SentParts
    <3> QED
      BY <2>1, <3>2 DEF WireInv
  <2> QED
    BY <2>1, <2>2, <2>3, <2>4 DEF WireInv
<1> QED
  BY <1>2, <1>3, <1>4, <1>5, <1>6, <1>7, <1>8 DEF Server

\* What a turn does to the wires: it reads the next frame of its own, or drops
\* what is left of one; it opens a connection nobody has used.
Opens(c) ==
    /\ wire' = wire /\ stage[c] = "none" /\ stage' = [stage EXCEPT ![c] = "queued"]
    /\ UNCHANGED <<spent, reported, cut>>

Takes(c) ==
    /\ wire[c] # <<>> /\ wire' = [wire EXCEPT ![c] = Tail(@)]
    /\ spent' = IF Head(wire[c]) \in Usage THEN spent \cup {c} ELSE spent
    /\ UNCHANGED <<stage, reported, cut>>

DropsWire(c) ==
    /\ wire' = [wire EXCEPT ![c] = <<>>]
    /\ UNCHANGED <<stage, spent, reported, cut>>

LEMMA WireOpens ==
  ASSUME TypeOK, NEW d \in Connections, NEW c \in Connections, WireInv(c), Opens(d)
  PROVE  WireInv(c)'
<1>1. stage \in [Connections -> Stages]
  BY DEF TypeOK, ProxyTypeOK
<1>2. CASE c = d
  <2>1. stage'[c] = "queued" /\ wire'[c] = wire[c] /\ stage[c] = "none"
    BY <1>1, <1>2 DEF Opens
  <2>2. wire[c] = <<>> /\ c \notin spent \cup cut /\ c \notin reported
    BY <2>1 DEF WireInv
  <2>3. UsageIn(c)' = {} /\ DOMAIN wire'[c] = {}
    BY <2>1, <2>2 DEF UsageIn
  <2> QED
    BY <2>1, <2>2, <2>3 DEF WireInv, Opens
<1>3. CASE c # d
  BY <1>1, <1>3, WireKept DEF Opens
<1> QED
  BY <1>2, <1>3

LEMMA WireTaken ==
  ASSUME TypeOK, NEW d \in Connections, NEW c \in Connections, WireInv(c), Takes(d)
  PROVE  WireInv(c)'
<1>1. wire \in [Connections -> Seq(Frame)] /\ wire[c] \in Seq(Frame)
  BY DEF TypeOK, ProxyTypeOK
<1>2. CASE c = d
  <2>1. wire'[c] = Tail(wire[c]) /\ wire[c] # <<>> /\ Head(wire[c]) = wire[c][1]
        /\ 1 \in DOMAIN wire[c]
    BY <1>1, <1>2 DEF Takes
  <2>2. \A i \in DOMAIN wire'[c] : /\ i + 1 \in DOMAIN wire[c] /\ wire'[c][i] = wire[c][i + 1]
                                   /\ i \in Nat \ {0}
    BY <1>1, <2>1
  <2>3. \A i \in UsageIn(c)' : i + 1 \in UsageIn(c) /\ i \in Nat \ {0}
    BY <2>2 DEF UsageIn
  <2>4. \A i, j \in UsageIn(c)' : i = j
    <3> SUFFICES ASSUME NEW i \in UsageIn(c)', NEW j \in UsageIn(c)'
                 PROVE  i = j
      OBVIOUS
    <3>1. i + 1 = j + 1 /\ i \in Nat /\ j \in Nat
      BY <2>3 DEF WireInv
    <3> QED
      BY <3>1
  <2>5. \A i \in DOMAIN wire'[c] : wire'[c][i] = "done" => stage[c] = "closed" /\ c \notin cut
    BY <2>2 DEF WireInv
  <2>6. CASE Head(wire[c]) \in Usage
    <3>1. 1 \in UsageIn(c)
      BY <2>1, <2>6 DEF UsageIn
    <3>2. UsageIn(c)' = {}
      <4> SUFFICES ASSUME NEW i \in UsageIn(c)'
                   PROVE  FALSE
        OBVIOUS
      <4>1. i + 1 = 1 /\ i \in Nat \ {0}
        BY <2>3, <3>1 DEF WireInv
      <4> QED
        BY <4>1
    <3> QED
      BY <1>2, <2>1, <2>5, <3>1, <3>2 DEF WireInv, Takes
  <2>7. CASE Head(wire[c]) \notin Usage
    BY <1>2, <2>1, <2>3, <2>4, <2>5, <2>7 DEF WireInv, Takes
  <2> QED
    BY <2>6, <2>7
<1>3. CASE c # d
  BY <1>1, <1>3, WireKept DEF Takes
<1> QED
  BY <1>2, <1>3

LEMMA WireIsDropped ==
  ASSUME TypeOK, NEW d \in Connections, NEW c \in Connections, WireInv(c), DropsWire(d)
  PROVE  WireInv(c)'
<1>1. wire \in [Connections -> Seq(Frame)]
  BY DEF TypeOK, ProxyTypeOK
<1> QED
  BY <1>1, WireKept, WireDropped DEF DropsWire

\* How each step of a turn is one of these.
LEMMA TurnWires ==
  ASSUME TypeOK, NEW t \in Turns, FreshInv(t), Step(t)
  PROVE  \/ UNCHANGED <<wire, stage, spent, reported, cut>>
         \/ pc[t] = "gate" /\ Opens(Conn(t))
         \/ pc[t] = "read" /\ Takes(Conn(t))
         \/ DropsWire(Conn(t))
<1>1. Conn(t) \in Connections /\ Conn(t) = <<t, attempt[t]>> /\ attempt[t] \in 1..MaxAttempts
  BY ConnIsOwn DEF TypeOK
<1>2. ASSUME NEW frame, Reads(t, frame), frame \notin Usage, spent' = spent
      PROVE  pc[t] = "read" /\ Takes(Conn(t))
  BY <1>2 DEF Reads, Coming, Takes
<1>3. BlockEnds(t) /\ spent' = spent => DropsWire(Conn(t))
  BY DEF BlockEnds, Releases, HangsUp, DropsWire
<1>4. /\ "text" \notin Usage /\ "done" \notin Usage /\ "eof" \notin Usage
      /\ \A e \in Errors : e \notin Usage
  BY DEF Usage, Errors
<1>5. CASE \/ Begin(t) \/ Refused(t) \/ StreamTimesOut(t) \/ StreamAgain(t)
           \/ NapAgain(t) \/ NapExhausted(t) \/ Store(t) \/ Drain(t)
  BY <1>5 DEF Begin, Refused, StreamTimesOut, StreamFails, StreamAgain, NapAgain, NapExhausted,
              Store, Drain, proxyVars
<1>6. CASE TakeSlot(t)
  <2>1. stage[Conn(t)] = "none"
    BY <1>1, <1>6 DEF TakeSlot, FreshInv
  <2> QED
    BY <1>6, <2>1 DEF TakeSlot, Opens
<1>7. CASE ReadText(t) \/ StreamReadsError(t) \/ StreamRetries(t) \/ StreamAnswers(t)
           \/ BlockReadsError(t)
  BY <1>2, <1>4, <1>7 DEF ReadText, StreamReadsError, StreamFails, StreamRetries, StreamAnswers,
                          BlockReadsError
<1>8. ASSUME NEW u \in Usage, ReadUsage(t, u)
      PROVE  pc[t] = "read" /\ Takes(Conn(t))
  BY <1>8 DEF ReadUsage, Reads, Coming, Takes
<1>9. CASE BlockNaps(t) \/ BlockRaises(t) \/ BlockReturns(t) \/ BlockAgain(t)
  BY <1>3, <1>9 DEF BlockNaps, BlockRaises, BlockReturns, BlockAgain
<1>10. CASE BlockTimesOut(t)
  BY <1>10 DEF BlockTimesOut, Releases, HangsUp, DropsWire
<1>11. CASE Cancel(t)
  BY <1>11 DEF Cancel, Releases, HangsUp, DropsWire, proxyVars
<1> QED
  BY <1>5, <1>6, <1>7, <1>8, <1>9, <1>10, <1>11 DEF Step

\* The proxy serves one connection at a time.
LEMMA ServesApart ==
  ASSUME TypeOK, NEW d \in Connections, Server(d) \/ Cut(d), NEW c \in Connections, c # d
  PROVE  /\ wire'[c] = wire[c] /\ stage'[c] = stage[c]
         /\ (c \in reported') <=> (c \in reported)
         /\ (c \in cut') <=> (c \in cut)
<1>1. wire \in [Connections -> Seq(Frame)] /\ stage \in [Connections -> Stages]
  BY DEF TypeOK, ProxyTypeOK
<1>2. \A frames : Sent(d, frames) => wire'[c] = wire[c]
  BY <1>1 DEF Sent
<1>3. CASE Spawn(d) \/ SpawnFails(d) \/ ChildSpeaks(d) \/ Hangup(d) \/ Cut(d)
  BY <1>1, <1>2, <1>3 DEF Spawn, SpawnFails, ChildSpeaks, Hangup, Cut, Closed
<1>4. ASSUME NEW frames \in Reports, ChildReports(d, frames)
      PROVE  /\ wire'[c] = wire[c] /\ stage'[c] = stage[c]
             /\ (c \in reported') <=> (c \in reported)
             /\ (c \in cut') <=> (c \in cut)
  BY <1>1, <1>2, <1>4 DEF ChildReports
<1>5. ASSUME NEW failed \in BOOLEAN, ChildExits(d, failed)
      PROVE  /\ wire'[c] = wire[c] /\ stage'[c] = stage[c]
             /\ (c \in reported') <=> (c \in reported)
             /\ (c \in cut') <=> (c \in cut)
  BY <1>1, <1>2, <1>5 DEF ChildExits, Closed
<1> QED
  BY <1>3, <1>4, <1>5 DEF Server

LEMMA WireInvStep ==
  ASSUME TypeOK, \A t \in Turns : FreshInv(t), NEW c \in Connections, WireInv(c), [Next]_vars
  PROVE  WireInv(c)'
<1>1. CASE UNCHANGED vars
  BY <1>1, WireKept DEF vars, clientVars, proxyVars
<1>2. ASSUME NEW t \in Turns, Step(t)
      PROVE  WireInv(c)'
  BY <1>2, TurnWires, WireKept, WireOpens, WireTaken, WireIsDropped, ConnIsOwn DEF TypeOK
<1>3. ASSUME NEW d \in Connections, Finalise(d)
      PROVE  WireInv(c)'
  BY <1>3, WireIsDropped DEF Finalise, Releases, HangsUp, DropsWire
<1>4. ASSUME NEW d \in Connections, Server(d) \/ Cut(d), spent' = spent
      PROVE  WireInv(c)'
  <2>1. CASE c = d
    BY <1>4, <2>1, WireServed
  <2>2. CASE c # d
    BY <1>4, <2>2, ServesApart, WireKept
  <2> QED
    BY <2>1, <2>2
<1> QED
  BY <1>1, <1>2, <1>3, <1>4 DEF Next, Serves, Loses, clientVars

-----------------------------------------------------------------------------
(* Where a turn goes. *)

\* A step of one turn leaves the others where they are.
LEMMA TurnsApart ==
  ASSUME TypeOK, NEW t \in Turns, Step(t), NEW u \in Turns, u # t
  PROVE  /\ pc'[u] = pc[u] /\ attempt'[u] = attempt[u] /\ heard'[u] = heard[u]
         /\ result'[u] = result[u] /\ shown'[u] = shown[u]
<1>1. /\ pc \in [Turns -> Places] /\ attempt \in [Turns -> 1..MaxAttempts]
      /\ heard \in [Turns -> Heard] /\ result \in [Turns -> Results]
      /\ shown \in [Turns -> SUBSET (1..MaxAttempts)]
  BY DEF TypeOK, Heard
<1>2. \A place : Goto(t, place) => pc'[u] = pc[u]
  BY <1>1 DEF Goto
<1>3. \A how : Ends(t, how) => pc'[u] = pc[u] /\ heard'[u] = heard[u] /\ result'[u] = result[u]
  BY <1>1, <1>2 DEF Ends
<1>4. Asks(t) => pc'[u] = pc[u] /\ heard'[u] = heard[u]
  BY <1>1, <1>2 DEF Asks
<1>5. CASE Begin(t) \/ Refused(t) \/ TakeSlot(t) \/ ReadText(t) \/ (\E k \in Usage : ReadUsage(t, k))
  BY <1>1, <1>2, <1>3, <1>4, <1>5 DEF Begin, Refused, TakeSlot, ReadText, ReadUsage
<1>6. CASE \/ StreamReadsError(t) \/ StreamTimesOut(t) \/ StreamRetries(t)
           \/ StreamAnswers(t) \/ StreamAgain(t) \/ Cancel(t)
  BY <1>1, <1>2, <1>3, <1>4, <1>6
     DEF StreamReadsError, StreamTimesOut, StreamFails, StreamRetries, StreamAnswers, StreamAgain,
         Cancel
<1>7. CASE \/ BlockReadsError(t) \/ BlockNaps(t) \/ BlockRaises(t)
           \/ BlockTimesOut(t) \/ BlockReturns(t) \/ BlockAgain(t)
  BY <1>1, <1>2, <1>3, <1>4, <1>7
     DEF BlockReadsError, BlockNaps, BlockRaises, BlockTimesOut, BlockReturns, BlockAgain
<1>8. CASE NapAgain(t) \/ NapExhausted(t) \/ Store(t) \/ Drain(t)
  BY <1>1, <1>2, <1>3, <1>4, <1>8 DEF NapAgain, NapExhausted, Store, Drain
<1> QED
  BY <1>5, <1>6, <1>7, <1>8 DEF Step

\* Where a step takes a turn: on in its attempt, or to the next one.
LEMMA TurnMoves ==
  ASSUME TypeOK, NEW t \in Turns, Step(t)
  PROVE  \/ attempt'[t] = attempt[t] /\ (pc'[t] \notin {"new", "gate", "notice"} \/ pc'[t] = pc[t])
         \/ attempt'[t] = attempt[t] /\ pc[t] = "new" /\ pc'[t] = "gate"
         \/ attempt'[t] = attempt[t] /\ pc'[t] = "notice" /\ attempt[t] < MaxAttempts
         \/ attempt'[t] = attempt[t] + 1 /\ pc'[t] = "gate"
<1>1. pc \in [Turns -> Places] /\ attempt \in [Turns -> 1..MaxAttempts]
  BY DEF TypeOK
<1>2. \A place : Goto(t, place) => pc'[t] = place
  BY <1>1 DEF Goto
<1>3. \A how : Ends(t, how) => pc'[t] = "over"
  BY <1>2 DEF Ends
<1>4. Asks(t) => pc'[t] = "gate"
  BY <1>2 DEF Asks
<1>5. CASE Begin(t) \/ Refused(t) \/ TakeSlot(t) \/ ReadText(t) \/ (\E k \in Usage : ReadUsage(t, k))
  BY <1>1, <1>2, <1>3, <1>4, <1>5 DEF Begin, Refused, TakeSlot, ReadText, ReadUsage
<1>6. CASE \/ StreamReadsError(t) \/ StreamTimesOut(t) \/ StreamRetries(t)
           \/ StreamAnswers(t) \/ StreamAgain(t) \/ Cancel(t)
  BY <1>1, <1>2, <1>3, <1>4, <1>6
     DEF StreamReadsError, StreamTimesOut, StreamFails, StreamRetries, StreamAnswers, StreamAgain,
         Cancel, Retries
<1>7. CASE \/ BlockReadsError(t) \/ BlockNaps(t) \/ BlockRaises(t)
           \/ BlockTimesOut(t) \/ BlockReturns(t) \/ BlockAgain(t)
  BY <1>1, <1>2, <1>3, <1>4, <1>7
     DEF BlockReadsError, BlockNaps, BlockRaises, BlockTimesOut, BlockReturns, BlockAgain
<1>8. CASE NapAgain(t) \/ NapExhausted(t) \/ Store(t) \/ Drain(t)
  BY <1>1, <1>2, <1>3, <1>4, <1>8 DEF NapAgain, NapExhausted, Store, Drain
<1> QED
  BY <1>5, <1>6, <1>7, <1>8 DEF Step

\* A step of a turn opens the connection of its attempt, if it opens one.
LEMMA StageMoves ==
  ASSUME TypeOK, NEW t \in Turns, FreshInv(t), Step(t), NEW c \in Connections
  PROVE  \/ stage'[c] = stage[c]
         \/ c = Conn(t) /\ pc[t] = "gate" /\ pc'[t] = "read" /\ attempt'[t] = attempt[t]
<1>1. stage \in [Connections -> Stages] /\ pc \in [Turns -> Places]
  BY DEF TypeOK, ProxyTypeOK
<1>2. CASE TakeSlot(t)
  BY <1>1, <1>2 DEF TakeSlot, Goto
<1>3. CASE ~ TakeSlot(t)
  <2>1. UNCHANGED stage
    BY <1>3 DEF Step, Begin, Refused, ReadText, ReadUsage, Reads, StreamReadsError, StreamTimesOut,
         StreamFails, StreamRetries, StreamAnswers, StreamAgain, Cancel, Releases, BlockReadsError,
         BlockNaps, BlockRaises, BlockTimesOut, BlockReturns, BlockAgain, BlockEnds, NapAgain,
         NapExhausted, Store, Drain, proxyVars
  <2> QED
    BY <2>1
<1> QED
  BY <1>2, <1>3

\* The proxy neither starts a connection nor goes back to one it has closed.
LEMMA ServesStages ==
  ASSUME TypeOK, NEW d \in Connections, Server(d) \/ Cut(d), NEW c \in Connections
  PROVE  /\ stage[c] = "none" => stage'[c] = "none"
         /\ stage[c] = "closed" => stage'[c] = "closed" /\ ((c \in cut') <=> (c \in cut))
<1>1. CASE c # d
  BY <1>1, ServesApart
<1>2. CASE c = d
  BY <1>2 DEF Server, Spawn, SpawnFails, ChildSpeaks, ChildReports, ChildExits, Hangup, Cut
<1> QED
  BY <1>1, <1>2

LEMMA FreshInvStep ==
  ASSUME TypeOK, \A t \in Turns : FreshInv(t), [Next]_vars, NEW u \in Turns
  PROVE  FreshInv(u)'
<1>1. attempt \in [Turns -> 1..MaxAttempts] /\ FreshInv(u)
  BY DEF TypeOK
<1>2. \A a \in 1..MaxAttempts : <<u, a>> \in Connections
  BY DEF Connections
<1>3. ASSUME pc'[u] = pc[u], attempt'[u] = attempt[u],
             \A c \in Connections : stage[c] = "none" => stage'[c] = "none"
      PROVE  FreshInv(u)'
  BY <1>1, <1>2, <1>3 DEF FreshInv
<1>4. CASE UNCHANGED vars
  BY <1>3, <1>4 DEF vars, clientVars, proxyVars
<1>5. ASSUME NEW c \in Connections, Finalise(c)
      PROVE  FreshInv(u)'
  BY <1>3, <1>5 DEF Finalise, Releases
<1>6. ASSUME NEW c \in Connections, Serves(c) \/ Loses(c)
      PROVE  FreshInv(u)'
  BY <1>3, <1>6, ServesStages DEF Serves, Loses, clientVars
<1>7. ASSUME NEW t \in Turns, Step(t), t # u
      PROVE  FreshInv(u)'
  <2>1. pc'[u] = pc[u] /\ attempt'[u] = attempt[u]
    BY <1>7, TurnsApart
  <2>2. ASSUME NEW a \in 1..MaxAttempts
        PROVE  stage'[<<u, a>>] = stage[<<u, a>>]
    <3>1. <<u, a>> # Conn(t)
      BY <1>7 DEF Conn
    <3> QED
      BY <1>2, <1>7, <3>1, StageMoves
  <2> QED
    BY <1>1, <2>1, <2>2 DEF FreshInv
<1>8. CASE Step(u)
  <2>1. pc'[u] = "notice" => attempt'[u] < MaxAttempts
    BY <1>1, <1>8, TurnMoves DEF FreshInv
  <2>2. ASSUME NEW a \in 1..MaxAttempts,
               a > attempt'[u] \/ (a = attempt'[u] /\ pc'[u] \in {"new", "gate"})
        PROVE  stage'[<<u, a>>] = "none"
    <3>1. stage[<<u, a>>] = "none"
      BY <1>1, <1>8, <2>2, TurnMoves DEF FreshInv
    <3>2. stage'[<<u, a>>] = stage[<<u, a>>]
      BY <1>1, <1>2, <1>8, <2>2, StageMoves DEF Conn
    <3> QED
      BY <3>1, <3>2
  <2> QED
    BY <2>1, <2>2 DEF FreshInv
<1> QED
  BY <1>4, <1>5, <1>6, <1>7, <1>8 DEF Next

-----------------------------------------------------------------------------
(* What a turn shows. *)

\* A streamed turn's own step.
LEMMA StreamInvOwn ==
  ASSUME TypeOK, NEW t \in Streams, StreamInv(t), WireInv(Conn(t)), Step(t)
  PROVE  StreamInv(t)'
<1>1. /\ t \in Turns /\ t \notin Blocks
      /\ pc \in [Turns -> Places] /\ attempt \in [Turns -> 1..MaxAttempts]
      /\ heard \in [Turns -> Heard] /\ result \in [Turns -> Results]
      /\ shown \in [Turns -> SUBSET (1..MaxAttempts)]
  BY TurnsAreTwoKinds DEF TypeOK, Heard
<1>2. \A place : Goto(t, place) => pc'[t] = place
  BY <1>1 DEF Goto
<1>3. \A how : Ends(t, how) => pc'[t] = "over" /\ result'[t] = how
  BY <1>1, <1>2 DEF Ends
<1>4. Asks(t) => pc'[t] = "gate" /\ heard'[t] = Nothing
  BY <1>1, <1>2 DEF Asks
<1>5. pc[t] # "over" => result[t] = "none"
  BY DEF StreamInv
<1>6. CASE Begin(t) \/ TakeSlot(t)
  BY <1>1, <1>2, <1>4, <1>6 DEF Begin, TakeSlot, StreamInv, Nothing, Conn, proxyVars
<1>7. CASE Refused(t)
  BY <1>1, <1>3, <1>7 DEF Refused, StreamInv, Results
<1>8. CASE ReadText(t)
  <2>1. heard'[t].text = TRUE /\ shown'[t] = shown[t] \cup {attempt[t]} /\ pc' = pc
        /\ result' = result /\ attempt' = attempt /\ pc[t] = "read"
    BY <1>1, <1>8 DEF ReadText, Reads, Coming, Heard
  <2> QED
    BY <1>5, <2>1 DEF StreamInv
<1>9. ASSUME NEW u \in Usage, ReadUsage(t, u)
      PROVE  StreamInv(t)'
  <2>1. heard'[t].text = heard[t].text /\ shown' = shown /\ pc' = pc
        /\ result' = result /\ attempt' = attempt /\ pc[t] = "read"
    BY <1>1, <1>9 DEF ReadUsage, Reads, Coming, Heard
  <2> QED
    BY <1>5, <2>1 DEF StreamInv
<1>10. CASE StreamReadsError(t) \/ StreamTimesOut(t)
  <2>1. pc'[t] = "drain" /\ pc[t] = "read" /\ UNCHANGED <<attempt, result, shown>>
    BY <1>2, <1>10 DEF StreamReadsError, StreamTimesOut, StreamFails, Reads, Coming
  <2> QED
    BY <1>5, <2>1 DEF StreamInv
<1>11. CASE StreamRetries(t)
  <2>1. pc'[t] = "notice" /\ pc[t] = "read" /\ UNCHANGED <<attempt, result, shown>>
        /\ ~ heard[t].text
    BY <1>2, <1>11 DEF StreamRetries, Reads, Coming, Retries, NonAnswer
  <2> QED
    BY <1>5, <2>1 DEF StreamInv
<1>12. CASE StreamAnswers(t)
  <2>1. pc'[t] = "over" /\ UNCHANGED <<attempt, shown, stage, cut>>
    BY <1>3, <1>12 DEF StreamAnswers, Reads
  <2>2. wire[Conn(t)] # <<>> /\ Head(wire[Conn(t)]) = "done" /\ wire[Conn(t)] \in Seq(Frame)
    BY <1>1, <1>12, ReadsTypes DEF StreamAnswers
  <2>3. 1 \in DOMAIN wire[Conn(t)] /\ wire[Conn(t)][1] = "done"
    BY <2>2
  <2>4. stage[Conn(t)] = "closed" /\ Conn(t) \notin cut
    BY <2>3 DEF WireInv
  <2>5. Conn(t)' = Conn(t)
    BY <2>1 DEF Conn
  <2>6. shown'[t] \subseteq {attempt'[t]}
    BY <2>1 DEF StreamInv
  <2> QED
    BY <2>1, <2>4, <2>5, <2>6 DEF StreamInv
<1>13. CASE StreamAgain(t)
  BY <1>1, <1>4, <1>5, <1>13 DEF StreamAgain, StreamInv
<1>14. CASE Cancel(t)
  BY <1>3, <1>14 DEF Cancel, StreamInv
<1>15. CASE Drain(t)
  <2>1. result[t] = "none" /\ pc[t] = "drain"
    BY <1>5, <1>15 DEF Drain
  <2> QED
    BY <1>3, <1>15, <2>1 DEF Drain, StreamInv
<1>16. ~ (NapAgain(t) \/ NapExhausted(t) \/ Store(t))
  BY DEF NapAgain, NapExhausted, FellThrough, Store, StreamInv
<1>17. ~ (BlockReadsError(t) \/ BlockNaps(t) \/ BlockRaises(t) \/ BlockTimesOut(t)
          \/ BlockReturns(t) \/ BlockAgain(t))
  BY <1>1 DEF BlockReadsError, BlockNaps, BlockRaises, BlockTimesOut, BlockReturns, BlockAgain,
              BlockEnds
<1> QED
  BY <1>6, <1>7, <1>8, <1>9, <1>10, <1>11, <1>12, <1>13, <1>14, <1>15, <1>16, <1>17 DEF Step

LEMMA StreamInvStep ==
  ASSUME TypeOK, \A t \in Turns : FreshInv(t), \A c \in Connections : WireInv(c),
         [Next]_vars, NEW u \in Streams, StreamInv(u)
  PROVE  StreamInv(u)'
<1>1. u \in Turns /\ Conn(u) \in Connections
  BY TurnsAreTwoKinds, ConnIsOwn DEF TypeOK
<1>2. ASSUME pc'[u] = pc[u], attempt'[u] = attempt[u], heard'[u] = heard[u],
             result'[u] = result[u], shown'[u] = shown[u],
             stage[Conn(u)] = "closed" /\ Conn(u) \notin cut
                 => stage'[Conn(u)] = "closed" /\ Conn(u) \notin cut'
      PROVE  StreamInv(u)'
  <2>1. Conn(u)' = Conn(u)
    BY <1>2 DEF Conn
  <2> QED
    BY <1>2, <2>1 DEF StreamInv
<1>3. CASE UNCHANGED vars
  BY <1>2, <1>3 DEF vars, clientVars, proxyVars
<1>4. ASSUME NEW c \in Connections, Finalise(c)
      PROVE  StreamInv(u)'
  BY <1>2, <1>4 DEF Finalise, Releases
<1>5. ASSUME NEW c \in Connections, Serves(c) \/ Loses(c)
      PROVE  StreamInv(u)'
  BY <1>1, <1>2, <1>5, ServesStages DEF Serves, Loses, clientVars
<1>6. ASSUME NEW t \in Turns, Step(t), t # u
      PROVE  StreamInv(u)'
  <2>1. Conn(u) # Conn(t)
    BY <1>1, <1>6, ConnIsOwn DEF TypeOK
  <2>2. stage'[Conn(u)] = stage[Conn(u)]
    BY <1>1, <1>6, <2>1, StageMoves
  <2>3. cut' = cut
    BY <1>6, TurnWires DEF Opens, Takes, DropsWire
  <2> QED
    BY <1>1, <1>2, <1>6, <2>2, <2>3, TurnsApart
<1>7. CASE Step(u)
  BY <1>1, <1>7, StreamInvOwn
<1> QED
  BY <1>3, <1>4, <1>5, <1>6, <1>7 DEF Next

LEMMA BlockShowsOne ==
  ASSUME TypeOK, [Next]_vars, NEW u \in Blocks, \A a, b \in shown[u] : a = b
  PROVE  (\A a, b \in shown[u] : a = b)'
<1>1. u \in Turns /\ u \notin Streams /\ shown \in [Turns -> SUBSET (1..MaxAttempts)]
  BY TurnsAreTwoKinds DEF TypeOK
<1>2. CASE shown' = shown
  BY <1>2
<1>3. ASSUME NEW t \in Turns, ReadText(t)
      PROVE  shown'[u] = shown[u]
  BY <1>1, <1>3 DEF ReadText
<1>4. ASSUME NEW t \in Turns, BlockReturns(t)
      PROVE  shown'[u] = shown[u] \/ (\A a, b \in shown'[u] : a = b)
  BY <1>1, <1>4 DEF BlockReturns
<1>5. ASSUME NEW t \in Turns, Step(t), ~ ReadText(t), ~ BlockReturns(t)
      PROVE  shown' = shown
  BY <1>5 DEF Step, Begin, Refused, TakeSlot, ReadUsage, StreamReadsError, StreamTimesOut,
         StreamFails, StreamRetries, StreamAnswers, StreamAgain, Cancel, BlockReadsError,
         BlockNaps, BlockRaises, BlockTimesOut, BlockAgain, NapAgain, NapExhausted, Store, Drain
<1>6. ASSUME NEW c \in Connections, Finalise(c) \/ Serves(c) \/ Loses(c)
      PROVE  shown' = shown
  BY <1>6 DEF Finalise, Serves, Loses, clientVars
<1> QED
  BY <1>2, <1>3, <1>4, <1>5, <1>6 DEF Next, vars, clientVars

-----------------------------------------------------------------------------
(* Where a frame that was received waits. *)

\* The steps after which a turn is reading.
LEMMA StaysReading ==
  ASSUME TypeOK, NEW t \in Turns, Step(t), pc'[t] = "read"
  PROVE  \/ TakeSlot(t) \/ ReadText(t) \/ (\E k \in Usage : ReadUsage(t, k)) \/ BlockReadsError(t)
<1>1. pc \in [Turns -> Places]
  BY DEF TypeOK
<1>2. \A place : Goto(t, place) => pc'[t] = place
  BY <1>1 DEF Goto
<1>3. \A how : Ends(t, how) => pc'[t] = "over"
  BY <1>2 DEF Ends
<1>4. Asks(t) => pc'[t] = "gate"
  BY <1>2 DEF Asks
<1>5. ~ (Begin(t) \/ Refused(t) \/ StreamReadsError(t) \/ StreamTimesOut(t) \/ StreamRetries(t)
          \/ StreamAnswers(t) \/ StreamAgain(t) \/ Cancel(t))
  BY <1>2, <1>3, <1>4 DEF Begin, Refused, StreamReadsError, StreamTimesOut, StreamFails,
                          StreamRetries, StreamAnswers, StreamAgain, Cancel
<1>6. ~ (BlockNaps(t) \/ BlockRaises(t) \/ BlockTimesOut(t) \/ BlockReturns(t) \/ BlockAgain(t))
  BY <1>2, <1>3, <1>4 DEF BlockNaps, BlockRaises, BlockTimesOut, BlockReturns, BlockAgain
<1>7. ~ (NapAgain(t) \/ NapExhausted(t) \/ Store(t) \/ Drain(t))
  BY <1>2, <1>3, <1>4 DEF NapAgain, NapExhausted, Store, Drain
<1> QED
  BY <1>5, <1>6, <1>7 DEF Step

\* A frame comes into a turn's hand when it is read, and leaves it when the
\* turn reads no more.
LEMMA HandsKept ==
  ASSUME TypeOK, \A t \in Streams : StreamInv(t), NEW t \in Turns, Step(t),
         NEW f \in InHand', ~ \E k \in Usage : ReadUsage(t, k)
  PROVE  f \in InHand /\ (f = Conn(t) => pc'[t] = "read")
<1>1. /\ pc \in [Turns -> Places] /\ attempt \in [Turns -> 1..MaxAttempts]
      /\ heard \in [Turns -> Heard]
      /\ t \in Streams => t \notin Blocks
  BY TurnsAreTwoKinds DEF TypeOK, Heard
<1>2. PICK u \in Streams : pc'[u] = "read" /\ heard'[u].usage # "none" /\ f = Conn(u)'
  BY DEF InHand
<1>3. u \in Turns
  BY TurnsAreTwoKinds
<1>4. CASE u # t
  <2>1. pc[u] = "read" /\ heard[u].usage # "none" /\ f = Conn(u)
    BY <1>2, <1>3, <1>4, TurnsApart DEF Conn
  <2>2. f # Conn(t)
    BY <1>3, <1>4, <2>1, ConnIsOwn DEF TypeOK
  <2> QED
    BY <2>1, <2>2 DEF InHand
<1>5. CASE u = t
  <2>1. CASE TakeSlot(t)
    <3>1. heard'[t] = Nothing
      BY <1>2, <1>5, <2>1 DEF TakeSlot, StreamInv
    <3> QED
      BY <1>2, <1>5, <3>1 DEF Nothing
  <2>2. CASE ReadText(t)
    <3>1. pc[t] = "read" /\ heard'[t].usage = heard[t].usage /\ Conn(t)' = Conn(t)
      BY <1>1, <2>2 DEF ReadText, Reads, Coming, Conn, Heard
    <3> QED
      BY <1>2, <1>5, <3>1 DEF InHand
  <2>3. ~ BlockReadsError(t)
    BY <1>1, <1>2, <1>5 DEF BlockReadsError
  <2> QED
    BY <1>2, <1>5, <2>1, <2>2, <2>3, StaysReading
<1> QED
  BY <1>4, <1>5

\* What a streamed turn holds back is in its hand, and of no other.
LEMMA HeldIsInHand ==
  ASSUME TypeOK, NEW t \in Streams, pc[t] = "read"
  PROVE  Held(t) \subseteq InHand /\ (Conn(t) \in InHand => Held(t) = {Conn(t)})
<1>1. Held(t) \subseteq InHand
  BY DEF Held, InHand
<1>2. ASSUME Conn(t) \in InHand
      PROVE  heard[t].usage # "none"
  <2>1. PICK u \in Streams : pc[u] = "read" /\ heard[u].usage # "none" /\ Conn(t) = Conn(u)
    BY <1>2 DEF InHand
  <2>2. u = t
    BY <2>1, ConnIsOwn, TurnsAreTwoKinds DEF TypeOK
  <2> QED
    BY <2>1, <2>2
<1> QED
  BY <1>1, <1>2 DEF Held

\* A frame that comes into no place, and is not recorded.
LEMMA FrameLeft ==
  ASSUME TypeOK, NEW f \in Connections, FrameInv(f), recorded'[f] = recorded[f],
         f \in spent => f \in spent', f \in InHand' => f \in InHand,
         f \in Stashed' => f \in Stashed, f \in retried' => f \in retried
  PROVE  FrameInv(f)'
BY DEF FrameInv

\* A frame that is recorded, from the places it leaves.
LEMMA FrameRecorded ==
  ASSUME TypeOK, NEW f \in Connections, FrameInv(f), NEW F, Record(F), f \in F => f \in spent,
         spent' = spent,
         f \in F => recorded[f] = 0 /\ f \notin InHand' /\ f \notin Stashed' /\ f \notin retried',
         f \in InHand' => f \in InHand, f \in Stashed' => f \in Stashed,
         f \in retried' => f \in retried
  PROVE  FrameInv(f)'
<1>1. CASE f \in F
  <2>1. recorded'[f] = recorded[f] + 1
    BY <1>1 DEF Record
  <2>2. recorded'[f] = 1
    BY <1>1, <2>1
  <2> QED
    BY <1>1, <2>2 DEF FrameInv
<1>2. CASE f \notin F
  <2>1. recorded'[f] = recorded[f] + 0 /\ recorded[f] \in Nat
    BY <1>2 DEF Record, TypeOK
  <2>2. recorded'[f] = recorded[f]
    BY <2>1
  <2> QED
    BY <2>2, FrameLeft
<1> QED
  BY <1>1, <1>2

\* A frame that has just been received is in one place.
LEMMA FrameReceived ==
  ASSUME TypeOK, \A t \in Streams : StreamInv(t), NEW t \in Turns, WireInv(Conn(t)),
         NEW k \in Usage, ReadUsage(t, k), NEW f \in Connections, FrameInv(f)
  PROVE  FrameInv(f)'
<1>1. /\ pc \in [Turns -> Places] /\ attempt \in [Turns -> 1..MaxAttempts]
      /\ heard \in [Turns -> Heard]
      /\ t \in Streams <=> t \notin Blocks
      /\ Conn(t) \in Connections
  BY TurnsAreTwoKinds, ConnIsOwn DEF TypeOK, Heard
<1>2. UNCHANGED <<pc, attempt, recorded, retried>> /\ spent' = spent \cup {Conn(t)}
  BY <1>1 DEF ReadUsage
<1>3. Conn(t) \notin spent
  <2>1. wire[Conn(t)] \in Seq(Frame) /\ wire[Conn(t)] # <<>> /\ Head(wire[Conn(t)]) = k
    BY <1>1, ReadsTypes DEF ReadUsage
  <2>2. 1 \in UsageIn(Conn(t))
    BY <2>1 DEF UsageIn
  <2> QED
    BY <2>2 DEF WireInv
<1>4. ASSUME NEW u \in Streams, u # t
      PROVE  heard'[u] = heard[u]
  BY <1>1, <1>4, TurnsAreTwoKinds DEF ReadUsage
<1>5. \A u \in Streams : Conn(u)' = Conn(u)
  BY <1>2 DEF Conn
<1>6. CASE t \in Streams
  <2>1. stash' = stash
    BY <1>6 DEF ReadUsage
  <2>2. f \in InHand' => f \in InHand \/ f = Conn(t)
    BY <1>2, <1>4, <1>5 DEF InHand
  <2>3. CASE f = Conn(t)
    BY <1>2, <1>3, <2>1, <2>3 DEF FrameInv, Stashed
  <2>4. CASE f # Conn(t)
    BY <1>2, <2>1, <2>2, <2>4, FrameLeft DEF Stashed
  <2> QED
    BY <2>3, <2>4
<1>7. CASE t \in Blocks
  <2>1. heard' = heard /\ stash' = [frame |-> Conn(t), size |-> k]
    BY <1>1, <1>7 DEF ReadUsage
  <2>2. InHand' = InHand
    BY <1>2, <2>1 DEF InHand, Conn
  <2>3. f \in Stashed' => f = Conn(t)
    BY <2>1 DEF Stashed
  <2>4. CASE f = Conn(t)
    BY <1>2, <1>3, <2>2, <2>4 DEF FrameInv
  <2>5. CASE f # Conn(t)
    BY <1>2, <2>2, <2>3, <2>5, FrameLeft
  <2> QED
    BY <2>4, <2>5
<1> QED
  BY <1>1, <1>6, <1>7

\* A streamed turn hands its frame on: to be recorded, or to the retried ones.
LEMMA FrameHandedOn ==
  ASSUME TypeOK, \A t \in Streams : StreamInv(t), NEW t \in Streams,
         StreamReadsError(t) \/ StreamTimesOut(t) \/ StreamRetries(t) \/ StreamAnswers(t),
         NEW f \in Connections, FrameInv(f)
  PROVE  FrameInv(f)'
<1>1. /\ t \in Turns /\ pc[t] = "read" /\ UNCHANGED <<attempt, stash, spent>> /\ Step(t)
      /\ ~ \E k \in Usage : ReadUsage(t, k)
  <2>1. UNCHANGED spent /\ pc'[t] # "read" /\ pc[t] = "read"
    BY TurnsAreTwoKinds DEF TypeOK, StreamReadsError, StreamTimesOut, StreamFails, StreamRetries,
                            StreamAnswers, Reads, Coming, Goto, Ends
  <2>2. t \in Turns /\ Step(t) /\ UNCHANGED <<attempt, stash>>
    BY TurnsAreTwoKinds DEF Step, StreamReadsError, StreamTimesOut, StreamFails, StreamRetries,
                            StreamAnswers
  <2> QED
    BY <2>1, <2>2 DEF ReadUsage
<1>2. pc'[t] # "read"
  BY <1>1 DEF TypeOK, StreamReadsError, StreamTimesOut, StreamFails, StreamRetries,
              StreamAnswers, Goto, Ends
<1>3. f \in InHand' => f \in InHand /\ f # Conn(t)
  BY <1>1, <1>2, HandsKept
<1>4. Held(t) \subseteq InHand /\ Held(t) \subseteq {Conn(t)} /\ Stashed' = Stashed
  BY <1>1, HeldIsInHand DEF Held, Stashed
<1>5. CASE StreamRetries(t)
  <2>1. retried' = retried \cup Held(t) /\ recorded' = recorded
    BY <1>5 DEF StreamRetries
  <2>2. CASE f \in Held(t)
    BY <1>1, <1>3, <1>4, <2>1, <2>2 DEF FrameInv
  <2>3. CASE f \notin Held(t)
    BY <1>1, <1>3, <1>4, <2>1, <2>3, FrameLeft
  <2> QED
    BY <2>2, <2>3
<1>6. CASE ~ StreamRetries(t)
  <2>1. Record(Held(t)) /\ retried' = retried
    BY <1>6 DEF StreamReadsError, StreamTimesOut, StreamFails, StreamAnswers
  <2>2. f \in Held(t) => f \in spent /\ recorded[f] = 0 /\ f \notin InHand' /\ f \notin Stashed'
                         /\ f \notin retried'
    BY <1>3, <1>4, <2>1 DEF FrameInv
  <2> QED
    BY <1>1, <1>3, <1>4, <2>1, <2>2, FrameRecorded
<1> QED
  BY <1>5, <1>6

\* A blocking turn's frame goes to the retried ones, or is recorded; the
\* retried ones are recorded by the turn that drains them.
LEMMA FrameTaken ==
  ASSUME TypeOK, \A t \in Streams : StreamInv(t), NEW t \in Turns,
         BlockAgain(t) \/ Store(t) \/ Drain(t), NEW f \in Connections, FrameInv(f)
  PROVE  FrameInv(f)'
<1>1. Step(t) /\ spent' = spent /\ ~ \E k \in Usage : ReadUsage(t, k)
  <2>1. Step(t) /\ spent' = spent
    BY DEF Step, BlockAgain, Store, Drain
  <2>2. pc'[t] # "read"
    BY DEF TypeOK, BlockAgain, Store, Drain, Asks, Goto, Ends
  <2>3. ASSUME NEW k \in Usage, ReadUsage(t, k)
        PROVE  pc'[t] = "read"
    BY <2>3 DEF ReadUsage, Reads, Coming
  <2> QED
    BY <2>1, <2>2, <2>3
<1>2. f \in InHand' => f \in InHand
  BY <1>1, HandsKept
<1>3. CASE BlockAgain(t)
  <2>1. retried' = retried \cup Stashed /\ recorded' = recorded /\ Stashed' = {}
    BY <1>3 DEF BlockAgain, Stashed
  <2>2. CASE f \in Stashed
    BY <1>1, <1>2, <2>1, <2>2 DEF FrameInv
  <2>3. CASE f \notin Stashed
    BY <1>1, <1>2, <2>1, <2>3, FrameLeft
  <2> QED
    BY <2>2, <2>3
<1>4. CASE Store(t)
  <2>1. Record(Stashed) /\ retried' = retried /\ Stashed' = {}
    BY <1>4 DEF Store, Stashed
  <2>2. f \in Stashed => f \in spent /\ recorded[f] = 0 /\ f \notin InHand' /\ f \notin retried'
    BY <1>2, <2>1 DEF FrameInv
  <2> QED
    BY <1>1, <1>2, <2>1, <2>2, FrameRecorded
<1>5. CASE Drain(t)
  <2>1. Record(retried) /\ retried' = {} /\ Stashed' = Stashed
    BY <1>5 DEF Drain, Stashed
  <2>2. f \in retried => f \in spent /\ recorded[f] = 0 /\ f \notin InHand' /\ f \notin Stashed'
    BY <1>2, <2>1 DEF FrameInv
  <2> QED
    BY <1>1, <1>2, <2>1, <2>2, FrameRecorded
<1> QED
  BY <1>3, <1>4, <1>5

LEMMA FrameInvStep ==
  ASSUME TypeOK, \A t \in Streams : StreamInv(t), \A c \in Connections : WireInv(c),
         [Next]_vars, NEW f \in Connections, FrameInv(f)
  PROVE  FrameInv(f)'
<1>1. CASE UNCHANGED <<clientVars, faults>>
  BY <1>1 DEF clientVars, FrameInv, InHand, Conn, Stashed
<1>2. ASSUME NEW c \in Connections, Finalise(c)
      PROVE  FrameInv(f)'
  BY <1>2 DEF Finalise, FrameInv, InHand, Conn, Stashed
<1>3. ASSUME NEW c \in Connections, Serves(c) \/ Loses(c)
      PROVE  FrameInv(f)'
  BY <1>3 DEF Serves, Loses, clientVars, FrameInv, InHand, Conn, Stashed
<1>4. ASSUME NEW t \in Turns, Step(t)
      PROVE  FrameInv(f)'
  <2>1. CASE \E k \in Usage : ReadUsage(t, k)
    BY <2>1, FrameReceived, ConnIsOwn DEF TypeOK
  <2>2. CASE StreamReadsError(t) \/ StreamTimesOut(t) \/ StreamRetries(t) \/ StreamAnswers(t)
    <3>1. t \in Streams
      BY <2>2 DEF StreamReadsError, StreamTimesOut, StreamRetries, StreamAnswers
    <3> QED
      BY <2>2, <3>1, FrameHandedOn
  <2>3. CASE BlockAgain(t) \/ Store(t) \/ Drain(t)
    BY <2>3, FrameTaken
  <2>4. ASSUME ~ \E k \in Usage : ReadUsage(t, k), recorded' = recorded, stash' = stash,
               retried' \subseteq retried, spent' = spent
        PROVE  FrameInv(f)'
    BY <1>4, <2>4, HandsKept, FrameLeft DEF Stashed
  <2>5. CASE \/ Begin(t) \/ Refused(t) \/ TakeSlot(t) \/ ReadText(t) \/ StreamAgain(t) \/ Cancel(t)
             \/ BlockReadsError(t) \/ BlockNaps(t) \/ BlockRaises(t) \/ BlockTimesOut(t)
             \/ BlockReturns(t) \/ NapAgain(t) \/ NapExhausted(t)
    <3>1. /\ recorded' = recorded /\ stash' = stash /\ retried' \subseteq retried /\ spent' = spent
      BY <2>5 DEF Begin, Refused, TakeSlot, ReadText, StreamAgain, Cancel, BlockReadsError,
                  BlockNaps, BlockRaises, BlockTimesOut, BlockReturns, NapAgain, NapExhausted
    <3> QED
      BY <2>1, <2>4, <3>1
  <2> QED
    BY <1>4, <2>1, <2>2, <2>3, <2>5 DEF Step
<1> QED
  BY <1>1, <1>2, <1>3, <1>4 DEF Next, vars

-----------------------------------------------------------------------------
(* The invariant, and what it says. *)

LEMMA InitInv ==
  Init => IInv
<1> SUFFICES ASSUME Init
             PROVE  IInv
  OBVIOUS
<1>1. TypeOK
  BY InitTypes
<1>2. ASSUME NEW c \in Connections
      PROVE  WireInv(c) /\ FrameInv(c)
  <2>1. /\ stage[c] = "none" /\ wire[c] = <<>> /\ spent = {} /\ reported = {} /\ cut = {}
        /\ recorded[c] = 0 /\ retried = {} /\ Stashed = {}
    BY <1>2 DEF Init, ProxyInit, Stashed
  <2>2. \A t \in Streams : pc[t] # "read"
    BY TurnsAreTwoKinds DEF Init
  <2>3. InHand = {}
    BY <2>2 DEF InHand
  <2>4. UsageIn(c) = {}
    BY <2>1 DEF UsageIn
  <2>5. WireInv(c)
    BY <2>1, <2>4 DEF WireInv
  <2>6. FrameInv(c)
    BY <2>1, <2>3 DEF FrameInv
  <2> QED
    BY <2>5, <2>6
<1>3. ASSUME NEW t \in Turns
      PROVE  FreshInv(t)
  BY <1>3 DEF Init, ProxyInit, FreshInv, Connections
<1>4. ASSUME NEW t \in Streams
      PROVE  StreamInv(t)
  BY <1>4, TurnsAreTwoKinds DEF Init, StreamInv
<1>5. ASSUME NEW t \in Blocks
      PROVE  \A a, b \in shown[t] : a = b
  BY <1>5, TurnsAreTwoKinds DEF Init
<1> QED
  BY <1>1, <1>2, <1>3, <1>4, <1>5 DEF IInv

LEMMA NextInv ==
  IInv /\ [Next]_vars => IInv'
<1> SUFFICES ASSUME IInv, [Next]_vars
             PROVE  IInv'
  OBVIOUS
<1>1. /\ TypeOK /\ \A c \in Connections : WireInv(c) /\ FrameInv(c)
      /\ \A t \in Turns : FreshInv(t) /\ \A u \in Streams : StreamInv(u)
      /\ \A t \in Streams : StreamInv(t)
      /\ \A t \in Blocks : \A a, b \in shown[t] : a = b
  BY DEF IInv
<1>2. TypeOK'
  BY <1>1, TypeStep
<1>3. \A c \in Connections : WireInv(c)'
  BY <1>1, WireInvStep
<1>4. \A c \in Connections : FrameInv(c)'
  BY <1>1, FrameInvStep
<1>5. \A t \in Turns : FreshInv(t)'
  BY <1>1, FreshInvStep
<1>6. \A t \in Streams : StreamInv(t)'
  BY <1>1, StreamInvStep
<1>7. \A t \in Blocks : (\A a, b \in shown[t] : a = b)'
  BY <1>1, BlockShowsOne
<1> QED
  BY <1>2, <1>3, <1>4, <1>5, <1>6, <1>7 DEF IInv

\* Every reachable state satisfies the invariant: the proxy tells once what a
\* child has spent, and what was received is in one place until it is recorded
\* (runner._usage_by_chat, _retried_usage_by_chat, claude_proxy.relay_stdout).
THEOREM InvHolds == Spec => []IInv
<1>1. Init => IInv
  BY InitInv
<1>2. IInv /\ [Next]_vars => IInv'
  BY NextInv
<1> QED
  BY <1>1, <1>2, PTL DEF Spec

\* However turns share the two dictionaries of a conversation, what an attempt
\* spent is recorded at most once and only if it was received
\* (runner.take_last_usage, take_retried_usage, routes/chats.record_usage_frame).
THEOREM SpendingIsNotDoubled == Spec => []RecordedOnce
<1>1. IInv => RecordedOnce
  <2> SUFFICES ASSUME IInv
               PROVE  RecordedOnce
    OBVIOUS
  <2>1. TypeOK /\ \A f \in Connections : FrameInv(f)
    BY DEF IInv
  <2>2. ASSUME NEW f \in Connections
        PROVE  recorded[f] <= 1 /\ (recorded[f] = 1 => f \in spent)
    BY <2>1 DEF FrameInv
  <2> QED
    BY <2>1, <2>2 DEF RecordedOnce
<1> QED
  BY <1>1, InvHolds, PTL

\* No retry and no cut makes an answer of pieces: what a turn gives out is of
\* one attempt, and a streamed turn counts as answered only when the proxy has
\* closed that attempt's stream (runner._is_non_answer, runner.stream_turn).
THEOREM AnswersAreWhole == Spec => []AnswerIsOneWhole
<1>1. IInv => AnswerIsOneWhole
  <2> SUFFICES ASSUME IInv
               PROVE  AnswerIsOneWhole
    OBVIOUS
  <2>1. /\ \A t \in Streams : StreamInv(t)
        /\ \A t \in Blocks : \A a, b \in shown[t] : a = b
    BY DEF IInv
  <2>2. OneAttemptShown
    BY <2>1 DEF OneAttemptShown, Turns, StreamInv
  <2>3. StreamedWhole
    BY <2>1 DEF StreamedWhole, StreamInv
  <2> QED
    BY <2>2, <2>3 DEF AnswerIsOneWhole
<1> QED
  BY <1>1, InvHolds, PTL
=============================================================================
