-------------------------- MODULE DapClientProofs --------------------------
(***************************************************************************)
(* Proofs about DapClient, for any number of callers, requests and events. *)
(*                                                                         *)
(* Sequence numbers are handed out once, so what is pending, delivered or  *)
(* closed lies below the counter (SeqInv) and no two calls share a number  *)
(* (MineInv).  A number is in one place at a time: in the table, in the    *)
(* reader's hands or among the closed channels (ResponsesSafe).  Hence a   *)
(* call in progress is always found somewhere, from the moment it is       *)
(* entered in the table, not only once it waits (CallInv).                 *)
(*                                                                         *)
(* The second part shows that the client implements CallService: a request *)
(* is in one place on its way to the adapter and back (WayInv), and a      *)
(* channel is closed without an answer only when the connection ends       *)
(* (ShutInv).                                                              *)
(***************************************************************************)
EXTENDS DapClient, TLAPS

Used == 1..seq

SeqInv ==
  /\ pending \subseteq Used /\ shut \subseteq Used /\ filled \subseteq shut
  /\ reader = "deliver" => msg \in Used
  /\ \A c \in Callers : at[c] # "idle" => mine[c] \in Used

MineInv ==
  \A c, d \in Callers : at[c] # "idle" /\ at[d] # "idle" /\ mine[c] = mine[d] => c = d

CallInv ==
  \A c \in Callers :
    at[c] # "idle" =>
      \/ mine[c] \in pending \cup filled \cup shut
      \/ reader = "deliver" /\ msg = mine[c]

Inv == /\ TypeOK /\ SeqInv /\ MineInv /\ CallInv /\ PendingOwned /\ ResponsesSafe

-----------------------------------------------------------------------------
(* The sets that messages, numbers and outcomes are taken from.            *)

\* What the proofs need to know of the constants and of the sets made of them.
LEMMA Constants ==
  /\ MaxSeq \in Nat /\ SubCap \in Nat \ {0}
  /\ Seqs \subseteq Message /\ Seqs \subseteq Nat /\ Event \in Message /\ 0 \notin Seqs
  /\ NoOutcome \in Outcome /\ Failed \in Outcome
  /\ \A n \in Seqs : [st |-> "ok", req |-> n] \in Outcome
<1>1. MaxSeq \in Nat /\ SubCap \in Nat \ {0}
  BY DapAssumption
<1>2. Seqs \subseteq Message /\ Event \in Message
  BY DEF Message
<1>3. Seqs \subseteq Nat /\ 0 \notin Seqs
  BY <1>1 DEF Seqs
<1>4. NoOutcome \in Outcome /\ Failed \in Outcome
  BY DEF NoOutcome, Failed, Outcome
<1>5. \A n \in Seqs : [st |-> "ok", req |-> n] \in Outcome
  BY <1>3 DEF Outcome
<1> QED
  BY <1>1, <1>2, <1>3, <1>4, <1>5

\* The number that send hands out is new.
LEMMA Fresh ==
  ASSUME TypeOK, seq < MaxSeq
  PROVE  /\ seq \in Nat /\ seq + 1 \in 0..MaxSeq /\ seq + 1 \in Seqs
         /\ 1..(seq + 1) = Used \cup {seq + 1} /\ seq + 1 \notin Used
<1>1. MaxSeq \in Nat
  BY Constants
<1>2. seq \in Nat
  BY <1>1 DEF TypeOK
<1> QED
  BY <1>1, <1>2 DEF Seqs, Used

-----------------------------------------------------------------------------
(* Every step preserves every part of the invariant.                       *)

\* A number in use is a number that can be answered.
LEMMA UsedSeqs ==
  ASSUME TypeOK
  PROVE  Used \subseteq Seqs
<1>1. MaxSeq \in Nat
  BY Constants
<1> QED
  BY <1>1 DEF TypeOK, Used, Seqs

\* What a stream of messages yields and leaves.
LEMMA Streams ==
  ASSUME NEW s \in Seq(Message)
  PROVE  /\ s # <<>> => Head(s) \in Message /\ Tail(s) \in Seq(Message)
                          /\ Len(Tail(s)) = Len(s) - 1
         /\ Len(s) \in Nat
         /\ \A m \in Message : Append(s, m) \in Seq(Message)
OBVIOUS

\* Every step keeps the types.
LEMMA TypeNext ==
  ASSUME TypeOK, SeqInv, Next
  PROVE  TypeOK'
<1> USE Constants DEF TypeOK, clientVars, channelVars, callVars, readerVars, adapterVars
<1>1. ASSUME NEW c \in Callers, Send(c)
      PROVE  TypeOK'
  <2>1. seq + 1 \in 0..MaxSeq /\ seq + 1 \in Seqs
    BY <1>1, Fresh DEF Send
  <2>2. at' \in [Callers -> {"idle", "writing", "waiting"}]
        /\ mine' \in [Callers -> Seqs \cup {0}] /\ result' \in [Callers -> Outcome]
    <3>1. at' \in [Callers -> {"idle", "writing", "waiting"}]
      <4>1. at' = [at EXCEPT ![c] = "idle"] \/ at' = [at EXCEPT ![c] = "writing"]
        BY <1>1 DEF Send, Return
      <4> QED
        BY <4>1
    <3>2. mine' \in [Callers -> Seqs \cup {0}]
      <4>1. mine' = [mine EXCEPT ![c] = 0] \/ mine' = [mine EXCEPT ![c] = seq + 1]
        BY <1>1 DEF Send, Return
      <4> QED
        BY <2>1, <4>1
    <3>3. result' \in [Callers -> Outcome]
      <4>1. \/ result' = [result EXCEPT ![c] = Failed]
            \/ result' = [result EXCEPT ![c] = NoOutcome]
        BY <1>1 DEF Send, Return
      <4> QED
        BY <4>1
    <3> QED
      BY <3>1, <3>2, <3>3
  <2>3. seq' \in 0..MaxSeq /\ pending' \subseteq Seqs
    BY <1>1, <2>1 DEF Send
  <2> QED
    BY <1>1, <2>2, <2>3 DEF Send
<1>2. ASSUME NEW c \in Callers, Write(c)
      PROVE  TypeOK'
  <2>1. mine[c] \in Seqs
    BY <1>2, UsedSeqs DEF Write, SeqInv
  <2> QED
    BY <1>2, <2>1 DEF Write
<1>3. ASSUME NEW c \in Callers, WriteFails(c) \/ CallTimesOut(c)
      PROVE  TypeOK'
  <2>1. at' \in [Callers -> {"idle", "writing", "waiting"}]
        /\ mine' \in [Callers -> Seqs \cup {0}] /\ result' \in [Callers -> Outcome]
    <3>1. Return(c, Failed)
      BY <1>3 DEF WriteFails, CallTimesOut
    <3> QED
      BY <3>1 DEF Return
  <2>2. pending' \subseteq Seqs
    BY <1>3 DEF WriteFails, CallTimesOut
  <2> QED
    BY <1>3, <2>1, <2>2 DEF WriteFails, CallTimesOut
<1>4. ASSUME NEW c \in Callers, CallReturns(c)
      PROVE  TypeOK'
  BY <1>4 DEF CallReturns, Return
<1>5. ASSUME Read
      PROVE  TypeOK'
  <2>1. Head(stream) \in Message /\ Tail(stream) \in Seq(Message)
    BY <1>5, Streams DEF Read
  <2> QED
    BY <1>5, <2>1 DEF Read
<1>6. ASSUME Deliver
      PROVE  TypeOK'
  <2>1. msg \in Seqs
    BY <1>6, UsedSeqs DEF Deliver, SeqInv
  <2> QED
    BY <1>6, <2>1 DEF Deliver
<1>7. ASSUME CopySubs
      PROVE  TypeOK'
  BY <1>7 DEF CopySubs
<1>8. ASSUME Publish
      PROVE  TypeOK'
  BY <1>8 DEF Publish
<1>9. ASSUME ReadFails
      PROVE  TypeOK'
  BY <1>9 DEF ReadFails
<1>10. ASSUME Close
      PROVE  TypeOK'
  BY <1>10 DEF Close
<1>11. ASSUME Take
      PROVE  TypeOK'
  <2>1. queue' \in Seq(Message) /\ Len(queue') <= SubCap
    BY <1>11, Streams DEF Take
  <2> QED
    BY <1>11, <2>1 DEF Take
<1>12. ASSUME SendEvent
      PROVE  TypeOK'
  BY <1>12, Streams DEF SendEvent
<1>13. ASSUME Respond
      PROVE  TypeOK'
  <2>1. PICK n \in inbox : stream' = Append(stream, n) /\ inbox' = inbox \ {n}
    BY <1>13 DEF Respond
  <2>2. n \in Message
    BY <2>1
  <2>3. stream' \in Seq(Message)
    BY <2>1, <2>2, Streams
  <2> QED
    BY <1>13, <2>1, <2>3 DEF Respond
<1>14. ASSUME Die
      PROVE  TypeOK'
  BY <1>14 DEF Die
<1> QED
  BY <1>1, <1>2, <1>3, <1>4, <1>5, <1>6, <1>7, <1>8, <1>9, <1>10,
     <1>11, <1>12, <1>13, <1>14 DEF Next, CallStep, ReaderStep, AdapterStep

\* Numbers in use are below the counter, and every delivered channel is closed.
LEMMA SeqNext ==
  ASSUME TypeOK, SeqInv, Next
  PROVE  SeqInv'
<1> USE DEF TypeOK, SeqInv, clientVars, channelVars, callVars, readerVars,
     adapterVars
<1>1. ASSUME NEW c \in Callers, Send(c)
      PROVE  SeqInv'
  <2>1. Used' = Used \cup {seq + 1} /\ seq + 1 \notin Used
    BY <1>1, Fresh DEF Send, Used
  <2> QED
    BY <1>1, <2>1 DEF Send, Return
<1>2. ASSUME NEW c \in Callers, Write(c)
      PROVE  SeqInv'
  BY <1>2 DEF Write, Used
<1>3. ASSUME NEW c \in Callers, WriteFails(c) \/ CallTimesOut(c)
      PROVE  SeqInv'
  BY <1>3 DEF WriteFails, Used, Return, CallTimesOut
<1>4. ASSUME NEW c \in Callers, CallReturns(c)
      PROVE  SeqInv'
  BY <1>4 DEF CallReturns, Used, Return
<1>5. ASSUME Read
      PROVE  SeqInv'
  BY <1>5 DEF Read, Used
<1>6. ASSUME Deliver
      PROVE  SeqInv'
  BY <1>6 DEF Deliver, Used
<1>7. ASSUME CopySubs
      PROVE  SeqInv'
  BY <1>7 DEF CopySubs, Used
<1>8. ASSUME Publish
      PROVE  SeqInv'
  BY <1>8 DEF Publish, Used
<1>9. ASSUME ReadFails
      PROVE  SeqInv'
  BY <1>9 DEF ReadFails, Used
<1>10. ASSUME Close
      PROVE  SeqInv'
  BY <1>10 DEF Close, Used
<1>11. ASSUME Take \/ SendEvent \/ Respond \/ Die
      PROVE  SeqInv'
  BY <1>11 DEF Used, Take, SendEvent, Respond, Die
<1> QED
  BY <1>1, <1>2, <1>3, <1>4, <1>5, <1>6, <1>7, <1>8, <1>9, <1>10,
     <1>11 DEF Next, CallStep, ReaderStep, AdapterStep

\* No two calls share a number.
LEMMA MineNext ==
  ASSUME TypeOK, SeqInv, MineInv, Next
  PROVE  MineInv'
<1> USE DEF TypeOK, SeqInv, MineInv, Used, Seqs, clientVars, channelVars, callVars,
     readerVars, adapterVars
<1>1. ASSUME NEW c \in Callers, Send(c)
      PROVE  MineInv'
  BY <1>1 DEF Send, Return
<1>2. ASSUME NEW c \in Callers, Write(c)
      PROVE  MineInv'
  BY <1>2 DEF Write
<1>3. ASSUME NEW c \in Callers, WriteFails(c) \/ CallTimesOut(c)
      PROVE  MineInv'
  BY <1>3 DEF WriteFails, Return, CallTimesOut
<1>4. ASSUME NEW c \in Callers, CallReturns(c)
      PROVE  MineInv'
  BY <1>4 DEF CallReturns, Return
<1>5. ASSUME Read
      PROVE  MineInv'
  BY <1>5 DEF Read
<1>6. ASSUME Deliver
      PROVE  MineInv'
  BY <1>6 DEF Deliver
<1>7. ASSUME CopySubs
      PROVE  MineInv'
  BY <1>7 DEF CopySubs
<1>8. ASSUME Publish
      PROVE  MineInv'
  BY <1>8 DEF Publish
<1>9. ASSUME ReadFails
      PROVE  MineInv'
  BY <1>9 DEF ReadFails
<1>10. ASSUME Close
      PROVE  MineInv'
  BY <1>10 DEF Close
<1>11. ASSUME Take \/ SendEvent \/ Respond \/ Die
      PROVE  MineInv'
  BY <1>11 DEF Take, SendEvent, Respond, Die
<1> QED
  BY <1>1, <1>2, <1>3, <1>4, <1>5, <1>6, <1>7, <1>8, <1>9, <1>10,
     <1>11 DEF Next, CallStep, ReaderStep, AdapterStep

\* A call in progress is in the table, in the reader's hands or answered.
LEMMA CallNext ==
  ASSUME TypeOK, SeqInv, MineInv, CallInv, Next
  PROVE  CallInv'
<1> USE DEF TypeOK, SeqInv, MineInv, CallInv, clientVars, channelVars, callVars,
     readerVars, adapterVars
<1>1. ASSUME NEW c \in Callers, Send(c)
      PROVE  CallInv'
  BY <1>1 DEF Send, Return
<1>2. ASSUME NEW c \in Callers, Write(c)
      PROVE  CallInv'
  BY <1>2 DEF Write
<1>3. ASSUME NEW c \in Callers, WriteFails(c) \/ CallTimesOut(c)
      PROVE  CallInv'
  BY <1>3 DEF WriteFails, Return, CallTimesOut
<1>4. ASSUME NEW c \in Callers, CallReturns(c)
      PROVE  CallInv'
  BY <1>4 DEF CallReturns, Return
<1>5. ASSUME Read
      PROVE  CallInv'
  BY <1>5 DEF Read
<1>6. ASSUME Deliver
      PROVE  CallInv'
  BY <1>6 DEF Deliver
<1>7. ASSUME CopySubs
      PROVE  CallInv'
  BY <1>7 DEF CopySubs
<1>8. ASSUME Publish
      PROVE  CallInv'
  BY <1>8 DEF Publish
<1>9. ASSUME ReadFails
      PROVE  CallInv'
  BY <1>9 DEF ReadFails
<1>10. ASSUME Close
      PROVE  CallInv'
  BY <1>10 DEF Close
<1>11. ASSUME Take \/ SendEvent \/ Respond \/ Die
      PROVE  CallInv'
  BY <1>11 DEF Take, SendEvent, Respond, Die
<1> QED
  BY <1>1, <1>2, <1>3, <1>4, <1>5, <1>6, <1>7, <1>8, <1>9, <1>10,
     <1>11 DEF Next, CallStep, ReaderStep, AdapterStep

\* Every entry of the table belongs to a call in progress.
LEMMA PendingNext ==
  ASSUME TypeOK, SeqInv, MineInv, PendingOwned, ResponsesSafe, Next
  PROVE  PendingOwned'
<1> USE DEF TypeOK, SeqInv, MineInv, PendingOwned, ResponsesSafe, clientVars,
     channelVars, callVars, readerVars, adapterVars
<1>1. ASSUME NEW c \in Callers, Send(c)
      PROVE  PendingOwned'
  <2> SUFFICES ASSUME NEW n \in pending'
               PROVE  \E d \in Callers : at'[d] # "idle" /\ mine'[d] = n
    OBVIOUS
  <2>1. CASE n \in pending
    <3>1. PICK d \in Callers : at[d] # "idle" /\ mine[d] = n
      BY <2>1
    <3>2. d # c
      BY <1>1, <3>1 DEF Send
    <3> QED
      BY <1>1, <3>1, <3>2 DEF Send, Return
  <2>2. CASE n \notin pending
    <3>1. at'[c] = "writing" /\ mine'[c] = n
      BY <1>1, <2>2 DEF Send
    <3> QED
      BY <3>1
  <2> QED
    BY <2>1, <2>2
<1>2. ASSUME NEW c \in Callers, Write(c)
      PROVE  PendingOwned'
  BY <1>2 DEF Write
<1>3. ASSUME NEW c \in Callers, WriteFails(c) \/ CallTimesOut(c)
      PROVE  PendingOwned'
  BY <1>3 DEF WriteFails, Return, CallTimesOut
<1>4. ASSUME NEW c \in Callers, CallReturns(c)
      PROVE  PendingOwned'
  BY <1>4 DEF CallReturns, Return
<1>5. ASSUME Read
      PROVE  PendingOwned'
  BY <1>5 DEF Read
<1>6. ASSUME Deliver
      PROVE  PendingOwned'
  BY <1>6 DEF Deliver
<1>7. ASSUME CopySubs
      PROVE  PendingOwned'
  BY <1>7 DEF CopySubs
<1>8. ASSUME Publish
      PROVE  PendingOwned'
  BY <1>8 DEF Publish
<1>9. ASSUME ReadFails
      PROVE  PendingOwned'
  BY <1>9 DEF ReadFails
<1>10. ASSUME Close
      PROVE  PendingOwned'
  BY <1>10 DEF Close
<1>11. ASSUME Take \/ SendEvent \/ Respond \/ Die
      PROVE  PendingOwned'
  BY <1>11 DEF Take, SendEvent, Respond, Die
<1> QED
  BY <1>1, <1>2, <1>3, <1>4, <1>5, <1>6, <1>7, <1>8, <1>9, <1>10,
     <1>11 DEF Next, CallStep, ReaderStep, AdapterStep

\* A channel leaves the table before anybody closes it.
LEMMA ResponsesNext ==
  ASSUME TypeOK, SeqInv, ResponsesSafe, Next
  PROVE  ResponsesSafe'
<1> USE DEF TypeOK, SeqInv, ResponsesSafe, clientVars, channelVars, callVars,
     readerVars, adapterVars
<1>1. ASSUME NEW c \in Callers, Send(c)
      PROVE  ResponsesSafe'
  <2>1. Used' = Used \cup {seq + 1} /\ seq + 1 \notin Used
    BY <1>1, Fresh DEF Send, Used
  <2> QED
    BY <1>1, <2>1 DEF Send, Return
<1>2. ASSUME NEW c \in Callers, Write(c)
      PROVE  ResponsesSafe'
  BY <1>2 DEF Write
<1>3. ASSUME NEW c \in Callers, WriteFails(c) \/ CallTimesOut(c)
      PROVE  ResponsesSafe'
  BY <1>3 DEF WriteFails, Return, CallTimesOut
<1>4. ASSUME NEW c \in Callers, CallReturns(c)
      PROVE  ResponsesSafe'
  BY <1>4 DEF CallReturns, Return
<1>5. ASSUME Read
      PROVE  ResponsesSafe'
  BY <1>5 DEF Read
<1>6. ASSUME Deliver
      PROVE  ResponsesSafe'
  BY <1>6 DEF Deliver
<1>7. ASSUME CopySubs
      PROVE  ResponsesSafe'
  BY <1>7 DEF CopySubs
<1>8. ASSUME Publish
      PROVE  ResponsesSafe'
  BY <1>8 DEF Publish
<1>9. ASSUME ReadFails
      PROVE  ResponsesSafe'
  BY <1>9 DEF ReadFails
<1>10. ASSUME Close
      PROVE  ResponsesSafe'
  BY <1>10 DEF Close
<1>11. ASSUME Take \/ SendEvent \/ Respond \/ Die
      PROVE  ResponsesSafe'
  BY <1>11 DEF Take, SendEvent, Respond, Die
<1> QED
  BY <1>1, <1>2, <1>3, <1>4, <1>5, <1>6, <1>7, <1>8, <1>9, <1>10,
     <1>11 DEF Next, CallStep, ReaderStep, AdapterStep

-----------------------------------------------------------------------------
(* The theorems.                                                           *)

\* The invariant holds at first.
LEMMA InvInit == Init => Inv
<1> SUFFICES ASSUME Init PROVE Inv
  OBVIOUS
<1>1. TypeOK
  <2>1. seq \in 0..MaxSeq
    BY Constants DEF Init
  <2>2. queue \in Seq(Message) /\ Len(queue) <= SubCap /\ stream \in Seq(Message)
    BY Constants DEF Init
  <2>3. mine \in [Callers -> Seqs \cup {0}] /\ result \in [Callers -> Outcome]
    BY Constants DEF Init
  <2> QED
    BY Constants, <2>1, <2>2, <2>3 DEF Init, TypeOK
<1>2. SeqInv /\ MineInv /\ CallInv /\ PendingOwned /\ ResponsesSafe
  BY DEF Init, SeqInv, MineInv, CallInv, PendingOwned, ResponsesSafe, Used
<1> QED
  BY <1>1, <1>2 DEF Inv

\* A stuttering step keeps it.
LEMMA InvStutter == Inv /\ UNCHANGED vars => Inv'
BY DEF Inv, TypeOK, SeqInv, MineInv, CallInv, PendingOwned, ResponsesSafe, Used, vars,
   clientVars, channelVars, callVars, readerVars, adapterVars

\* The invariant of the client holds whatever callers, adapter and Close do.
THEOREM Invariance == Spec => []Inv
<1>1. Inv /\ Next => Inv'
  BY TypeNext, SeqNext, MineNext, CallNext, PendingNext, ResponsesNext DEF Inv
<1> QED
  BY <1>1, InvInit, InvStutter, PTL DEF Spec

\* Every variable keeps its type; in particular the subscription keeps its bound.
THEOREM TypeCorrect == Spec => []TypeOK
<1>1. Inv => TypeOK
  BY DEF Inv
<1> QED
  BY <1>1, Invariance, PTL

\* Client.Call is never forgotten: neither Close nor the end of the stream nor a
\* response that is half delivered loses a waiting call.
THEOREM NoCallForgotten == Spec => []CallAccounted
<1>1. Inv => CallAccounted
  BY DEF Inv, CallInv, CallAccounted
<1> QED
  BY <1>1, Invariance, PTL

\* The table of pending calls does not leak.
THEOREM NoLeak == Spec => []PendingOwned
<1>1. Inv => PendingOwned
  BY DEF Inv
<1> QED
  BY <1>1, Invariance, PTL

\* No response channel is closed twice or sent to after it was closed, although
\* dispatch delivers outside the lock.
THEOREM ResponseChannels == Spec => []ResponsesSafe
<1>1. Inv => ResponsesSafe
  BY DEF Inv
<1> QED
  BY <1>1, Invariance, PTL

-----------------------------------------------------------------------------
(* The call service.                                                       *)

Wire(s) == {s[i] : i \in DOMAIN s}

\* No response is on the stream twice.
Once(s) == \A i, j \in DOMAIN s : s[i] = s[j] /\ s[i] # Event => i = j

Back == OnStream \cup InHand \cup filled

WayInv ==
  /\ inbox \subseteq Used /\ OnStream \subseteq Used
  /\ inbox \cap Back = {} /\ OnStream \cap (InHand \cup filled) = {}
  /\ Once(stream)
  /\ \A c \in Callers : at[c] = "writing" => mine[c] \notin inbox \cup Back

ShutInv ==
  \A c \in Callers :
    at[c] # "idle" /\ mine[c] \in shut \ filled => closed \/ reader = "done"

ServiceInv == WayInv /\ ShutInv

\* What Append and Tail do to the messages of a stream.
LEMMA WireSteps ==
  ASSUME NEW s \in Seq(Message)
  PROVE  /\ \A m \in Message : Wire(Append(s, m)) = Wire(s) \cup {m}
         /\ s # <<>> => Wire(s) = Wire(Tail(s)) \cup {Head(s)}
<1>1. ASSUME NEW m \in Message
      PROVE  Wire(Append(s, m)) = Wire(s) \cup {m}
  <2> DEFINE t == Append(s, m)
  <2>1. DOMAIN t = 1..(Len(s) + 1) /\ DOMAIN s = 1..Len(s) /\ Len(s) \in Nat
    OBVIOUS
  <2>2. t[Len(s) + 1] = m /\ \A i \in 1..Len(s) : t[i] = s[i]
    OBVIOUS
  <2>3. \A i \in 1..(Len(s) + 1) : i \in 1..Len(s) \/ i = Len(s) + 1
    BY <2>1
  <2>4. Len(s) + 1 \in 1..(Len(s) + 1) /\ 1..Len(s) \subseteq 1..(Len(s) + 1)
    BY <2>1
  <2> HIDE DEF t
  <2> QED
    BY <2>1, <2>2, <2>3, <2>4 DEF Wire, t
<1>2. ASSUME s # <<>>
      PROVE  Wire(s) = Wire(Tail(s)) \cup {Head(s)}
  <2> DEFINE t == Tail(s)
  <2>1. Len(s) \in Nat \ {0} /\ DOMAIN s = 1..Len(s) /\ DOMAIN t = 1..(Len(s) - 1)
    BY <1>2
  <2>2. Head(s) = s[1] /\ \A i \in 1..(Len(s) - 1) : t[i] = s[i + 1]
    BY <1>2
  <2> HIDE DEF t
  <2>3. \A x \in Wire(s) : x \in Wire(t) \cup {s[1]}
    <3> SUFFICES ASSUME NEW i \in 1..Len(s), i # 1
                 PROVE  s[i] \in Wire(t)
      BY <2>1 DEF Wire
    <3>1. i - 1 \in 1..(Len(s) - 1) /\ (i - 1) + 1 = i
      BY <2>1
    <3>2. t[i - 1] = s[i]
      BY <2>2, <3>1
    <3> QED
      BY <2>1, <3>1, <3>2 DEF Wire
  <2>4. \A x \in Wire(t) : x \in Wire(s)
    <3> SUFFICES ASSUME NEW i \in 1..(Len(s) - 1)
                 PROVE  t[i] \in Wire(s)
      BY <2>1 DEF Wire
    <3>1. i + 1 \in 1..Len(s)
      BY <2>1
    <3> QED
      BY <2>1, <2>2, <3>1 DEF Wire
  <2>5. s[1] \in Wire(s)
    BY <2>1 DEF Wire
  <2> QED
    BY <2>2, <2>3, <2>4, <2>5 DEF t
<1> QED
  BY <1>1, <1>2

\* A response that is not on the stream may be appended, and one that is taken off
\* is no longer there.
LEMMA OnceSteps ==
  ASSUME NEW s \in Seq(Message), Once(s)
  PROVE  /\ \A m \in Message : m = Event \/ m \notin Wire(s) => Once(Append(s, m))
         /\ s # <<>> => /\ Once(Tail(s))
                        /\ Head(s) # Event => Head(s) \notin Wire(Tail(s))
<1>1. ASSUME NEW m \in Message, m = Event \/ m \notin Wire(s)
      PROVE  Once(Append(s, m))
  <2> DEFINE t == Append(s, m)
  <2>1. DOMAIN t = 1..(Len(s) + 1) /\ DOMAIN s = 1..Len(s) /\ Len(s) \in Nat
    OBVIOUS
  <2>2. t[Len(s) + 1] = m /\ \A i \in 1..Len(s) : t[i] = s[i]
    OBVIOUS
  <2>3. \A i \in 1..(Len(s) + 1) : i \in 1..Len(s) \/ i = Len(s) + 1
    BY <2>1
  <2>4. \A i \in 1..Len(s) : s[i] = m => m = Event
    BY <1>1, <2>1 DEF Wire
  <2> HIDE DEF t
  <2> QED
    BY <2>1, <2>2, <2>3, <2>4 DEF Once, t
<1>2. ASSUME s # <<>>
      PROVE  Once(Tail(s)) /\ (Head(s) # Event => Head(s) \notin Wire(Tail(s)))
  <2> DEFINE t == Tail(s)
  <2>1. Len(s) \in Nat \ {0} /\ DOMAIN s = 1..Len(s) /\ DOMAIN t = 1..(Len(s) - 1)
    BY <1>2
  <2>2. Head(s) = s[1] /\ \A i \in 1..(Len(s) - 1) : t[i] = s[i + 1]
    BY <1>2
  <2> HIDE DEF t
  <2>3. \A i \in 1..(Len(s) - 1) : i + 1 \in 1..Len(s) /\ i + 1 # 1
    BY <2>1
  <2>4. 1 \in 1..Len(s)
    BY <2>1
  <2>5. Once(t)
    <3> SUFFICES ASSUME NEW i \in 1..(Len(s) - 1), NEW j \in 1..(Len(s) - 1),
                        t[i] = t[j], t[i] # Event
                 PROVE  i = j
      BY <2>1 DEF Once
    <3>1. i + 1 = j + 1
      BY <2>1, <2>2, <2>3 DEF Once
    <3> QED
      BY <3>1
  <2>6. s[1] # Event => s[1] \notin Wire(t)
    BY <2>1, <2>2, <2>3, <2>4 DEF Once, Wire
  <2> QED
    BY <2>2, <2>5, <2>6 DEF t
<1> QED
  BY <1>1, <1>2

\* A request is in one place on its way to the adapter and back.
LEMMA WayNext ==
  ASSUME Inv, WayInv, Next
  PROVE  WayInv'
<1> USE DEF Inv, TypeOK, WayInv, Back, InHand, clientVars, channelVars, callVars,
     readerVars, adapterVars
<1>0. OnStream = Wire(stream) \ {Event} /\ OnStream' = Wire(stream') \ {Event}
  BY DEF OnStream, Wire
<1>1. ASSUME NEW c \in Callers, Send(c)
      PROVE  WayInv'
  <2>1. Used' = Used \cup {seq + 1} /\ seq + 1 \notin Used
    BY <1>1, Fresh DEF Send, Used
  <2>2. InHand \cup filled \subseteq Used
    BY DEF SeqInv
  <2> QED
    BY <1>0, <1>1, <2>1, <2>2 DEF Send, Return
<1>2. ASSUME NEW c \in Callers, Write(c)
      PROVE  WayInv'
  <2>1. mine[c] \in Used
    BY <1>2 DEF Write, SeqInv
  <2>2. \A d \in Callers : at'[d] = "writing" => d # c /\ mine[d] # mine[c]
    BY <1>2 DEF Write, MineInv
  <2>3. mine[c] \notin Back
    BY <1>2 DEF Write
  <2>4. UNCHANGED <<seq, stream, reader, msg, filled, mine>> /\ UNCHANGED Used
    BY <1>2 DEF Write, Used
  <2>5. UNCHANGED Back /\ UNCHANGED OnStream
    BY <2>4 DEF OnStream
  <2>6. inbox' \subseteq inbox \cup {mine[c]}
    BY <1>2 DEF Write
  <2>7. \A d \in Callers : at'[d] = "writing" => at[d] = "writing"
    BY <1>2 DEF Write
  <2>8. \A d \in Callers : at'[d] = "writing" => mine'[d] \notin inbox' \cup Back'
    BY <2>2, <2>4, <2>5, <2>6, <2>7
  <2>9. inbox' \subseteq Used' /\ inbox' \cap Back' = {} /\ OnStream' \subseteq Used'
    BY <2>1, <2>3, <2>4, <2>5, <2>6
  <2>10. OnStream' \cap (InHand' \cup filled') = {} /\ Once(stream')
    BY <2>4, <2>5
  <2> HIDE DEF Back
  <2> QED
    BY <2>8, <2>9, <2>10
<1>3. ASSUME NEW c \in Callers, WriteFails(c) \/ CallTimesOut(c) \/ CallReturns(c)
      PROVE  WayInv'
  <2>1. UNCHANGED <<seq, stream, reader, msg, inbox>> /\ filled' \subseteq filled
    BY <1>3 DEF WriteFails, CallTimesOut, CallReturns
  <2>2. UNCHANGED <<Used, OnStream, InHand>>
    BY <2>1 DEF Used, OnStream
  <2>3. \A d \in Callers : at'[d] = "writing" => at[d] = "writing" /\ mine'[d] = mine[d]
    BY <1>3 DEF WriteFails, CallTimesOut, CallReturns, Return
  <2> HIDE DEF InHand
  <2> QED
    BY <2>1, <2>2, <2>3
<1>4. ASSUME Read
      PROVE  WayInv'
  <2>1. Wire(stream) = Wire(stream') \cup {Head(stream)} /\ Once(stream')
    BY <1>4, WireSteps, OnceSteps DEF Read
  <2>2. Head(stream) # Event => Head(stream) \notin Wire(stream')
    BY <1>4, OnceSteps DEF Read
  <2>3. Head(stream) \in pending => Head(stream) # Event
    BY Constants DEF Event
  <2>4. UNCHANGED <<inbox, filled, Used, at, mine>> /\ InHand = {}
        /\ (InHand' = {} \/ (InHand' = {Head(stream)} /\ Head(stream) \in pending))
    BY <1>4 DEF Read, Used
  <2> QED
    BY <1>0, <2>1, <2>2, <2>3, <2>4
<1>5. ASSUME Deliver
      PROVE  WayInv'
  BY <1>0, <1>5 DEF Deliver, Used
<1>6. ASSUME CopySubs \/ Publish \/ ReadFails
      PROVE  WayInv'
  BY <1>0, <1>6 DEF CopySubs, Publish, ReadFails, Used
<1>7. ASSUME Close \/ Take \/ Die
      PROVE  WayInv'
  BY <1>0, <1>7 DEF Close, Take, Die, Used
<1>8. ASSUME Respond
      PROVE  WayInv'
  <2>1. PICK n \in inbox : stream' = Append(stream, n) /\ inbox' = inbox \ {n}
    BY <1>8 DEF Respond
  <2>2. n \in Message /\ n # Event /\ n \notin Wire(stream)
    BY <1>0, Constants DEF Event
  <2>3. Wire(stream') = Wire(stream) \cup {n} /\ Once(stream')
    BY <2>1, <2>2, WireSteps, OnceSteps
  <2> QED
    BY <1>0, <1>8, <2>1, <2>2, <2>3 DEF Respond, Used
<1>9. ASSUME SendEvent
      PROVE  WayInv'
  <2>1. Wire(stream') = Wire(stream) \cup {Event} /\ Once(stream')
    BY <1>9, Constants, WireSteps, OnceSteps DEF SendEvent
  <2> QED
    BY <1>0, <1>9, <2>1 DEF SendEvent, Used
<1> QED
  BY <1>1, <1>2, <1>3, <1>4, <1>5, <1>6, <1>7, <1>8, <1>9
     DEF Next, CallStep, ReaderStep, AdapterStep

\* The channel of a call in progress is closed without an answer only by Close or
\* by the end of the stream.
LEMMA ShutNext ==
  ASSUME Inv, ShutInv, Next
  PROVE  ShutInv'
<1> USE DEF Inv, TypeOK, SeqInv, MineInv, ShutInv, clientVars, channelVars, callVars,
     readerVars, adapterVars
<1>1. ASSUME NEW c \in Callers, Send(c)
      PROVE  ShutInv'
  <2>1. seq + 1 \notin Used
    BY <1>1, Fresh DEF Send
  <2> QED
    BY <1>1, <2>1 DEF Send, Return
<1>2. ASSUME NEW c \in Callers, Write(c)
      PROVE  ShutInv'
  BY <1>2 DEF Write
<1>3. ASSUME NEW c \in Callers, WriteFails(c) \/ CallTimesOut(c) \/ CallReturns(c)
      PROVE  ShutInv'
  BY <1>3 DEF WriteFails, CallTimesOut, CallReturns, Return
<1>4. ASSUME Read \/ Deliver \/ CopySubs \/ Publish \/ ReadFails
      PROVE  ShutInv'
  BY <1>4 DEF Read, Deliver, CopySubs, Publish, ReadFails
<1>5. ASSUME Close \/ Take \/ Respond \/ SendEvent \/ Die
      PROVE  ShutInv'
  BY <1>5 DEF Close, Take, Respond, SendEvent, Die
<1> QED
  BY <1>1, <1>2, <1>3, <1>4, <1>5 DEF Next, CallStep, ReaderStep, AdapterStep

\* Both hold whatever callers, adapter and Close do.
LEMMA ServiceInvariance == Spec => []ServiceInv
<1>1. Init => ServiceInv
  BY DEF Init, ServiceInv, WayInv, ShutInv, Back, OnStream, InHand, Once, Used
<1>2. Inv /\ ServiceInv /\ Next => ServiceInv'
  BY WayNext, ShutNext DEF ServiceInv
<1>3. ServiceInv /\ UNCHANGED vars => ServiceInv'
  BY DEF ServiceInv, WayInv, ShutInv, Back, OnStream, InHand, Once, Used, vars,
     clientVars, channelVars, callVars, readerVars, adapterVars
<1> QED
  BY <1>1, <1>2, <1>3, Invariance, PTL DEF Spec

\* Every step of the client is one of the service, or one that it does not show.
LEMMA ServiceStep ==
  Inv /\ ServiceInv /\ [Next]_vars => [Service!ServiceNext]_(Service!serviceVars)
<1> SUFFICES ASSUME Inv, ServiceInv, [Next]_vars
             PROVE  [Service!ServiceNext]_(Service!serviceVars)
  OBVIOUS
<1> USE DEF clientVars, channelVars, callVars, readerVars, adapterVars
<1> DEFINE hidden == UNCHANGED <<at, mine, result, seq, inbox, Back, Whole>>
<1>0. OnStream = Wire(stream) \ {Event} /\ OnStream' = Wire(stream') \ {Event}
  BY DEF OnStream, Wire
<1>1. ASSUME hidden
      PROVE  UNCHANGED Service!serviceVars
  BY <1>1 DEF Service!serviceVars, Back
<1>2. ASSUME UNCHANGED <<stream, reader, msg, filled>>
      PROVE  UNCHANGED Back
  BY <1>2 DEF Back, OnStream, InHand
<1>3. ASSUME NEW c \in Callers, Send(c)
      PROVE  Service!Begin(c) \/ Service!Refuse(c)
  <2>1. UNCHANGED <<Back, Whole, inbox>>
    BY <1>2, <1>3 DEF Send, Whole
  <2>2. CASE closed
    <3>1. ~Whole
      BY <2>2 DEF Whole
    <3> QED
      BY <1>3, <2>1, <2>2, <3>1
         DEF Send, Return, Failed, Service!Refuse, Service!End, Service!Error, Back
  <2>3. CASE ~closed
    BY <1>3, <2>1, <2>3 DEF Send, NoOutcome, Service!Begin, Service!Nothing, Back
  <2> QED
    BY <2>2, <2>3
<1>4. ASSUME NEW c \in Callers, Write(c)
      PROVE  Service!Ask(c)
  <2>1. UNCHANGED <<Back, Whole>>
    BY <1>2, <1>4 DEF Write, Whole
  <2>2. ~alive => ~Whole
    BY DEF Whole
  <2> QED
    BY <1>4, <2>1, <2>2 DEF Write, Service!Ask, Back
<1>5. ASSUME NEW c \in Callers, WriteFails(c) \/ CallTimesOut(c)
      PROVE  Service!Fail(c)
  <2>1. UNCHANGED <<Back, Whole>>
    BY <1>2, <1>5 DEF WriteFails, CallTimesOut, Whole
  <2>2. ~alive \/ closed => ~Whole
    BY DEF Whole
  <2> QED
    BY <1>5, <2>1, <2>2 DEF WriteFails, CallTimesOut, Return, Failed, Service!Fail,
       Service!End, Service!Error, Back
<1>6. ASSUME NEW c \in Callers, CallReturns(c)
      PROVE  Service!Succeed(c) \/ Service!Fail(c)
  <2>1. UNCHANGED <<Whole, seq, inbox, OnStream, InHand>>
    BY <1>6 DEF CallReturns, Whole, OnStream, InHand
  <2>2. CASE mine[c] \in filled
    <3>1. mine[c] \notin OnStream \cup InHand
      BY <2>2 DEF ServiceInv, WayInv, Inv, SeqInv, ResponsesSafe, InHand
    <3>2. Back' = Back \ {mine[c]} /\ mine[c] \in Back
      BY <1>6, <2>1, <2>2, <3>1 DEF CallReturns, Back
    <3> QED
      BY <1>6, <2>1, <2>2, <3>2 DEF CallReturns, Return, Service!Succeed, Service!End,
         Service!Answer, Back
  <2>3. CASE mine[c] \notin filled
    <3>1. ~Whole
      BY <1>6, <2>3 DEF CallReturns, ServiceInv, ShutInv, Whole
    <3>2. UNCHANGED Back
      BY <1>6, <2>1, <2>3 DEF CallReturns, Back
    <3> QED
      BY <1>6, <2>1, <2>3, <3>1, <3>2 DEF CallReturns, Return, Failed, Service!Fail,
         Service!End, Service!Error, Back
  <2> QED
    BY <2>2, <2>3
<1>7. ASSUME Read
      PROVE  hidden \/ \E n \in Back : Service!Lose(n)
  <2> DEFINE n == Head(stream)
  <2>1. stream \in Seq(Message) /\ stream # <<>> /\ stream' = Tail(stream) /\ Once(stream)
    BY <1>7 DEF Read, Inv, TypeOK, ServiceInv, WayInv
  <2>2. Wire(stream) = Wire(stream') \cup {n} /\ (n # Event => n \notin Wire(stream'))
    BY <2>1, WireSteps, OnceSteps
  <2>3. UNCHANGED <<at, mine, result, seq, inbox, filled, Whole>> /\ InHand = {}
    BY <1>7 DEF Read, Whole, InHand
  <2>4. n \in pending => InHand' = {n} /\ n # Event
    BY <1>7, Constants DEF Read, InHand, Inv, TypeOK, Event
  <2>5. n \notin pending => InHand' = {}
    BY <1>7 DEF Read, InHand
  <2> HIDE DEF n
  <2>6. CASE n \in pending \/ n = Event
    <3>1. UNCHANGED Back
      BY <1>0, <2>2, <2>3, <2>4, <2>5, <2>6 DEF Back
    <3> QED
      BY <2>3, <3>1
  <2>7. CASE n \notin pending /\ n # Event
    <3>1. n \in OnStream /\ n \notin filled
      BY <1>0, <2>2, <2>7 DEF ServiceInv, WayInv
    <3>2. Back' = Back \ {n} /\ n \in Back
      BY <1>0, <2>2, <2>3, <2>5, <2>7, <3>1 DEF Back
    <3>3. ASSUME NEW c \in Callers, at[c] # "idle", mine[c] = n
          PROVE  ~Whole
      <4>1. reader # "deliver"
        BY <1>7 DEF Read
      <4>2. n \in shut \ filled
        BY <2>7, <3>1, <3>3, <4>1 DEF Inv, CallInv
      <4> QED
        BY <3>3, <4>2 DEF ServiceInv, ShutInv, Whole
    <3>4. Service!Lose(n)
      BY <2>3, <3>2, <3>3 DEF Service!Lose, Back
    <3> QED
      BY <3>2, <3>4
  <2> QED
    BY <2>6, <2>7
<1>8. ASSUME Deliver
      PROVE  hidden
  <2>1. UNCHANGED <<at, mine, result, seq, inbox, OnStream, Whole>>
    BY <1>8 DEF Deliver, OnStream, Whole
  <2>2. UNCHANGED Back
    BY <1>8, <2>1 DEF Deliver, Back, InHand
  <2> QED
    BY <2>1, <2>2
<1>9. ASSUME CopySubs \/ Publish \/ Take \/ SendEvent
      PROVE  hidden
  <2>1. UNCHANGED <<at, mine, result, seq, inbox, filled, InHand, Whole>>
    <3>1. UNCHANGED <<at, mine, result, seq, inbox, filled, closed, alive>>
      BY <1>9 DEF CopySubs, Publish, Take, SendEvent
    <3>2. /\ UNCHANGED reader \/ {reader, reader'} \subseteq {"read", "subs", "publish"}
          /\ UNCHANGED msg
      BY <1>9 DEF CopySubs, Publish, Take, SendEvent
    <3> QED
      BY <3>1, <3>2 DEF InHand, Whole
  <2>2. UNCHANGED OnStream
    <3>1. CASE SendEvent
      <4>1. Wire(stream') = Wire(stream) \cup {Event}
        BY <3>1, Constants, WireSteps DEF SendEvent, Inv, TypeOK
      <4> QED
        BY <1>0, <4>1
    <3>2. CASE ~SendEvent
      BY <1>9, <3>2 DEF CopySubs, Publish, Take, OnStream
    <3> QED
      BY <3>1, <3>2
  <2> QED
    BY <2>1, <2>2 DEF Back
<1>10. ASSUME ReadFails \/ Close \/ Die
      PROVE  Service!Break
  <2>1. UNCHANGED <<at, mine, result, seq, inbox, filled, OnStream, InHand>> /\ ~Whole'
    BY <1>10 DEF ReadFails, Close, Die, OnStream, InHand, Whole
  <2> QED
    BY <2>1 DEF Service!Break
<1>11. ASSUME Respond
      PROVE  \E n \in inbox : Service!Reply(n)
  <2>1. PICK n \in inbox : stream' = Append(stream, n) /\ inbox' = inbox \ {n}
    BY <1>11 DEF Respond
  <2>2. n \in Message /\ n # Event
    BY Constants DEF Inv, TypeOK, Event
  <2>3. Wire(stream') = Wire(stream) \cup {n}
    BY <2>1, <2>2, WireSteps DEF Inv, TypeOK
  <2>4. UNCHANGED <<at, mine, result, seq, filled, InHand, Whole>>
    BY <1>11 DEF Respond, InHand, Whole
  <2>5. Back' = Back \cup {n}
    BY <1>0, <2>2, <2>3, <2>4 DEF Back
  <2>6. Service!Reply(n)
    BY <2>1, <2>4, <2>5 DEF Service!Reply, Back
  <2> QED
    BY <2>6
<1>12. CASE UNCHANGED vars
  <2>1. hidden
    BY <1>2, <1>12 DEF vars, Whole
  <2> QED
    BY <1>1, <2>1
<1>13. CASE Next
  <2> HIDE DEF hidden
  <2>1. hidden \/ Service!ServiceNext
    BY <1>3, <1>4, <1>5, <1>6, <1>7, <1>8, <1>9, <1>10, <1>11, <1>13
       DEF Next, CallStep, ReaderStep, AdapterStep, Service!ServiceNext, Back
  <2> QED
    BY <1>1, <2>1
<1> QED
  BY <1>12, <1>13

\* Table, channels and reader implement the service that the handlers rely on.
THEOREM Refinement == Spec => ImplementsService
<1>1. Init => Service!ServiceInit
  BY DEF Init, NoOutcome, OnStream, InHand, Whole, Service!ServiceInit, Service!Nothing
<1> QED
  BY <1>1, ServiceStep, Invariance, ServiceInvariance, PTL
     DEF Spec, ImplementsService, Service!ServiceSpec

\* A call that ends on a whole connection, and not by its timer, has the answer to its
\* own request: Close, the end of the stream and late responses of other calls never
\* make one fail before its time.
CallEndsWell ==
  \A c \in Callers :
    at[c] # "idle" /\ at'[c] = "idle" /\ Whole =>
      result'[c] = [st |-> "ok", req |-> mine[c]]

\* It follows from the service alone.
THEOREM CallsEndWell == ASSUME ~Timeouts PROVE Spec => [][CallEndsWell]_vars
<1>1. Inv /\ [Service!ServiceNext]_(Service!serviceVars) => CallEndsWell
  <2> SUFFICES ASSUME Inv, [Service!ServiceNext]_(Service!serviceVars), NEW c \in Callers,
                      at[c] # "idle", at'[c] = "idle", Whole
               PROVE  result'[c] = [st |-> "ok", req |-> mine[c]]
    BY DEF CallEndsWell
  <2>1. at \in [Callers -> {"idle", "writing", "waiting"}]
        /\ result \in [Callers -> Outcome]
    BY DEF Inv, TypeOK
  <2>2. ~(UNCHANGED Service!serviceVars)
    BY DEF Service!serviceVars
  <2>3. ASSUME NEW d \in Callers,
               Service!Begin(d) \/ Service!Refuse(d) \/ Service!Ask(d)
        PROVE  FALSE
    BY <2>1, <2>3 DEF Service!Begin, Service!Refuse, Service!Ask
  <2>4. ASSUME NEW d \in Callers, Service!Fail(d)
        PROVE  FALSE
    BY <2>4 DEF Service!Fail
  <2>5. ASSUME NEW d \in Callers, Service!Succeed(d)
        PROVE  result'[c] = [st |-> "ok", req |-> mine[c]]
    BY <2>1, <2>5 DEF Service!Succeed, Service!End, Service!Answer
  <2>6. ASSUME Service!Break \/ (\E n \in inbox : Service!Reply(n))
                 \/ \E n \in OnStream \cup InHand \cup filled : Service!Lose(n)
        PROVE  FALSE
    BY <2>6 DEF Service!Break, Service!Reply, Service!Lose
  <2> QED
    BY <2>2, <2>3, <2>4, <2>5, <2>6 DEF Service!ServiceNext
<1>2. Inv /\ ServiceInv /\ [Next]_vars => [CallEndsWell]_vars
  BY <1>1, ServiceStep
<1> QED
  BY <1>2, Invariance, ServiceInvariance, PTL DEF Spec

=============================================================================
