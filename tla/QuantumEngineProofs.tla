------------------------ MODULE QuantumEngineProofs ------------------------
(***************************************************************************)
(* Proofs about QuantumEngine, for any pace of prompts, any timeout and    *)
(* any high-water mark: the client hands out at most one reply per prompt, *)
(* each newer than the one before it, and so never catches up.             *)
(***************************************************************************)
EXTENDS QuantumEngine, TLAPS

Increasing(s) == \A i, j \in 1..Len(s) : i < j => s[i] < s[j]

\* What is under way is in the order of the prompts and newer than the reply
\* handed out last; replies are older than prompts not yet answered.
InOrder ==
    /\ Increasing(toEngine) /\ Increasing(toAgent)
    /\ \A i \in 1..Len(toEngine) : last.prompt < toEngine[i]
    /\ \A j \in 1..Len(toAgent) : last.prompt < toAgent[j]
    /\ \A i \in 1..Len(toEngine), j \in 1..Len(toAgent) : toEngine[i] < toAgent[j]

\* A pending prompt was sent after the last reply was handed out.
OnePending == pending => last.at < sends

\* While no prompt is lost, what is under way are the prompts since the one
\* answered last, without a gap.
NoGap ==
    ~lost =>
        /\ \A i \in 1..Len(toEngine) : toEngine[i] = last.prompt + i
        /\ \A j \in 1..Len(toAgent) : toAgent[j] = last.prompt + Len(toEngine) + j
        /\ sends = last.prompt + Len(toEngine) + Len(toAgent)

CanSend == pc = "send" => sends < MaxSends

IInv == TypeOK /\ CanSend /\ InOrder /\ OnePending /\ NoGap

LEMMA Constants ==
    /\ SendEvery \in Nat \ {0} /\ Timeout \in Nat /\ Horizon \in Nat /\ HWM \in Nat
    /\ MaxSends \in Nat /\ MaxTime \in Nat
BY EngineAssumption

\* A queue of ordinals after one is appended, and after its head is taken.
LEMMA Appended ==
    ASSUME NEW n \in Nat, NEW s \in Seq(1..n), NEW x \in 1..(n + 1), NEW q, q = Append(s, x)
    PROVE  /\ q \in Seq(1..(n + 1)) /\ Len(q) = Len(s) + 1 /\ Len(s) \in Nat
           /\ q[Len(s) + 1] = x /\ \A i \in 1..Len(s) : q[i] = s[i] /\ s[i] \in 1..n
<1>1. 1..n \subseteq 1..(n + 1)
  OBVIOUS
<1>2. s \in Seq(1..(n + 1))
  BY <1>1
<1> QED
  BY <1>2

LEMMA Taken ==
    ASSUME NEW n \in Nat, NEW s \in Seq(1..n), s # <<>>, NEW q, q = Tail(s)
    PROVE  /\ q \in Seq(1..n) /\ Len(s) \in Nat /\ Len(s) > 0 /\ Len(q) = Len(s) - 1
           /\ Head(s) = s[1] /\ s[1] \in 1..n
           /\ \A i \in 1..Len(q) : q[i] = s[i + 1] /\ s[i + 1] \in 1..n
OBVIOUS

LEMMA Wider == ASSUME NEW n \in Nat, NEW s \in Seq(1..n) PROVE s \in Seq(1..(n + 1))
<1>1. 1..n \subseteq 1..(n + 1)
  OBVIOUS
<1> QED
  BY <1>1

LEMMA InitInv == Init => IInv
<1> SUFFICES ASSUME Init PROVE IInv
  OBVIOUS
<1>1. toAgent = <<>> /\ toEngine = <<>> /\ Len(toAgent) = 0 /\ Len(toEngine) = 0
  BY DEF Init
<1>2. TypeOK
  <2>1. toAgent \in Seq(1..sends) /\ toEngine \in Seq(1..sends)
    BY <1>1
  <2>2. now \in 0..MaxTime /\ sends \in 0..MaxSends /\ tick \in 0..(SendEvery - 1)
    BY Constants DEF Init
  <2>3. sentAt \in 0..now /\ last \in [prompt : 0..sends, at : 0..sends]
    BY DEF Init
  <2>4. /\ pc \in {"tick", "send", "poll", "heartbeat", "done"}
        /\ pending \in BOOLEAN /\ lost \in BOOLEAN
    BY DEF Init
  <2>5. Len(toAgent) <= HWM /\ Len(toEngine) <= HWM
    BY <1>1, Constants
  <2> QED
    BY <2>1, <2>2, <2>3, <2>4, <2>5 DEF TypeOK
<1>3. InOrder /\ NoGap /\ OnePending /\ CanSend
  BY <1>1 DEF Init, InOrder, Increasing, NoGap, OnePending, CanSend
<1> QED
  BY <1>2, <1>3 DEF IInv

\* Steps that leave the queues and the replies alone.
LEMMA QuietStep ==
    ASSUME IInv, Clock \/ Tick \/ PollIdle \/ PollNothing \/ Heartbeat
    PROVE  IInv'
<1> USE DEF client, queues
<1>1. UNCHANGED <<sends, toAgent, toEngine, last, lost, sentAt>>
  BY DEF Clock, Tick, PollIdle, PollNothing, Heartbeat
<1>2. TypeOK
  BY DEF IInv
<1>3. TypeOK'
  <2>1. CASE Clock
    BY <1>2, <2>1, Constants DEF Clock, TypeOK
  <2>2. CASE Tick
    <3>1. tick' \in 0..(SendEvery - 1)
      BY <1>2, <2>2, Constants DEF Tick, TypeOK
    <3>2. pc' \in {"send", "poll"}
      BY <2>2 DEF Tick
    <3>3. /\ now' = now /\ pending' = pending /\ sentAt' = sentAt /\ sends' = sends
          /\ toAgent' = toAgent /\ toEngine' = toEngine /\ last' = last /\ lost' = lost
      BY <2>2 DEF Tick
    <3> QED
      BY <1>2, <3>1, <3>2, <3>3 DEF TypeOK
  <2>3. CASE PollIdle \/ PollNothing \/ Heartbeat
    <3>1. pending' \in BOOLEAN
      <4>1. CASE PollNothing
        BY <4>1 DEF PollNothing
      <4>2. CASE PollIdle \/ Heartbeat
        BY <1>2, <4>2 DEF PollIdle, Heartbeat, TypeOK
      <4> QED
        BY <2>3, <4>1, <4>2
    <3>2. /\ pc' \in {"tick", "heartbeat", "done"} /\ now' = now /\ tick' = tick
          /\ sentAt' = sentAt /\ sends' = sends
          /\ toAgent' = toAgent /\ toEngine' = toEngine /\ last' = last /\ lost' = lost
      BY <2>3 DEF PollIdle, PollNothing, Heartbeat
    <3> QED
      BY <1>2, <3>1, <3>2 DEF TypeOK
  <2> QED
    BY <2>1, <2>2, <2>3
<1>4. CanSend'
  BY DEF IInv, CanSend, Clock, Tick, PollIdle, PollNothing, Heartbeat
<1>5. OnePending'
  BY DEF IInv, OnePending, Clock, Tick, PollIdle, PollNothing, Heartbeat
<1>6. InOrder' /\ NoGap'
  BY <1>1 DEF IInv, InOrder, Increasing, NoGap
<1> QED
  BY <1>3, <1>4, <1>5, <1>6 DEF IInv

LEMMA SendStep == ASSUME IInv, SendAsync PROVE IInv'
<1>1. /\ TypeOK /\ sends < MaxSends /\ sends \in Nat /\ last.at \in 0..sends
      /\ toAgent \in Seq(1..sends) /\ toEngine \in Seq(1..sends) /\ last.prompt \in 0..sends
  BY Constants DEF IInv, TypeOK, CanSend, SendAsync
<1>2. /\ pc = "send" /\ pc' = "poll" /\ sends' = sends + 1 /\ sentAt' = now
      /\ pending' = TRUE /\ now' = now /\ tick' = tick
      /\ toEngine' = toEngine /\ last' = last
  BY DEF SendAsync
<1>3. CanSend' /\ OnePending'
  BY <1>1, <1>2 DEF CanSend, OnePending
<1>4. toEngine' \in Seq(1..sends') /\ last' \in [prompt : 0..sends', at : 0..sends']
  BY <1>1, <1>2, Wider DEF TypeOK
<1>5. CASE Len(toAgent) < HWM
  <2>1. toAgent' = Append(toAgent, sends + 1) /\ lost' = lost
    BY <1>5 DEF SendAsync
  <2>2. /\ toAgent' \in Seq(1..(sends + 1)) /\ Len(toAgent') = Len(toAgent) + 1
        /\ Len(toAgent) \in Nat /\ toAgent'[Len(toAgent) + 1] = sends + 1
        /\ \A i \in 1..Len(toAgent) : toAgent'[i] = toAgent[i] /\ toAgent[i] \in 1..sends
    BY <1>1, <2>1, Appended, SMTT(40)
  <2>3. \A i \in 1..Len(toEngine) : toEngine[i] \in 1..sends
    BY <1>1
  <2>4. TypeOK'
    BY <1>1, <1>2, <1>4, <1>5, <2>1, <2>2, Constants DEF TypeOK
  <2>5. InOrder'
    <3>1. ASSUME NEW j \in 1..Len(toAgent')
          PROVE  \/ j \in 1..Len(toAgent) /\ toAgent'[j] = toAgent[j]
                 \/ j = Len(toAgent) + 1 /\ toAgent'[j] = sends + 1
      BY <2>2
    <3>2. InOrder
      BY DEF IInv
    <3>3. Increasing(toAgent')
      <4> SUFFICES ASSUME NEW i \in 1..Len(toAgent'), NEW j \in 1..Len(toAgent'), i < j
                   PROVE  toAgent'[i] < toAgent'[j]
        BY DEF Increasing
      <4>1. i \in 1..Len(toAgent) /\ toAgent'[i] = toAgent[i] /\ toAgent[i] \in 1..sends
        BY <2>2
      <4>2. CASE j \in 1..Len(toAgent) /\ toAgent'[j] = toAgent[j]
        BY <3>2, <4>1, <4>2 DEF InOrder, Increasing
      <4>3. CASE toAgent'[j] = sends + 1
        BY <1>1, <4>1, <4>3
      <4> QED
        BY <3>1, <4>2, <4>3
    <3>4. last'.prompt = last.prompt /\ last.prompt < sends + 1
      BY <1>1, <1>2
    <3>5. \A j \in 1..Len(toAgent') : last'.prompt < toAgent'[j]
      BY <3>1, <3>2, <3>4 DEF InOrder
    <3>6. ASSUME NEW i \in 1..Len(toEngine), NEW j \in 1..Len(toAgent')
          PROVE  toEngine[i] < toAgent'[j]
      <4>1. toEngine[i] < sends + 1
        BY <1>1, <2>3, SMTT(40)
      <4> QED
        BY <3>1, <3>2, <4>1 DEF InOrder
    <3> QED
      BY <1>2, <3>2, <3>3, <3>5, <3>6 DEF InOrder, Increasing
  <2>6. NoGap'
    <3>1. CASE lost
      BY <2>1, <3>1 DEF NoGap
    <3>2. CASE ~lost
      <4>1. Len(toEngine) \in Nat
        BY <1>1
      <4>2. sends = last.prompt + Len(toEngine) + Len(toAgent)
        BY <3>2 DEF IInv, NoGap
      <4> QED
        BY <1>1, <1>2, <2>1, <2>2, <3>2, <4>1, <4>2, SMTT(40) DEF IInv, NoGap
    <3> QED
      BY <3>1, <3>2
  <2> QED
    BY <1>3, <2>4, <2>5, <2>6 DEF IInv
<1>6. CASE ~(Len(toAgent) < HWM)
  <2>1. toAgent' = toAgent /\ lost' = TRUE
    BY <1>6 DEF SendAsync
  <2>2. toAgent' \in Seq(1..sends')
    BY <1>1, <1>2, <2>1, Wider
  <2>3. TypeOK'
    BY <1>1, <1>2, <1>4, <2>1, <2>2, Constants DEF TypeOK
  <2>4. InOrder' /\ NoGap'
    BY <1>2, <2>1 DEF IInv, InOrder, Increasing, NoGap
  <2> QED
    BY <1>3, <2>3, <2>4 DEF IInv
<1> QED
  BY <1>5, <1>6

\* try_recv takes the oldest reply, which is newer than the one before.
LEMMA ReplyStep ==
    ASSUME IInv, PollReply
    PROVE  /\ IInv' /\ last'.at > last.at /\ last'.prompt > last.prompt
           /\ ~lost => last'.at - last'.prompt >= last.at - last.prompt
<1>1. /\ TypeOK /\ sends \in Nat /\ toAgent \in Seq(1..sends) /\ toEngine \in Seq(1..sends)
      /\ last.prompt \in 0..sends /\ last.at \in 0..sends
  BY Constants DEF IInv, TypeOK
<1>2. /\ toEngine # <<>> /\ toEngine' = Tail(toEngine) /\ toAgent' = toAgent
      /\ last' = [prompt |-> Head(toEngine), at |-> sends]
      /\ pending /\ pending' = FALSE /\ pc' = "heartbeat"
      /\ UNCHANGED <<now, tick, sentAt, sends, lost>>
  BY DEF PollReply
<1>3. /\ toEngine' \in Seq(1..sends) /\ Len(toEngine) \in Nat /\ Len(toEngine) > 0
      /\ Len(toEngine') = Len(toEngine) - 1
      /\ Head(toEngine) = toEngine[1] /\ toEngine[1] \in 1..sends
      /\ \A i \in 1..Len(toEngine') : toEngine'[i] = toEngine[i + 1] /\ toEngine[i + 1] \in 1..sends
  <2>1. Len(toEngine) \in Nat /\ Len(toEngine) > 0
    BY <1>1, <1>2, SMTT(40)
  <2>2. /\ toEngine' \in Seq(1..sends) /\ Len(toEngine') = Len(toEngine) - 1
        /\ \A i \in 1..Len(toEngine') : toEngine'[i] = toEngine[i + 1]
    BY <1>1, <1>2, Taken
  <2>3. \A i \in 1..Len(toEngine) : toEngine[i] \in 1..sends
    BY <1>1
  <2>4. \A i \in 1..Len(toEngine') : i + 1 \in 1..Len(toEngine)
    BY <2>1, <2>2
  <2>5. 1 \in 1..Len(toEngine) /\ Head(toEngine) = toEngine[1]
    BY <1>1, <2>1
  <2> QED
    BY <2>1, <2>2, <2>3, <2>4, <2>5
<1>4. Len(toAgent) \in Nat /\ \A j \in 1..Len(toAgent) : toAgent[j] \in 1..sends
  BY <1>1
<1>5. last'.prompt = toEngine[1] /\ last'.at = sends
  BY <1>2, <1>3
<1>6. last'.prompt > last.prompt /\ last'.at > last.at
  BY <1>1, <1>2, <1>3, <1>5 DEF IInv, InOrder, OnePending
<1>7. ~lost => last'.prompt = last.prompt + 1
  BY <1>1, <1>3, <1>5 DEF IInv, NoGap
<1>8. TypeOK'
  <2>1. last' \in [prompt : 0..sends', at : 0..sends']
    BY <1>1, <1>2, <1>3
  <2>2. Len(toEngine') <= HWM
    BY <1>1, <1>3, Constants DEF TypeOK
  <2> QED
    BY <1>1, <1>2, <1>3, <2>1, <2>2 DEF TypeOK
<1>9. InOrder'
  BY <1>1, <1>2, <1>3, <1>4, <1>5, SMTT(40) DEF IInv, InOrder, Increasing
<1>10. NoGap'
  <2> SUFFICES ASSUME ~lost'
               PROVE  /\ \A i \in 1..Len(toEngine') : toEngine'[i] = last'.prompt + i
                      /\ \A j \in 1..Len(toAgent') :
                           toAgent'[j] = last'.prompt + Len(toEngine') + j
                      /\ sends' = last'.prompt + Len(toEngine') + Len(toAgent')
    BY DEF NoGap
  <2>1. /\ \A i \in 1..Len(toEngine) : toEngine[i] = last.prompt + i
        /\ \A j \in 1..Len(toAgent) : toAgent[j] = last.prompt + Len(toEngine) + j
        /\ sends = last.prompt + Len(toEngine) + Len(toAgent)
    BY <1>2 DEF IInv, NoGap
  <2>2. last'.prompt = last.prompt + 1
    BY <1>2, <1>7
  <2>3. ASSUME NEW i \in 1..Len(toEngine')
        PROVE  toEngine'[i] = last'.prompt + i
    <3>1. i + 1 \in 1..Len(toEngine) /\ i \in Nat /\ last.prompt \in Nat
      BY <1>1, <1>3, SMTT(40)
    <3>2. toEngine'[i] = toEngine[i + 1]
      BY <1>3
    <3>3. toEngine[i + 1] = last.prompt + (i + 1)
      BY <2>1, <3>1
    <3>4. toEngine'[i] = last.prompt + (i + 1)
      BY <3>2, <3>3
    <3>5. last.prompt + (i + 1) = (last.prompt + 1) + i
      BY <3>1
    <3> QED
      BY <2>2, <3>4, <3>5
  <2>4. ASSUME NEW j \in 1..Len(toAgent')
        PROVE  toAgent'[j] = last'.prompt + Len(toEngine') + j
    <3>1. toAgent'[j] = last.prompt + Len(toEngine) + j /\ j \in Nat
      BY <1>2, <1>4, <2>1
    <3> QED
      BY <1>1, <1>3, <2>2, <3>1, SMTT(40)
  <2>5. sends' = last'.prompt + Len(toEngine') + Len(toAgent')
    <3>1. sends' = sends /\ Len(toAgent') = Len(toAgent)
      BY <1>2
    <3> QED
      BY <1>1, <1>3, <1>4, <2>1, <2>2, <3>1, SMTT(40)
  <2> QED
    BY <2>3, <2>4, <2>5
<1>11. CanSend' /\ OnePending'
  BY <1>2 DEF CanSend, OnePending
<1>12. ~lost => last'.at - last'.prompt >= last.at - last.prompt
  BY <1>1, <1>5, <1>6, <1>7
<1> QED
  BY <1>6, <1>8, <1>9, <1>10, <1>11, <1>12 DEF IInv

LEMMA AgentStep == ASSUME IInv, Agent PROVE IInv'
<1>1. /\ TypeOK /\ sends \in Nat /\ toAgent \in Seq(1..sends) /\ toEngine \in Seq(1..sends)
      /\ last.prompt \in 0..sends /\ CanSend /\ OnePending
  BY Constants DEF IInv, TypeOK
<1>2. /\ toAgent # <<>> /\ toAgent' = Tail(toAgent)
      /\ UNCHANGED <<now, pc, tick, pending, sentAt, sends, last>>
  BY DEF Agent, AgentReply, AgentLoses, client
<1>0. toAgent \in Seq(1..sends) /\ sends \in Nat /\ toAgent # <<>> /\ toAgent' = Tail(toAgent)
  BY <1>1, <1>2
<1>3. /\ toAgent' \in Seq(1..sends) /\ Len(toAgent) \in Nat /\ Len(toAgent) > 0
      /\ Len(toAgent') = Len(toAgent) - 1
      /\ Head(toAgent) = toAgent[1] /\ toAgent[1] \in 1..sends
      /\ \A i \in 1..Len(toAgent') : toAgent'[i] = toAgent[i + 1] /\ toAgent[i + 1] \in 1..sends
  BY <1>0, Taken, SMTT(40)
<1>4. CanSend' /\ OnePending'
  BY <1>1, <1>2 DEF CanSend, OnePending
<1>5. CASE AgentReply
  <2>1. toEngine' = Append(toEngine, toAgent[1]) /\ Len(toEngine) < HWM /\ lost' = lost
    BY <1>3, <1>5 DEF AgentReply
  <2>2. toEngine' \in Seq(1..sends)
    BY <1>1, <1>3, <2>1
  <2>3. /\ Len(toEngine') = Len(toEngine) + 1 /\ Len(toEngine) \in Nat
        /\ toEngine'[Len(toEngine) + 1] = toAgent[1]
        /\ \A i \in 1..Len(toEngine) : toEngine'[i] = toEngine[i] /\ toEngine[i] \in 1..sends
    BY <1>1, <1>3, <2>1, SMTT(40)
  <2>4. TypeOK'
    BY <1>1, <1>2, <1>3, <2>1, <2>2, <2>3, Constants DEF TypeOK
  <2>5. InOrder'
    <3>1. ASSUME NEW i \in 1..Len(toEngine')
          PROVE  \/ i \in 1..Len(toEngine) /\ toEngine'[i] = toEngine[i]
                 \/ i = Len(toEngine) + 1 /\ toEngine'[i] = toAgent[1]
      BY <2>3
    <3>2. InOrder
      BY DEF IInv
    <3>3. Increasing(toEngine')
      <4> SUFFICES ASSUME NEW i \in 1..Len(toEngine'), NEW j \in 1..Len(toEngine'), i < j
                   PROVE  toEngine'[i] < toEngine'[j]
        BY DEF Increasing
      <4>1. i \in 1..Len(toEngine) /\ toEngine'[i] = toEngine[i]
        BY <2>3
      <4>2. 1 \in 1..Len(toAgent)
        BY <1>3
      <4> QED
        BY <3>1, <3>2, <4>1, <4>2 DEF InOrder, Increasing
    <3>4. \A j \in 1..Len(toAgent') :
            j + 1 \in 1..Len(toAgent) /\ toAgent'[j] = toAgent[j + 1] /\ 1 < j + 1
      BY <1>3
    <3>5. 1 \in 1..Len(toAgent)
      BY <1>3
    <3>6. Increasing(toAgent')
      <4> SUFFICES ASSUME NEW i \in 1..Len(toAgent'), NEW j \in 1..Len(toAgent'), i < j
                   PROVE  toAgent'[i] < toAgent'[j]
        BY DEF Increasing
      <4>1. i + 1 < j + 1
        BY <1>3
      <4> QED
        BY <3>2, <3>4, <4>1 DEF InOrder, Increasing
    <3>7. /\ \A i \in 1..Len(toEngine') : last'.prompt < toEngine'[i]
          /\ \A j \in 1..Len(toAgent') : last'.prompt < toAgent'[j]
      BY <1>2, <3>1, <3>2, <3>4, <3>5 DEF InOrder
    <3>8. \A i \in 1..Len(toEngine'), j \in 1..Len(toAgent') : toEngine'[i] < toAgent'[j]
      BY <3>1, <3>2, <3>4, <3>5 DEF InOrder, Increasing
    <3> QED
      BY <3>3, <3>6, <3>7, <3>8 DEF InOrder
  <2>6. NoGap'
    <3> SUFFICES ASSUME ~lost'
                 PROVE  /\ \A i \in 1..Len(toEngine') : toEngine'[i] = last'.prompt + i
                        /\ \A j \in 1..Len(toAgent') :
                             toAgent'[j] = last'.prompt + Len(toEngine') + j
                        /\ sends' = last'.prompt + Len(toEngine') + Len(toAgent')
      BY DEF NoGap
    <3>1. /\ \A i \in 1..Len(toEngine) : toEngine[i] = last.prompt + i
          /\ \A j \in 1..Len(toAgent) : toAgent[j] = last.prompt + Len(toEngine) + j
          /\ sends = last.prompt + Len(toEngine) + Len(toAgent)
      BY <2>1 DEF IInv, NoGap
    <3>2. toAgent[1] = last.prompt + Len(toEngine) + 1
      BY <1>3, <3>1
    <3>3. \A j \in 1..Len(toAgent') : j + 1 \in 1..Len(toAgent) /\ j \in Nat
      BY <1>3
    <3>4. ASSUME NEW j \in 1..Len(toAgent')
          PROVE  toAgent'[j] = last'.prompt + Len(toEngine') + j
      <4>1. toAgent'[j] = toAgent[j + 1]
        BY <1>3
      <4>2. toAgent[j + 1] = last.prompt + Len(toEngine) + (j + 1)
        BY <3>1, <3>3
      <4>3. last' = last /\ Len(toEngine') = Len(toEngine) + 1
        BY <1>2, <2>3
      <4>4. j \in Nat /\ Len(toEngine) \in Nat /\ last.prompt \in Nat
        BY <1>1, <2>3, <3>3
      <4> QED
        BY <4>1, <4>2, <4>3, <4>4, SMTT(40)
    <3>5. ASSUME NEW i \in 1..Len(toEngine')
          PROVE  toEngine'[i] = last'.prompt + i
      <4>1. last' = last
        BY <1>2
      <4>2. CASE i \in 1..Len(toEngine)
        BY <2>3, <3>1, <4>1, <4>2
      <4>3. CASE i = Len(toEngine) + 1
        <5>1. toEngine'[i] = toAgent[1] /\ Len(toEngine) \in Nat /\ last.prompt \in Nat
          BY <1>1, <2>3, <4>3
        <5> QED
          BY <3>2, <4>1, <4>3, <5>1
      <4> QED
        BY <2>3, <4>2, <4>3
    <3>6. sends' = last'.prompt + Len(toEngine') + Len(toAgent')
      <4>1. sends' = sends /\ last' = last
        BY <1>2
      <4>2. sends = last.prompt + Len(toEngine) + Len(toAgent)
        BY <3>1
      <4>3. Len(toEngine) \in Nat /\ Len(toAgent) \in Nat /\ last.prompt \in Nat
        BY <1>1, <1>3, <2>3
      <4>4. Len(toEngine') = Len(toEngine) + 1 /\ Len(toAgent') = Len(toAgent) - 1
        BY <1>3, <2>3
      <4> QED
        BY <4>1, <4>2, <4>3, <4>4, SMTT(40)
    <3> QED
      BY <3>4, <3>5, <3>6
  <2> QED
    BY <1>4, <2>4, <2>5, <2>6 DEF IInv
<1>6. CASE AgentLoses
  <2>1. toEngine' = toEngine /\ lost' = TRUE
    BY <1>6 DEF AgentLoses
  <2>2. Len(toEngine) \in Nat /\ \A i \in 1..Len(toEngine) : toEngine[i] \in 1..sends
    BY <1>1
  <2>3. TypeOK'
    BY <1>1, <1>2, <1>3, <2>1, Constants DEF TypeOK
  <2>4. InOrder' /\ NoGap'
    BY <1>1, <1>2, <1>3, <2>1, <2>2, SMTT(40) DEF IInv, InOrder, Increasing, NoGap
  <2> QED
    BY <1>4, <2>3, <2>4 DEF IInv
<1> QED
  BY <1>5, <1>6 DEF Agent

LEMMA StutterInv == IInv /\ UNCHANGED vars => IInv'
BY DEF IInv, TypeOK, CanSend, InOrder, Increasing, OnePending, NoGap, vars, client, queues

LEMMA Preserved == IInv /\ [Next]_vars => IInv'
BY QuietStep, SendStep, ReplyStep, AgentStep, StutterInv DEF Next, Loop

\* The inductive invariant.
THEOREM Inductive == Spec => []IInv
BY InitInv, Preserved, PTL DEF Spec

\* Types; no queue passes the socket's high-water mark, and no reply is to a
\* prompt that was not sent.
THEOREM TypeCorrect == Spec => []TypeOK
<1>1. IInv => TypeOK
  BY DEF IInv
<1> QED
  BY Inductive, <1>1, PTL

\* Only try_recv's reply changes what was handed out last.
LEMMA LastChanges == [Next]_vars /\ last' # last => PollReply
BY DEF Next, Clock, Loop, Tick, SendAsync, PollIdle, PollNothing, Heartbeat, Agent,
       AgentReply, AgentLoses, vars

\* Lines 24-37: at most one reply is handed out between two calls of send_async,
\* each newer than the one before.
THEOREM RepliesPaced == Spec => OneReplyPerPrompt
<1>1. IInv /\ [Next]_vars =>
        [last' # last => last'.at > last.at /\ last'.prompt > last.prompt]_vars
  BY LastChanges, ReplyStep
<1> QED
  BY Inductive, <1>1, PTL DEF Spec, OneReplyPerPrompt

\* The engine never catches up: without losses, each reply handed out is as many
\* prompts behind as the one before it, or more.
THEOREM NeverCatchesUp == Spec => LagNeverShrinks
<1>1. IInv /\ [Next]_vars =>
        [last' # last /\ ~lost => last'.at - last'.prompt >= last.at - last.prompt]_vars
  BY LastChanges, ReplyStep
<1> QED
  BY Inductive, <1>1, PTL DEF Spec, LagNeverShrinks
=============================================================================
