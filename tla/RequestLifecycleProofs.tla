----------------------- MODULE RequestLifecycleProofs ------------------------
(***************************************************************************)
(* Proofs about RequestLifecycle, for any number of requests and sockets,  *)
(* with or without faults, and whether or not a sweeper runs.              *)
(*                                                                         *)
(* The inductive invariant says where a request can be: OneLane, of the    *)
(* frames between the server and the agent, and Phases, of the rows.       *)
(***************************************************************************)
EXTENDS RequestLifecycle, TLAPS

-----------------------------------------------------------------------------
(* Sequences, as the lanes use them.                                       *)

LEMMA TailOf ==
    ASSUME NEW S, NEW q \in Seq(S), q # << >>
    PROVE  /\ Tail(q) \in Seq(S) /\ Head(q) \in S /\ Head(q) = q[1]
           /\ Len(q) \in Nat \ {0} /\ Len(Tail(q)) = Len(q) - 1
           /\ \A i \in 1 .. Len(q) - 1 : Tail(q)[i] = q[i + 1]
  OBVIOUS

LEMMA AppendOf ==
    ASSUME NEW S, NEW q \in Seq(S), NEW e \in S
    PROVE  /\ Append(q, e) \in Seq(S)
           /\ Len(q) \in Nat /\ Len(Append(q, e)) = Len(q) + 1
           /\ Append(q, e)[Len(q) + 1] = e
           /\ \A i \in 1 .. Len(q) : Append(q, e)[i] = q[i]
  OBVIOUS

LEMMA PrefixOf ==
    ASSUME NEW S, NEW q \in Seq(S), NEW n \in 0 .. Len(q)
    PROVE  /\ SubSeq(q, 1, n) \in Seq(S)
           /\ Len(q) \in Nat /\ Len(SubSeq(q, 1, n)) = n
           /\ \A i \in 1 .. n : SubSeq(q, 1, n)[i] = q[i]
  OBVIOUS

LEMMA FrameReq ==
    ASSUME NEW u \in Seq(Frame), NEW i \in 1 .. Len(u)
    PROVE  u[i] \in Frame /\ u[i].req \in Requests
  <1>1. u[i] \in Frame
    OBVIOUS
  <1>2. \A f \in Frame : f.req \in Requests
    BY DEF Frame
  <1> QED
    BY <1>1, <1>2

LEMMA HeadReq ==
    ASSUME NEW u \in Seq(Frame), u # << >>
    PROVE  Head(u).req \in Requests /\ Tail(u) \in Seq(Frame)
  <1>1. Head(u) \in Frame /\ Tail(u) \in Seq(Frame)
    BY TailOf
  <1> QED
    BY <1>1 DEF Frame

-----------------------------------------------------------------------------
(* What each kind of step does to a lane.                                  *)

LEMMA LaneSends ==
    ASSUME NEW d \in Seq(Requests), NEW u \in Seq(Frame), NEW w, NEW r \in Requests,
           LaneOK(d, u, w), ~On(r, d, u, w)
    PROVE  /\ LaneOK(Append(d, r), u, w)
           /\ \A q : On(q, Append(d, r), u, w) => On(q, d, u, w) \/ q = r
  <1> DEFINE e == Append(d, r)
  <1>1. /\ Len(d) \in Nat /\ Len(e) = Len(d) + 1 /\ e[Len(d) + 1] = r
        /\ \A i \in 1 .. Len(d) : e[i] = d[i]
    BY AppendOf
  <1>2. \A i \in 1 .. Len(e) : i \in 1 .. Len(d) \/ i = Len(d) + 1
    BY <1>1
  <1> HIDE DEF e
  <1>3. LaneOK(e, u, w)
    BY <1>1, <1>2 DEF LaneOK, On
  <1>4. \A q : On(q, e, u, w) => On(q, d, u, w) \/ q = r
    BY <1>1, <1>2 DEF On
  <1> QED
    BY <1>3, <1>4 DEF e

LEMMA LaneTakes ==
    ASSUME NEW d \in Seq(Requests), NEW u \in Seq(Frame), d # << >>,
           LaneOK(d, u, NoRequest)
    PROVE  LET v == Append(u, [type |-> "ack", req |-> Head(d)])
           IN  /\ LaneOK(Tail(d), v, Head(d))
               /\ \A q : On(q, Tail(d), v, Head(d)) => On(q, d, u, NoRequest)
  <1> DEFINE f == [type |-> "ack", req |-> Head(d)]
             v == Append(u, f)
             e == Tail(d)
             h == Head(d)
  <1>1. /\ h \in Requests /\ h = d[1] /\ Len(d) \in Nat \ {0}
        /\ Len(e) = Len(d) - 1
        /\ \A i \in 1 .. Len(e) : e[i] = d[i + 1] /\ i + 1 \in 1 .. Len(d) /\ i + 1 # 1
    BY TailOf
  <1>2. f \in Frame /\ f.type = "ack" /\ f.req = h
    BY <1>1 DEF Frame
  <1>3. /\ Len(u) \in Nat /\ Len(v) = Len(u) + 1 /\ v[Len(u) + 1] = f
        /\ \A i \in 1 .. Len(u) : v[i] = u[i]
    BY <1>2, AppendOf
  <1>4. \A i \in 1 .. Len(v) : i \in 1 .. Len(u) \/ i = Len(u) + 1
    BY <1>3
  <1> HIDE DEF f, v, e, h
  <1>5. \A i \in 1 .. Len(u) : u[i].req # h
    BY <1>1 DEF LaneOK
  <1>6. \A i \in 1 .. Len(e) : e[i] # h
    BY <1>1 DEF LaneOK
  <1>7. LaneOK(e, v, h)
    <2>1. \A i, j \in 1 .. Len(e) : e[i] = e[j] => i = j
      BY <1>1 DEF LaneOK
    <2>2. \A i \in 1 .. Len(e) : e[i] # h /\ \A j \in 1 .. Len(v) : v[j].req # e[i]
      BY <1>1, <1>2, <1>3, <1>4, <1>6 DEF LaneOK
    <2>3. \A j \in 1 .. Len(v) : v[j].req = h => v[j].type = "ack"
      BY <1>2, <1>3, <1>4, <1>5
    <2>4. \A i, j \in 1 .. Len(v) :
            (i < j /\ v[i].req = v[j].req) => v[i].type = "ack" /\ v[j].type \in Answer
      BY <1>2, <1>3, <1>4, <1>5 DEF LaneOK
    <2> QED
      BY <2>1, <2>2, <2>3, <2>4 DEF LaneOK
  <1>8. ASSUME NEW q, On(q, e, v, h) PROVE On(q, d, u, NoRequest)
    <2>1. CASE h = q
      BY <2>1, <1>1 DEF On
    <2>2. CASE \E i \in 1 .. Len(e) : e[i] = q
      BY <2>2, <1>1 DEF On
    <2>3. CASE \E i \in 1 .. Len(v) : v[i].req = q
      BY <2>1, <2>3, <1>2, <1>3, <1>4 DEF On
    <2> QED
      BY <1>8, <2>1, <2>2, <2>3 DEF On
  <1> QED
    BY <1>7, <1>8 DEF f, v, e, h

LEMMA LaneAnswers ==
    ASSUME NEW d \in Seq(Requests), NEW u \in Seq(Frame), NEW w \in Requests,
           NEW a \in Answer, LaneOK(d, u, w)
    PROVE  LET v == Append(u, [type |-> a, req |-> w])
           IN  /\ LaneOK(d, v, NoRequest)
               /\ \A q \in Requests : On(q, d, v, NoRequest) => On(q, d, u, w)
  <1> DEFINE f == [type |-> a, req |-> w]
             v == Append(u, f)
  <1>1. f \in Frame /\ f.type = a /\ f.req = w
    BY DEF Frame
  <1>2. /\ Len(u) \in Nat /\ Len(v) = Len(u) + 1 /\ v[Len(u) + 1] = f
        /\ \A i \in 1 .. Len(u) : v[i] = u[i]
    BY <1>1, AppendOf
  <1>3. \A i \in 1 .. Len(v) : i \in 1 .. Len(u) \/ i = Len(u) + 1
    BY <1>2
  <1>4. \A i \in 1 .. Len(d) : d[i] \in Requests
    OBVIOUS
  <1>5. \A i \in 1 .. Len(u) : u[i].req \in Requests
    BY FrameReq
  <1> HIDE DEF f, v
  <1>6. LaneOK(d, v, NoRequest)
    <2>1. \A i \in 1 .. Len(d) :
            d[i] # NoRequest /\ \A j \in 1 .. Len(v) : v[j].req # d[i]
      BY <1>1, <1>2, <1>3, <1>4, NoRequestAssumption DEF LaneOK
    <2>2. \A j \in 1 .. Len(v) : v[j].req # NoRequest
      BY <1>1, <1>2, <1>3, <1>5, NoRequestAssumption
    <2>3. \A i, j \in 1 .. Len(v) :
            (i < j /\ v[i].req = v[j].req) => v[i].type = "ack" /\ v[j].type \in Answer
      BY <1>1, <1>2, <1>3 DEF LaneOK
    <2> QED
      BY <2>1, <2>2, <2>3 DEF LaneOK
  <1>7. \A q \in Requests : On(q, d, v, NoRequest) => On(q, d, u, w)
    BY <1>1, <1>2, <1>3, NoRequestAssumption DEF On
  <1> QED
    BY <1>6, <1>7 DEF f, v

LEMMA LaneReads ==
    ASSUME NEW d \in Seq(Requests), NEW u \in Seq(Frame), NEW w, u # << >>,
           LaneOK(d, u, w)
    PROVE  /\ LaneOK(d, Tail(u), w)
           /\ \A q : On(q, d, Tail(u), w) => On(q, d, u, w)
           /\ Head(u) \in Frame /\ On(Head(u).req, d, u, w)
           /\ Head(u).type \in Answer => ~On(Head(u).req, d, Tail(u), w)
  <1> DEFINE v == Tail(u)
             h == Head(u)
  <1>1. /\ h \in Frame /\ h = u[1] /\ Len(u) \in Nat \ {0} /\ 1 \in 1 .. Len(u)
        /\ Len(v) = Len(u) - 1
        /\ \A i \in 1 .. Len(v) : v[i] = u[i + 1] /\ i + 1 \in 1 .. Len(u) /\ 1 < i + 1
    BY TailOf
  <1> HIDE DEF v, h
  <1>2. LaneOK(d, v, w)
    <2>1. \A i \in 1 .. Len(d) : d[i] # w /\ \A j \in 1 .. Len(v) : v[j].req # d[i]
      BY <1>1 DEF LaneOK
    <2>2. \A j \in 1 .. Len(v) : v[j].req = w => v[j].type = "ack"
      BY <1>1 DEF LaneOK
    <2>3. ASSUME NEW i \in 1 .. Len(v), NEW j \in 1 .. Len(v), i < j, v[i].req = v[j].req
          PROVE  v[i].type = "ack" /\ v[j].type \in Answer
      <3>1. i + 1 < j + 1 /\ u[i + 1].req = u[j + 1].req
        BY <1>1, <2>3
      <3> QED
        BY <1>1, <3>1 DEF LaneOK
    <2> QED
      BY <2>1, <2>2, <2>3 DEF LaneOK
  <1>3. \A q : On(q, d, v, w) => On(q, d, u, w)
    BY <1>1 DEF On
  <1>4. On(h.req, d, u, w)
    BY <1>1 DEF On
  <1>5. ASSUME h.type \in Answer PROVE ~On(h.req, d, v, w)
    <2>1. h.type # "ack"
      BY <1>5 DEF Answer
    <2> QED
      BY <1>1, <2>1 DEF LaneOK, On
  <1> QED
    BY <1>1, <1>2, <1>3, <1>4, <1>5 DEF v, h

LEMMA LaneCut ==
    ASSUME NEW d, NEW u \in Seq(Frame), NEW w, NEW n \in 0 .. Len(u), LaneOK(d, u, w)
    PROVE  LET v == SubSeq(u, 1, n)
           IN  /\ LaneOK(<< >>, v, NoRequest)
               /\ \A q \in Requests : On(q, << >>, v, NoRequest) => On(q, d, u, w)
  <1> DEFINE v == SubSeq(u, 1, n)
  <1>1. /\ Len(u) \in Nat /\ Len(v) = n
        /\ \A i \in 1 .. n : v[i] = u[i] /\ i \in 1 .. Len(u) /\ u[i].req \in Requests
    BY PrefixOf, FrameReq
  <1> HIDE DEF v
  <1>2. LaneOK(<< >>, v, NoRequest)
    BY <1>1, NoRequestAssumption DEF LaneOK
  <1>3. \A q \in Requests : On(q, << >>, v, NoRequest) => On(q, d, u, w)
    BY <1>1, NoRequestAssumption DEF On
  <1> QED
    BY <1>2, <1>3 DEF v

LEMMA LaneEmpty ==
    /\ LaneOK(<< >>, << >>, NoRequest)
    /\ \A q \in Requests : ~On(q, << >>, << >>, NoRequest)
  BY NoRequestAssumption DEF LaneOK, On

-----------------------------------------------------------------------------
(* The invariant.                                                          *)

Early == {"start", "create", "send", "writing"}
Sending == {"send", "writing", "draining", "sent", "unsent"}

\* What submit_request knows of its row while it runs, and what a final status
\* says of the result.
Phases ==
    \A r \in Requests :
        /\ submit[r] \in {"start", "create"} => row[r] = "absent"
        /\ submit[r] \in Sending => row[r] # "absent"
        /\ submit[r] \in Early => result[r] = "none"
        /\ submit[r] \in {"writing", "draining"} => conn[r] \in Sockets
        /\ row[r] \in {"completed", "rejected"} => result[r] # "none"

IndInv == TypeOK /\ OneLane /\ Phases

Lane(q, k) == On(q, downlink[k], uplink[k], working[k])

\* A step keeps OneLane if it leaves every lane in order, brings nothing new
\* into a lane, and leaves the facts about every request still in one.
LEMMA LanesShrink ==
    ASSUME OneLane,
           \A k \in Sockets : LaneOK(downlink[k], uplink[k], working[k])',
           \A k \in Sockets, q \in Requests :
              Lane(q, k)' => /\ Lane(q, k)
                             /\ conn'[q] = conn[q]
                             /\ submit'[q] \notin Early
                             /\ row'[q] # "absent"
                             /\ result'[q] = result[q]
    PROVE  OneLane'
  BY DEF OneLane, Lane, Early

\* The case of the steps that touch no lane.
LEMMA LanesKept ==
    ASSUME OneLane, UNCHANGED <<downlink, uplink, working>>,
           \A q \in Requests :
              (\E k \in Sockets : Lane(q, k))
                 => /\ conn'[q] = conn[q]
                    /\ submit'[q] \notin Early
                    /\ row'[q] # "absent"
                    /\ result'[q] = result[q]
    PROVE  OneLane'
  <1>1. \A k \in Sockets : LaneOK(downlink[k], uplink[k], working[k])'
    BY DEF OneLane
  <1>2. \A k \in Sockets, q \in Requests : Lane(q, k)' => Lane(q, k)
    BY DEF Lane
  <1> QED
    BY <1>1, <1>2, LanesShrink

\* What OneLane says of a request in a lane.
LEMMA InLane ==
    ASSUME OneLane, NEW k \in Sockets, NEW q \in Requests, Lane(q, k)
    PROVE  /\ conn[q] = k
           /\ submit[q] \notin Early
           /\ row[q] # "absent"
           /\ result[q] = "none"
  BY DEF OneLane, Lane, Early

LEMMA InitInv == Init => IndInv
  <1> SUFFICES ASSUME Init PROVE IndInv
    OBVIOUS
  <1>1. TypeOK
    BY DEF Init, TypeOK, RowState, SubmitState
  <1>2. OneLane
    BY LaneEmpty DEF Init, OneLane
  <1>3. Phases
    BY DEF Init, Phases, Early, Sending
  <1> QED
    BY <1>1, <1>2, <1>3 DEF IndInv

-----------------------------------------------------------------------------
(* Type correctness.                                                       *)

\* A step of Presence keeps the types of its two variables.
LEMMA ChannelType ==
    ASSUME registered \in Sockets \cup {NoSocket},
           link \in [Sockets -> {"none", "up", "down"}],
           Channel!Next
    PROVE  /\ registered' \in Sockets \cup {NoSocket}
           /\ link' \in [Sockets -> {"none", "up", "down"}]
  <1>1. ASSUME NEW k \in Sockets, Channel!Attach(k) \/ Channel!LinkDown(k)
        PROVE  /\ registered' \in Sockets \cup {NoSocket}
               /\ link' \in [Sockets -> {"none", "up", "down"}]
    BY <1>1 DEF Channel!Attach, Channel!LinkDown
  <1>2. CASE Channel!Detach
    BY <1>2 DEF Channel!Detach
  <1>3. CASE Channel!Restart
    BY <1>3 DEF Channel!Restart
  <1> QED
    BY <1>1, <1>2, <1>3 DEF Channel!Next

LEMMA TypeStep == TypeOK /\ [Next]_vars => TypeOK'
  <1> SUFFICES ASSUME TypeOK, [Next]_vars PROVE TypeOK'
    OBVIOUS
  <1> USE DEF TypeOK, rows, channel, lanes
  <1>1. ASSUME NEW r \in Requests, Refuse(r) PROVE TypeOK'
    BY <1>1 DEF Refuse, Goto, SubmitState
  <1>2. ASSUME NEW r \in Requests, Admit(r) PROVE TypeOK'
    BY <1>2 DEF Admit, Goto, SubmitState
  <1>3. ASSUME NEW r \in Requests, Create(r) PROVE TypeOK'
    BY <1>3 DEF Create, Goto, SubmitState, UpdateStatus, RowState
  <1>4. ASSUME NEW r \in Requests, LookUp(r) PROVE TypeOK'
    BY <1>4 DEF LookUp, Goto, SubmitState
  <1>5. ASSUME NEW r \in Requests, WriteFrame(r) PROVE TypeOK'
    <2>1. \A k \in Sockets : Append(downlink[k], r) \in Seq(Requests)
      OBVIOUS
    <2>2. downlink' \in [Sockets -> Seq(Requests)]
      BY <1>5, <2>1 DEF WriteFrame
    <2> QED
      BY <1>5, <2>2 DEF WriteFrame, Goto, SubmitState
  <1>6. ASSUME NEW r \in Requests, SendOk(r) PROVE TypeOK'
    BY <1>6 DEF SendOk, Goto, SubmitState
  <1>7. ASSUME NEW r \in Requests, SendFails(r) PROVE TypeOK'
    BY <1>7 DEF SendFails, Goto, SubmitState
  <1>8. ASSUME NEW r \in Requests, MarkDispatched(r) PROVE TypeOK'
    BY <1>8 DEF MarkDispatched, Goto, SubmitState, UpdateStatus, RowState
  <1>9. ASSUME NEW r \in Requests, MarkTimeout(r) PROVE TypeOK'
    BY <1>9 DEF MarkTimeout, Goto, SubmitState, UpdateStatus, RowState
  <1>10. ASSUME NEW r \in Requests, SubmitFails(r) PROVE TypeOK'
    BY <1>10 DEF SubmitFails, Goto, SubmitState
  <1>11. ASSUME NEW r \in Requests, Expire(r) PROVE TypeOK'
    BY <1>11 DEF Expire
  <1>12. ASSUME NEW k \in Sockets, AgentTakes(k) PROVE TypeOK'
    <2>1. /\ Head(downlink[k]) \in Requests
          /\ Tail(downlink[k]) \in Seq(Requests)
      BY <1>12, TailOf DEF AgentTakes
    <2>2. [type |-> "ack", req |-> Head(downlink[k])] \in Frame
      BY <2>1 DEF Frame
    <2> QED
      BY <1>12, <2>1, <2>2 DEF AgentTakes
  <1>13. ASSUME NEW k \in Sockets, AgentAnswers(k) PROVE TypeOK'
    <2>1. PICK a \in Answer :
            uplink' = [uplink EXCEPT ![k] = Append(@, [type |-> a, req |-> working[k]])]
      BY <1>13 DEF AgentAnswers
    <2>2. [type |-> a, req |-> working[k]] \in Frame
      BY <1>13 DEF AgentAnswers, Frame
    <2> QED
      BY <1>13, <2>1, <2>2 DEF AgentAnswers
  <1>14. ASSUME NEW k \in Sockets, ReceiveAck(k) PROVE TypeOK'
    <2>1. Head(uplink[k]).req \in Requests /\ Tail(uplink[k]) \in Seq(Frame)
      BY <1>14, HeadReq DEF ReceiveAck, FirstIs
    <2> QED
      BY <1>14, <2>1 DEF ReceiveAck, UpdateStatus, Consume, RowState
  <1>15. ASSUME NEW k \in Sockets, ReceiveResult(k) PROVE TypeOK'
    <2>1. Head(uplink[k]).req \in Requests /\ Tail(uplink[k]) \in Seq(Frame)
      BY <1>15, HeadReq DEF ReceiveResult, FirstIs
    <2>2. Head(uplink[k]).type \in Answer
      BY <1>15 DEF ReceiveResult, FirstIs
    <2> QED
      BY <1>15, <2>1, <2>2 DEF ReceiveResult, UpdateStatus, Consume, RowState
  <1>16. ASSUME NEW k \in Sockets, NEW n \in 0 .. Len(uplink[k]), Cut(k, n),
                UNCHANGED <<rows, submit, conn>>,
                registered' \in Sockets \cup {NoSocket},
                link' \in [Sockets -> {"none", "up", "down"}]
         PROVE  TypeOK'
    <2>1. SubSeq(uplink[k], 1, n) \in Seq(Frame)
      BY PrefixOf
    <2> QED
      BY <1>16, <2>1 DEF Cut
  <1>17. ASSUME NEW k \in Sockets, ReceiveFails(k) PROVE TypeOK'
    <2>1. 0 \in 0 .. Len(uplink[k])
      OBVIOUS
    <2> QED
      BY <1>16, <1>17, <2>1 DEF ReceiveFails
  <1>18. ASSUME NEW k \in Sockets, Attach(k) PROVE TypeOK'
    BY <1>18, ChannelType DEF Attach, Channel!Next
  <1>19. ASSUME NEW k \in Sockets, LinkDown(k) PROVE TypeOK'
    BY <1>16, <1>19, ChannelType DEF LinkDown, Channel!Next
  <1>20. CASE Detach
    BY <1>20, ChannelType DEF Detach, Channel!Next
  <1>21. CASE Sweep
    BY <1>21 DEF Sweep, RowState
  <1>22. CASE Restart
    BY <1>22, ChannelType DEF Restart, SubmitState, Channel!Next
  <1>23. CASE UNCHANGED vars
    BY <1>23 DEF vars
  <1>24. QED
    BY <1>1, <1>2, <1>3, <1>4, <1>5, <1>6, <1>7, <1>8, <1>9, <1>10, <1>11, <1>12,
       <1>13, <1>14, <1>15, <1>17, <1>18, <1>19, <1>20, <1>21, <1>22, <1>23
    DEF Next, SubmitStep, AgentStep, ReceiveStep

-----------------------------------------------------------------------------
(* The lanes.                                                              *)

LEMMA LanesStep == IndInv /\ [Next]_vars => OneLane'
  <1> SUFFICES ASSUME IndInv, [Next]_vars PROVE OneLane'
    OBVIOUS
  <1> USE DEF rows, channel, lanes
  <1>a. TypeOK /\ OneLane /\ Phases
    BY DEF IndInv
  <1>b. /\ row \in [Requests -> RowState] /\ submit \in [Requests -> SubmitState]
        /\ result \in [Requests -> Answer \cup {"none"}]
        /\ conn \in [Requests -> Sockets \cup {NoSocket}]
        /\ link \in [Sockets -> {"none", "up", "down"}]
        /\ downlink \in [Sockets -> Seq(Requests)] /\ uplink \in [Sockets -> Seq(Frame)]
        /\ working \in [Sockets -> Requests \cup {NoRequest}]
    BY <1>a DEF TypeOK
  <1>c. \A k \in Sockets : LaneOK(downlink[k], uplink[k], working[k])
    BY <1>a DEF OneLane
  <1>d. \A k \in Sockets, q \in Requests : Lane(q, k) =>
          conn[q] = k /\ submit[q] \notin Early /\ row[q] # "absent" /\ result[q] = "none"
    BY <1>a, InLane
  <1>1. ASSUME NEW r \in Requests, Refuse(r) PROVE OneLane'
    BY <1>1, <1>a, <1>b, <1>d, LanesKept DEF Refuse, Goto, Early
  <1>2. ASSUME NEW r \in Requests, Admit(r) PROVE OneLane'
    BY <1>2, <1>a, <1>b, <1>d, LanesKept DEF Admit, Goto, Early
  <1>3. ASSUME NEW r \in Requests, Create(r) PROVE OneLane'
    BY <1>3, <1>a, <1>b, <1>d, LanesKept DEF Create, UpdateStatus, Goto, Early
  <1>4. ASSUME NEW r \in Requests, LookUp(r) PROVE OneLane'
    BY <1>4, <1>a, <1>b, <1>d, LanesKept DEF LookUp, Goto, Early
  <1>5. ASSUME NEW r \in Requests, WriteFrame(r) PROVE OneLane'
    <2> DEFINE k == conn[r]
    <2>1. /\ k \in Sockets /\ submit[r] = "writing"
          /\ row[r] # "absent" /\ result[r] = "none"
      BY <1>5, <1>a DEF WriteFrame, Phases, Early, Sending
    <2>2. \A j \in Sockets : ~Lane(r, j)
      BY <2>1, <1>d DEF Early
    <2>3. ~On(r, downlink[k], uplink[k], working[k])
      BY <2>1, <2>2 DEF Lane
    <2>4. /\ LaneOK(Append(downlink[k], r), uplink[k], working[k])
          /\ \A q : On(q, Append(downlink[k], r), uplink[k], working[k])
                      => On(q, downlink[k], uplink[k], working[k]) \/ q = r
      BY <2>1, <2>3, <1>b, <1>c, LaneSends
    <2>5. /\ downlink' = [downlink EXCEPT ![k] = Append(downlink[k], r)]
          /\ submit' = [submit EXCEPT ![r] = "draining"]
          /\ UNCHANGED <<uplink, working, row, result, conn>>
      BY <1>5 DEF WriteFrame, Goto
    <2> HIDE DEF k
    <2>6. \A j \in Sockets : LaneOK(downlink'[j], uplink'[j], working'[j])
      BY <2>1, <2>4, <2>5, <1>b, <1>c
    <2>7. ASSUME NEW j \in Sockets, NEW q \in Requests,
                 On(q, downlink'[j], uplink'[j], working'[j])
          PROVE  /\ conn'[q] = j /\ submit'[q] \notin Early
                 /\ row'[q] # "absent" /\ result'[q] = "none"
      <3>1. CASE Lane(q, j)
        BY <3>1, <2>5, <1>b, <1>d DEF Early
      <3>2. CASE ~Lane(q, j)
        <4>1. j = k /\ q = r
          BY <3>2, <2>7, <2>4, <2>5, <1>b DEF Lane
        <4> QED
          BY <4>1, <2>1, <2>5, <1>b DEF Early, k
      <3> QED
        BY <3>1, <3>2
    <2> QED
      BY <2>6, <2>7 DEF OneLane, Early
  <1>6. ASSUME NEW r \in Requests, SendOk(r) PROVE OneLane'
    BY <1>6, <1>a, <1>b, <1>d, LanesKept DEF SendOk, Goto, Early
  <1>7. ASSUME NEW r \in Requests, SendFails(r) PROVE OneLane'
    BY <1>7, <1>a, <1>b, <1>d, LanesKept DEF SendFails, Goto, Early
  <1>8. ASSUME NEW r \in Requests, MarkDispatched(r) PROVE OneLane'
    BY <1>8, <1>a, <1>b, <1>d, LanesKept DEF MarkDispatched, UpdateStatus, Goto, Early
  <1>9. ASSUME NEW r \in Requests, MarkTimeout(r) PROVE OneLane'
    BY <1>9, <1>a, <1>b, <1>d, LanesKept DEF MarkTimeout, UpdateStatus, Goto, Early
  <1>10. ASSUME NEW r \in Requests, SubmitFails(r) PROVE OneLane'
    BY <1>10, <1>a, <1>b, <1>d, LanesKept DEF SubmitFails, Goto, Early
  <1>11. ASSUME NEW r \in Requests, Expire(r) PROVE OneLane'
    BY <1>11, <1>a, <1>b, <1>d, LanesKept DEF Expire
  <1>12. ASSUME NEW k \in Sockets, AgentTakes(k) PROVE OneLane'
    <2> DEFINE v == Append(uplink[k], [type |-> "ack", req |-> Head(downlink[k])])
    <2>1. /\ working[k] = NoRequest /\ downlink[k] # << >>
          /\ downlink' = [downlink EXCEPT ![k] = Tail(downlink[k])]
          /\ uplink' = [uplink EXCEPT ![k] = v]
          /\ working' = [working EXCEPT ![k] = Head(downlink[k])]
          /\ UNCHANGED <<row, result, submit, conn>>
      BY <1>12 DEF AgentTakes
    <2>2. /\ LaneOK(Tail(downlink[k]), v, Head(downlink[k]))
          /\ \A q : On(q, Tail(downlink[k]), v, Head(downlink[k]))
                      => On(q, downlink[k], uplink[k], NoRequest)
      BY <2>1, <1>b, <1>c, LaneTakes
    <2> HIDE DEF v
    <2>3. \A j \in Sockets : LaneOK(downlink[j], uplink[j], working[j])'
      BY <2>1, <2>2, <1>b, <1>c
    <2>4. \A j \in Sockets, q \in Requests : Lane(q, j)' => Lane(q, j)
      BY <2>1, <2>2, <1>b DEF Lane
    <2> QED
      BY <2>1, <2>3, <2>4, <1>a, <1>d, LanesShrink
  <1>13. ASSUME NEW k \in Sockets, AgentAnswers(k) PROVE OneLane'
    <2>0. PICK a \in Answer :
            uplink' = [uplink EXCEPT ![k] = Append(uplink[k], [type |-> a, req |-> working[k]])]
      BY <1>13 DEF AgentAnswers
    <2> DEFINE v == Append(uplink[k], [type |-> a, req |-> working[k]])
    <2>1. /\ working[k] \in Requests
          /\ uplink' = [uplink EXCEPT ![k] = v]
          /\ working' = [working EXCEPT ![k] = NoRequest]
          /\ UNCHANGED <<downlink, row, result, submit, conn>>
      BY <1>13, <1>b, <2>0 DEF AgentAnswers
    <2>2. /\ LaneOK(downlink[k], v, NoRequest)
          /\ \A q \in Requests : On(q, downlink[k], v, NoRequest)
                                   => On(q, downlink[k], uplink[k], working[k])
      BY <2>1, <1>b, <1>c, LaneAnswers
    <2> HIDE DEF v
    <2>3. \A j \in Sockets : LaneOK(downlink[j], uplink[j], working[j])'
      BY <2>1, <2>2, <1>b, <1>c
    <2>4. \A j \in Sockets, q \in Requests : Lane(q, j)' => Lane(q, j)
      BY <2>1, <2>2, <1>b DEF Lane
    <2> QED
      BY <2>1, <2>3, <2>4, <1>a, <1>d, LanesShrink
  <1>14. ASSUME NEW k \in Sockets, uplink[k] # << >>, Consume(k),
                UNCHANGED <<submit, conn, downlink, working>>
         PROVE  /\ \A j \in Sockets : LaneOK(downlink[j], uplink[j], working[j])'
                /\ \A j \in Sockets, q \in Requests : Lane(q, j)' => Lane(q, j)
                /\ \E q \in Requests :
                     /\ q = Head(uplink[k]).req
                     /\ Lane(q, k)
                     /\ Head(uplink[k]).type \in Answer => ~Lane(q, k)'
    <2> DEFINE h == Head(uplink[k])
               v == Tail(uplink[k])
    <2>1. uplink' = [uplink EXCEPT ![k] = v]
      BY <1>14 DEF Consume
    <2>2. /\ LaneOK(downlink[k], v, working[k])
          /\ \A q : On(q, downlink[k], v, working[k])
                      => On(q, downlink[k], uplink[k], working[k])
          /\ h \in Frame /\ On(h.req, downlink[k], uplink[k], working[k])
          /\ h.type \in Answer => ~On(h.req, downlink[k], v, working[k])
      BY <1>14, <1>b, <1>c, LaneReads
    <2>3. h.req \in Requests
      BY <2>2 DEF Frame
    <2> HIDE DEF h, v
    <2>4. \A j \in Sockets : LaneOK(downlink[j], uplink[j], working[j])'
      BY <1>14, <2>1, <2>2, <1>b, <1>c
    <2>5. \A j \in Sockets, q \in Requests : Lane(q, j)' => Lane(q, j)
      BY <1>14, <2>1, <2>2, <1>b DEF Lane
    <2>6. PICK q \in Requests : q = h.req
      BY <2>3
    <2>7. Lane(q, k) /\ (h.type \in Answer => ~Lane(q, k)')
      BY <1>14, <2>1, <2>2, <2>6, <1>b DEF Lane
    <2> QED
      BY <2>4, <2>5, <2>6, <2>7 DEF h
  <1>15. ASSUME NEW k \in Sockets, ReceiveAck(k) PROVE OneLane'
    <2>1. /\ uplink[k] # << >> /\ Consume(k)
          /\ row' = [row EXCEPT ![Head(uplink[k]).req] = "acked"]
          /\ UNCHANGED <<result, submit, conn, downlink, working>>
      BY <1>15 DEF ReceiveAck, FirstIs, UpdateStatus
    <2>2. \A q \in Requests : row[q] # "absent" => row'[q] # "absent"
      BY <2>1, <1>b
    <2> QED
      BY <2>1, <2>2, <1>14, <1>a, <1>d, LanesShrink
  <1>16. ASSUME NEW k \in Sockets, ReceiveResult(k) PROVE OneLane'
    <2> DEFINE h == Head(uplink[k])
    <2>1. /\ uplink[k] # << >> /\ h.type \in Answer /\ Consume(k)
          /\ row' = [row EXCEPT ![h.req] = IF h.type = "completed" THEN "completed"
                                                                   ELSE "rejected"]
          /\ result' = [result EXCEPT ![h.req] = h.type]
          /\ UNCHANGED <<submit, conn, downlink, working>>
      BY <1>16 DEF ReceiveResult, FirstIs, UpdateStatus
    <2>2. /\ h.req \in Requests
          /\ \A j \in Sockets : LaneOK(downlink[j], uplink[j], working[j])'
          /\ \A j \in Sockets, q \in Requests : Lane(q, j)' => Lane(q, j)
      BY <2>1, <1>14
    <2>0. PICK a \in Requests : a = h.req /\ Lane(a, k) /\ ~Lane(a, k)'
      BY <2>1, <1>14
    <2> HIDE DEF h
    <2>3. \A j \in Sockets : ~Lane(a, j)'
      BY <2>0, <2>2, <1>d
    <2>4. \A q \in Requests : row[q] # "absent" => row'[q] # "absent"
      BY <2>1, <1>b
    <2>5. \A q \in Requests : q # a => result'[q] = result[q]
      BY <2>0, <2>1, <1>b
    <2>6. \A j \in Sockets, q \in Requests : Lane(q, j)' => q # a
      BY <2>3
    <2> QED
      BY <2>1, <2>2, <2>4, <2>5, <2>6, <1>a, <1>d, LanesShrink
  <1>17. ASSUME NEW k \in Sockets, NEW n \in 0 .. Len(uplink[k]), Cut(k, n),
                UNCHANGED <<rows, submit, conn>>
         PROVE  OneLane'
    <2> DEFINE v == SubSeq(uplink[k], 1, n)
    <2>1. /\ downlink' = [downlink EXCEPT ![k] = << >>]
          /\ uplink' = [uplink EXCEPT ![k] = v]
          /\ working' = [working EXCEPT ![k] = NoRequest]
          /\ UNCHANGED <<row, result, submit, conn>>
      BY <1>17 DEF Cut
    <2>2. /\ LaneOK(<< >>, v, NoRequest)
          /\ \A q \in Requests : On(q, << >>, v, NoRequest)
                                   => On(q, downlink[k], uplink[k], working[k])
      BY <1>b, <1>c, LaneCut
    <2> HIDE DEF v
    <2>3. \A j \in Sockets : LaneOK(downlink[j], uplink[j], working[j])'
      BY <2>1, <2>2, <1>b, <1>c
    <2>4. \A j \in Sockets, q \in Requests : Lane(q, j)' => Lane(q, j)
      BY <2>1, <2>2, <1>b DEF Lane
    <2> QED
      BY <2>1, <2>3, <2>4, <1>a, <1>d, LanesShrink
  <1>18. ASSUME NEW k \in Sockets, ReceiveFails(k) PROVE OneLane'
    <2>1. 0 \in 0 .. Len(uplink[k])
      BY <1>b
    <2> QED
      BY <1>17, <1>18, <2>1 DEF ReceiveFails
  <1>19. ASSUME NEW k \in Sockets, Attach(k) PROVE OneLane'
    BY <1>19, <1>a, <1>b, <1>d, LanesKept DEF Attach
  <1>20. ASSUME NEW k \in Sockets, LinkDown(k) PROVE OneLane'
    BY <1>17, <1>20 DEF LinkDown
  <1>21. CASE Detach
    BY <1>21, <1>a, <1>b, <1>d, LanesKept DEF Detach
  <1>22. CASE Sweep
    BY <1>22, <1>a, <1>b, <1>d, LanesKept DEF Sweep
  <1>23. CASE Restart
    <2>1. \A j \in Sockets : /\ LaneOK(downlink[j], uplink[j], working[j])'
                             /\ \A q \in Requests : ~Lane(q, j)'
      BY <1>23, LaneEmpty DEF Restart, Lane
    <2> QED
      BY <2>1, <1>a, LanesShrink
  <1>24. CASE UNCHANGED vars
    BY <1>24, <1>a, <1>b, <1>d, LanesKept DEF vars
  <1>25. QED
    BY <1>1, <1>2, <1>3, <1>4, <1>5, <1>6, <1>7, <1>8, <1>9, <1>10, <1>11, <1>12,
       <1>13, <1>15, <1>16, <1>18, <1>19, <1>20, <1>21, <1>22, <1>23, <1>24
    DEF Next, SubmitStep, AgentStep, ReceiveStep

-----------------------------------------------------------------------------
(* The rows.                                                               *)

\* What the server receives is about a request in a lane.
LEMMA Received ==
    ASSUME IndInv, NEW k \in Sockets, FirstIs(k, {"ack"} \cup Answer)
    PROVE  \E q \in Requests :
             /\ q = Head(uplink[k]).req
             /\ submit[q] \notin Early /\ row[q] # "absent" /\ result[q] = "none"
  <1>1. /\ uplink[k] \in Seq(Frame) /\ uplink[k] # << >>
        /\ LaneOK(downlink[k], uplink[k], working[k])
        /\ downlink[k] \in Seq(Requests)
        /\ OneLane
    BY DEF IndInv, FirstIs, OneLane, TypeOK
  <1>2. PICK q \in Requests : q = Head(uplink[k]).req
    BY <1>1, HeadReq
  <1>3. Lane(q, k)
    BY <1>1, <1>2, LaneReads DEF Lane
  <1> QED
    BY <1>1, <1>2, <1>3, InLane

\* So the two kinds of frames change the row of a request without a result.
LEMMA ReceivedAck ==
    ASSUME IndInv, NEW k \in Sockets, ReceiveAck(k)
    PROVE  \E q \in Requests :
             /\ submit[q] \notin Early /\ row[q] # "absent" /\ result[q] = "none"
             /\ row' = [row EXCEPT ![q] = "acked"]
             /\ UNCHANGED <<result, expired, submit, conn>>
  <1>1. PICK q \in Requests :
          /\ q = Head(uplink[k]).req
          /\ submit[q] \notin Early /\ row[q] # "absent" /\ result[q] = "none"
    BY Received DEF ReceiveAck, FirstIs
  <1>2. /\ row' = [row EXCEPT ![q] = "acked"]
        /\ UNCHANGED <<result, expired, submit, conn>>
    BY <1>1 DEF ReceiveAck, UpdateStatus
  <1> QED
    BY <1>1, <1>2

LEMMA ReceivedResult ==
    ASSUME IndInv, NEW k \in Sockets, ReceiveResult(k)
    PROVE  \E q \in Requests, a \in Answer :
             /\ submit[q] \notin Early /\ row[q] # "absent" /\ result[q] = "none"
             /\ row' = [row EXCEPT ![q] = IF a = "completed" THEN "completed" ELSE "rejected"]
             /\ result' = [result EXCEPT ![q] = a]
             /\ a # "none"
             /\ UNCHANGED <<expired, submit, conn>>
  <1>1. PICK q \in Requests :
          /\ q = Head(uplink[k]).req
          /\ submit[q] \notin Early /\ row[q] # "absent" /\ result[q] = "none"
    BY Received DEF ReceiveResult, FirstIs
  <1>2. PICK a \in Answer :
          /\ row' = [row EXCEPT ![q] = IF a = "completed" THEN "completed" ELSE "rejected"]
          /\ result' = [result EXCEPT ![q] = a]
          /\ UNCHANGED <<expired, submit, conn>>
    BY <1>1 DEF ReceiveResult, UpdateStatus, FirstIs
  <1>3. a # "none"
    BY DEF Answer
  <1> QED
    BY <1>1, <1>2, <1>3

LEMMA PhasesStep == IndInv /\ [Next]_vars => Phases'
  <1> SUFFICES ASSUME IndInv, [Next]_vars PROVE Phases'
    OBVIOUS
  <1> USE DEF rows, channel, lanes, Phases, Early, Sending
  <1>a. TypeOK /\ OneLane /\ Phases
    BY DEF IndInv
  <1>b. /\ row \in [Requests -> RowState] /\ submit \in [Requests -> SubmitState]
        /\ result \in [Requests -> Answer \cup {"none"}]
        /\ conn \in [Requests -> Sockets \cup {NoSocket}]
        /\ registered \in Sockets \cup {NoSocket}
    BY <1>a DEF TypeOK
  <1>1. ASSUME NEW r \in Requests, Refuse(r) PROVE Phases'
    BY <1>1, <1>a, <1>b DEF Refuse, Goto
  <1>2. ASSUME NEW r \in Requests, Admit(r) PROVE Phases'
    BY <1>2, <1>a, <1>b DEF Admit, Goto
  <1>3. ASSUME NEW r \in Requests, Create(r) PROVE Phases'
    BY <1>3, <1>a, <1>b DEF Create, UpdateStatus, Goto
  <1>4. ASSUME NEW r \in Requests, LookUp(r) PROVE Phases'
    BY <1>4, <1>a, <1>b DEF LookUp, Goto
  <1>5. ASSUME NEW r \in Requests, WriteFrame(r) PROVE Phases'
    BY <1>5, <1>a, <1>b DEF WriteFrame, Goto
  <1>6. ASSUME NEW r \in Requests, SendOk(r) PROVE Phases'
    BY <1>6, <1>a, <1>b DEF SendOk, Goto
  <1>7. ASSUME NEW r \in Requests, SendFails(r) PROVE Phases'
    BY <1>7, <1>a, <1>b DEF SendFails, Goto
  <1>8. ASSUME NEW r \in Requests, MarkDispatched(r) PROVE Phases'
    BY <1>8, <1>a, <1>b DEF MarkDispatched, UpdateStatus, Goto
  <1>9. ASSUME NEW r \in Requests, MarkTimeout(r) PROVE Phases'
    BY <1>9, <1>a, <1>b DEF MarkTimeout, UpdateStatus, Goto
  <1>10. ASSUME NEW r \in Requests, SubmitFails(r) PROVE Phases'
    BY <1>10, <1>a, <1>b DEF SubmitFails, Goto
  <1>11. ASSUME NEW r \in Requests, Expire(r) PROVE Phases'
    BY <1>11, <1>a DEF Expire
  <1>12. ASSUME NEW k \in Sockets, AgentTakes(k) PROVE Phases'
    BY <1>12, <1>a DEF AgentTakes
  <1>13. ASSUME NEW k \in Sockets, AgentAnswers(k) PROVE Phases'
    BY <1>13, <1>a DEF AgentAnswers
  <1>15. ASSUME NEW k \in Sockets, ReceiveAck(k) PROVE Phases'
    BY <1>15, <1>a, <1>b, ReceivedAck
  <1>16. ASSUME NEW k \in Sockets, ReceiveResult(k) PROVE Phases'
    BY <1>16, <1>a, <1>b, ReceivedResult
  <1>17. ASSUME NEW k \in Sockets, ReceiveFails(k) PROVE Phases'
    BY <1>17, <1>a DEF ReceiveFails
  <1>18. ASSUME NEW k \in Sockets, Attach(k) PROVE Phases'
    BY <1>18, <1>a DEF Attach
  <1>19. ASSUME NEW k \in Sockets, LinkDown(k) PROVE Phases'
    BY <1>19, <1>a DEF LinkDown
  <1>20. CASE Detach
    BY <1>20, <1>a DEF Detach
  <1>21. CASE Sweep
    BY <1>21, <1>a, <1>b DEF Sweep, Stale
  <1>22. CASE Restart
    BY <1>22, <1>a, <1>b DEF Restart, Responded
  <1>23. CASE UNCHANGED vars
    BY <1>23, <1>a DEF vars
  <1>24. QED
    BY <1>1, <1>2, <1>3, <1>4, <1>5, <1>6, <1>7, <1>8, <1>9, <1>10, <1>11, <1>12,
       <1>13, <1>15, <1>16, <1>17, <1>18, <1>19, <1>20, <1>21, <1>22, <1>23
    DEF Next, SubmitStep, AgentStep, ReceiveStep

LEMMA Inductive == Spec => []IndInv
  <1>1. IndInv /\ [Next]_vars => IndInv'
    BY TypeStep, LanesStep, PhasesStep DEF IndInv
  <1> QED
    BY InitInv, <1>1, PTL DEF Spec

-----------------------------------------------------------------------------
(* What is promised.                                                       *)

\* Every variable keeps its type: in particular requests.status is always one
\* of the seven values the code writes, whatever the agent sends.
THEOREM TypeCorrect == Spec => []TypeOK
  <1>1. IndInv => TypeOK
    BY DEF IndInv
  <1> QED
    BY Inductive, <1>1, PTL

\* Every frame in flight is about a committed row: submit_request commits the
\* row before it sends (routes/requests.py).
THEOREM RowsPrecedeFrames == Spec => []FramesHaveRows
  <1>1. IndInv => FramesHaveRows
    BY InLane DEF IndInv, FramesHaveRows, InFlight, Lane
  <1> QED
    BY Inductive, <1>1, PTL

\* Nothing about a request is in flight once its result is recorded: each
\* request goes to one socket, and is acked and answered once on it.
THEOREM AnswersAreLast == Spec => []AnsweredIsQuiet
  <1>1. IndInv => AnsweredIsQuiet
    BY InLane DEF IndInv, AnsweredIsQuiet, InFlight, Lane
  <1> QED
    BY Inductive, <1>1, PTL

LEMMA ResultStep == IndInv /\ [Next]_vars =>
                      \A r \in Requests : result[r] # "none" => result'[r] = result[r]
  <1> SUFFICES ASSUME IndInv, [Next]_vars, NEW r \in Requests, result[r] # "none"
               PROVE  result'[r] = result[r]
    OBVIOUS
  <1> USE DEF rows, channel, lanes
  <1>1. result \in [Requests -> Answer \cup {"none"}]
    BY DEF IndInv, TypeOK
  <1>2. ASSUME NEW k \in Sockets, ReceiveResult(k) PROVE result'[r] = result[r]
    BY <1>1, <1>2, ReceivedResult
  <1>3. ASSUME NEW q \in Requests, Refuse(q) \/ Admit(q) \/ SubmitStep(q) \/ Expire(q)
        PROVE  result'[r] = result[r]
    BY <1>3 DEF Refuse, Admit, SubmitStep, Expire, Create, LookUp, WriteFrame, SendOk,
                SendFails, MarkDispatched, MarkTimeout, SubmitFails
  <1>4. ASSUME NEW k \in Sockets,
               \/ AgentStep(k) \/ ReceiveAck(k) \/ ReceiveFails(k)
               \/ Attach(k) \/ LinkDown(k)
        PROVE  result'[r] = result[r]
    BY <1>4 DEF AgentStep, AgentTakes, AgentAnswers, ReceiveAck, ReceiveFails, Attach,
                LinkDown
  <1>5. CASE Detach \/ Sweep \/ Restart \/ UNCHANGED vars
    BY <1>5 DEF Detach, Sweep, Restart, vars
  <1> QED
    BY <1>2, <1>3, <1>4, <1>5 DEF Next, ReceiveStep

\* A recorded result never changes: no second "action.result" for the same
\* request reaches agent_websocket.
THEOREM ResultStays == Spec => ResultIsFinal
  <1>1. IndInv /\ [Next]_vars =>
          [\A r \in Requests : result[r] # "none" => result'[r] = result[r]]_vars
    BY ResultStep
  <1> QED
    BY Inductive, <1>1, PTL DEF Spec, ResultIsFinal

LEMMA FinalStep ==
    IndInv /\ [Next]_vars =>
      \A r \in Requests :
        (row[r] \in {"completed", "rejected"} /\ row'[r] # row[r])
          => submit[r] \in {"sent", "unsent"} /\ submit[r] # submit'[r]
  <1> SUFFICES ASSUME IndInv, [Next]_vars, NEW r \in Requests,
                      row[r] \in {"completed", "rejected"}, row'[r] # row[r]
               PROVE  submit[r] \in {"sent", "unsent"} /\ submit[r] # submit'[r]
    OBVIOUS
  <1> USE DEF rows, channel, lanes
  <1>1. /\ row \in [Requests -> RowState] /\ submit \in [Requests -> SubmitState]
        /\ result[r] # "none"
        /\ submit[r] \notin {"start", "create"}
    BY DEF IndInv, TypeOK, Phases, Early
  <1>2. ASSUME NEW q \in Requests, Create(q) PROVE FALSE
    BY <1>1, <1>2 DEF Create, UpdateStatus
  <1>3. ASSUME NEW q \in Requests, MarkDispatched(q) \/ MarkTimeout(q)
        PROVE  submit[r] \in {"sent", "unsent"} /\ submit[r] # submit'[r]
    BY <1>1, <1>3 DEF MarkDispatched, MarkTimeout, UpdateStatus, Goto
  <1>4. ASSUME NEW q \in Requests,
               \/ Refuse(q) \/ Admit(q) \/ Expire(q) \/ LookUp(q) \/ WriteFrame(q)
               \/ SendOk(q) \/ SendFails(q) \/ SubmitFails(q)
        PROVE  FALSE
    BY <1>4 DEF Refuse, Admit, Expire, LookUp, WriteFrame, SendOk, SendFails, SubmitFails
  <1>5. ASSUME NEW k \in Sockets, ReceiveAck(k) PROVE FALSE
    BY <1>1, <1>5, ReceivedAck
  <1>6. ASSUME NEW k \in Sockets, ReceiveResult(k) PROVE FALSE
    BY <1>1, <1>6, ReceivedResult
  <1>7. ASSUME NEW k \in Sockets, AgentStep(k) \/ ReceiveFails(k) \/ Attach(k) \/ LinkDown(k)
        PROVE  FALSE
    BY <1>7 DEF AgentStep, AgentTakes, AgentAnswers, ReceiveFails, Attach, LinkDown
  <1>8. CASE Sweep
    BY <1>1, <1>8 DEF Sweep, Stale
  <1>9. CASE Detach \/ Restart \/ UNCHANGED vars
    BY <1>9 DEF Detach, Restart, vars
  <1> QED
    BY <1>2, <1>3, <1>4, <1>5, <1>6, <1>7, <1>8, <1>9
    DEF Next, SubmitStep, ReceiveStep

\* Acks, expiry and other requests never overwrite a final status: only the
\* pending update_status of the request's own submit_request can.
THEOREM FinalStays == Spec => FinalUntilSubmit
  <1>1. IndInv /\ [Next]_vars =>
          [\A r \in Requests :
             (row[r] \in {"completed", "rejected"} /\ row'[r] # row[r])
               => submit[r] \in {"sent", "unsent"} /\ submit[r] # submit'[r]]_vars
    BY FinalStep
  <1> QED
    BY Inductive, <1>1, PTL DEF Spec, FinalUntilSubmit

LEMMA PendingStep == IndInv /\ PendingHasSubmitter /\ [Next]_vars => PendingHasSubmitter'
  <1> SUFFICES ASSUME IndInv, PendingHasSubmitter, [Next]_vars PROVE PendingHasSubmitter'
    OBVIOUS
  <1> USE DEF rows, channel, lanes, PendingHasSubmitter
  <1>1. /\ row \in [Requests -> RowState] /\ submit \in [Requests -> SubmitState]
        /\ \A r \in Requests : submit[r] \in {"start", "create"} => row[r] = "absent"
    BY DEF IndInv, TypeOK, Phases
  <1>2. ASSUME NEW q \in Requests, Create(q) PROVE PendingHasSubmitter'
    BY <1>1, <1>2 DEF Create, UpdateStatus, Goto
  <1>3. ASSUME NEW q \in Requests, MarkDispatched(q) \/ MarkTimeout(q)
        PROVE  PendingHasSubmitter'
    BY <1>1, <1>3 DEF MarkDispatched, MarkTimeout, UpdateStatus, Goto
  <1>4. ASSUME NEW q \in Requests,
               Refuse(q) \/ Admit(q) \/ LookUp(q) \/ SendOk(q) \/ SendFails(q)
        PROVE  PendingHasSubmitter'
    BY <1>1, <1>4 DEF Refuse, Admit, LookUp, SendOk, SendFails, Goto
  <1>5. ASSUME NEW q \in Requests, WriteFrame(q) \/ SubmitFails(q) \/ Expire(q)
        PROVE  PendingHasSubmitter'
    BY <1>1, <1>5 DEF WriteFrame, SubmitFails, Expire, Goto
  <1>6. ASSUME NEW k \in Sockets, ReceiveAck(k) PROVE PendingHasSubmitter'
    BY <1>1, <1>6, ReceivedAck
  <1>7. ASSUME NEW k \in Sockets, ReceiveResult(k) PROVE PendingHasSubmitter'
    BY <1>1, <1>7, ReceivedResult
  <1>8. ASSUME NEW k \in Sockets, AgentStep(k) \/ ReceiveFails(k) \/ Attach(k) \/ LinkDown(k)
        PROVE  PendingHasSubmitter'
    BY <1>8 DEF AgentStep, AgentTakes, AgentAnswers, ReceiveFails, Attach, LinkDown
  <1>9. CASE Sweep
    BY <1>1, <1>9 DEF Sweep, Stale
  <1>10. CASE Restart
    BY <1>1, <1>10 DEF Restart, Responded
  <1>11. CASE Detach \/ UNCHANGED vars
    BY <1>11 DEF Detach, vars
  <1> QED
    BY <1>2, <1>3, <1>4, <1>5, <1>6, <1>7, <1>8, <1>9, <1>10, <1>11
    DEF Next, SubmitStep, ReceiveStep

\* A row is left "pending" only by a submit_request that is still running, that
\* could not write the next status, or that died with the process.
THEOREM PendingIsExplained == Spec => []PendingHasSubmitter
  <1>1. Init => PendingHasSubmitter
    BY DEF Init, PendingHasSubmitter
  <1> QED
    BY Inductive, <1>1, PendingStep, PTL DEF Spec

-----------------------------------------------------------------------------
(* The rows, as their senders see them.                                    *)

\* A step of a submission is a step of its own record, and of no other.
LEMMA SubmitIsRecord ==
    ASSUME IndInv, NEW q \in Requests, Refuse(q) \/ Admit(q) \/ SubmitStep(q),
           NEW r \in Requests
    PROVE  [Record(r)!Next]_(Record(r)!vars)
  <1> USE DEF rows, channel, lanes, Goto, Responded
  <1>0. /\ row \in [Requests -> RowState] /\ submit \in [Requests -> SubmitState]
        /\ submit[q] \in {"start", "create"} => row[q] = "absent"
        /\ submit[q] \in Sending => row[q] # "absent"
    BY DEF IndInv, TypeOK, Phases
  <1>1. CASE Refuse(q) \/ SubmitFails(q)
    <2>1. UNCHANGED <<row, result>>
      BY <1>1 DEF Refuse, SubmitFails
    <2>2. CASE r = q
      BY <1>0, <1>1, <2>1, <2>2
      DEF Refuse, SubmitFails, Record!Next, Record!GiveUp
    <2>3. CASE r # q
      BY <1>0, <1>1, <2>1, <2>3 DEF Refuse, SubmitFails, Record!vars
    <2> QED
      BY <2>2, <2>3
  <1>2. CASE Create(q)
    <2>1. CASE r = q
      BY <1>0, <1>2, <2>1 DEF Create, UpdateStatus, Record!Next, Record!Create
    <2>2. CASE r # q
      BY <1>0, <1>2, <2>2 DEF Create, UpdateStatus, Record!vars
    <2> QED
      BY <2>1, <2>2
  <1>3. CASE MarkDispatched(q) \/ MarkTimeout(q)
    <2>1. CASE r = q
      BY <1>0, <1>3, <2>1
      DEF MarkDispatched, MarkTimeout, UpdateStatus, Sending, Record!Next, Record!Conclude
    <2>2. CASE r # q
      BY <1>0, <1>3, <2>2 DEF MarkDispatched, MarkTimeout, UpdateStatus, Record!vars
    <2> QED
      BY <2>1, <2>2
  <1>4. CASE Admit(q) \/ LookUp(q) \/ WriteFrame(q) \/ SendOk(q) \/ SendFails(q)
    BY <1>0, <1>4 DEF Admit, LookUp, WriteFrame, SendOk, SendFails, Record!vars
  <1> QED
    BY <1>1, <1>2, <1>3, <1>4 DEF SubmitStep

LEMMA RecordStep ==
    ASSUME IndInv, [Next]_vars, NEW r \in Requests
    PROVE  [Record(r)!Next]_(Record(r)!vars)
  <1> USE DEF rows, channel, lanes
  <1>0. /\ row \in [Requests -> RowState] /\ submit \in [Requests -> SubmitState]
        /\ result \in [Requests -> Answer \cup {"none"}]
    BY DEF IndInv, TypeOK
  <1>1. ASSUME NEW q \in Requests, Refuse(q) \/ Admit(q) \/ SubmitStep(q)
        PROVE  [Record(r)!Next]_(Record(r)!vars)
    BY <1>1, SubmitIsRecord
  <1>2. ASSUME NEW k \in Sockets, ReceiveAck(k)
        PROVE  [Record(r)!Next]_(Record(r)!vars)
    BY <1>0, <1>2, ReceivedAck DEF Record!Next, Record!Acknowledge, Record!vars
  <1>3. ASSUME NEW k \in Sockets, ReceiveResult(k)
        PROVE  [Record(r)!Next]_(Record(r)!vars)
    <2>1. PICK q \in Requests, a \in Answer :
             /\ row[q] # "absent" /\ result[q] = "none"
             /\ row' = [row EXCEPT ![q] = IF a = "completed" THEN "completed" ELSE "rejected"]
             /\ result' = [result EXCEPT ![q] = a]
             /\ UNCHANGED submit
      BY <1>3, ReceivedResult
    <2>2. CASE r = q
      BY <1>0, <2>1, <2>2
      DEF Answer, Record!Next, Record!AnswerOnce, Record!Conclusion
    <2>3. CASE r # q
      BY <1>0, <2>1, <2>3 DEF Record!vars
    <2> QED
      BY <2>2, <2>3
  <1>4. CASE Sweep
    BY <1>0, <1>4 DEF Sweep, Stale, Record!Next, Record!Expire, Record!vars
  <1>5. CASE Restart
    BY <1>0, <1>5 DEF Restart, Responded, Record!Next, Record!GiveUp, Record!vars
  <1>6. CASE UNCHANGED <<row, result, submit>>
    BY <1>6 DEF Record!vars
  <1>7. ASSUME NEW q \in Requests, Expire(q) PROVE UNCHANGED <<row, result, submit>>
    BY <1>7 DEF Expire
  <1>8. ASSUME NEW k \in Sockets, AgentStep(k) \/ ReceiveFails(k) \/ Attach(k) \/ LinkDown(k)
        PROVE  UNCHANGED <<row, result, submit>>
    BY <1>8 DEF AgentStep, AgentTakes, AgentAnswers, ReceiveFails, Attach, LinkDown
  <1>9. CASE Detach \/ UNCHANGED vars
    BY <1>6, <1>9 DEF Detach, vars
  <1> QED
    BY <1>1, <1>2, <1>3, <1>4, <1>5, <1>6, <1>7, <1>8, <1>9 DEF Next, ReceiveStep

\* Refinement: what a sender polls is what RequestRecord promises, one
\* acknowledgement before one answer, and one last write by the POST, whatever
\* happens to the sockets, the frames and the process.
THEOREM RowsAreRecords == Spec => ImplementsRecord
  <1>1. Init => \A r \in Requests : Record(r)!Init
    <2>1. ASSUME Init, NEW r \in Requests PROVE Record(r)!Init
      <3>1. row[r] = "absent" /\ result[r] = "none" /\ submit[r] = "start"
        BY <2>1 DEF Init
      <3> QED
        BY <3>1 DEF Record!Init, Responded
    <2> QED
      BY <2>1
  <1>2. IndInv /\ [Next]_vars =>
          [\A r \in Requests : [Record(r)!Next]_(Record(r)!vars)]_vars
    BY RecordStep
  <1> QED
    BY <1>1, <1>2, Inductive, PTL DEF Spec, ImplementsRecord

-----------------------------------------------------------------------------
(* How far the claim that the code does not keep is from being kept.       *)

\* A result without a final status has been written over by its own POST, which
\* has responded: 202 and "dispatched" (which a sweeper may make "timeout" once
\* it is past its expiry), or 503 and "timeout".
OnlySubmitHides ==
    \A r \in Requests :
        (result[r] # "none" /\ row[r] \notin {"completed", "rejected"}) =>
            \/ /\ submit[r] = "accepted"
               /\ row[r] = "dispatched" \/ (SweeperRuns /\ expired[r] /\ row[r] = "timeout")
            \/ submit[r] = "refused" /\ row[r] = "timeout"

LEMMA HidesStep == IndInv /\ OnlySubmitHides /\ [Next]_vars => OnlySubmitHides'
  <1> SUFFICES ASSUME IndInv, OnlySubmitHides, [Next]_vars PROVE OnlySubmitHides'
    OBVIOUS
  <1> USE DEF rows, channel, lanes, OnlySubmitHides
  <1>0. /\ row \in [Requests -> RowState] /\ submit \in [Requests -> SubmitState]
        /\ expired \in [Requests -> BOOLEAN]
        /\ result \in [Requests -> Answer \cup {"none"}]
        /\ \A r \in Requests : submit[r] \in Early => result[r] = "none"
    BY DEF IndInv, TypeOK, Phases
  <1>1. ASSUME NEW q \in Requests, Create(q) PROVE OnlySubmitHides'
    BY <1>0, <1>1 DEF Create, UpdateStatus, Goto, Early
  <1>2. ASSUME NEW q \in Requests, MarkDispatched(q) \/ MarkTimeout(q)
        PROVE  OnlySubmitHides'
    BY <1>0, <1>2 DEF MarkDispatched, MarkTimeout, UpdateStatus, Goto
  <1>3. ASSUME NEW q \in Requests,
               \/ Refuse(q) \/ Admit(q) \/ LookUp(q) \/ WriteFrame(q) \/ SendOk(q)
               \/ SendFails(q) \/ SubmitFails(q)
        PROVE  OnlySubmitHides'
    BY <1>0, <1>3 DEF Refuse, Admit, LookUp, WriteFrame, SendOk, SendFails, SubmitFails,
                      Goto, Early
  <1>4. ASSUME NEW q \in Requests, Expire(q) PROVE OnlySubmitHides'
    BY <1>0, <1>4 DEF Expire
  <1>5. ASSUME NEW k \in Sockets, ReceiveAck(k) PROVE OnlySubmitHides'
    BY <1>0, <1>5, ReceivedAck
  <1>6. ASSUME NEW k \in Sockets, ReceiveResult(k) PROVE OnlySubmitHides'
    BY <1>0, <1>6, ReceivedResult
  <1>7. ASSUME NEW k \in Sockets, AgentStep(k) \/ ReceiveFails(k) \/ Attach(k) \/ LinkDown(k)
        PROVE  OnlySubmitHides'
    BY <1>7 DEF AgentStep, AgentTakes, AgentAnswers, ReceiveFails, Attach, LinkDown
  <1>8. CASE Sweep
    BY <1>0, <1>8 DEF Sweep, Stale
  <1>9. CASE Restart
    BY <1>0, <1>9 DEF Restart, Responded
  <1>10. CASE Detach \/ UNCHANGED vars
    BY <1>10 DEF Detach, vars
  <1> QED
    BY <1>1, <1>2, <1>3, <1>4, <1>5, <1>6, <1>7, <1>8, <1>9, <1>10
    DEF Next, SubmitStep, ReceiveStep

\* The status that a poll shows beside the agent's result is the final one unless
\* the request's own submit_request has written over it (requests.py:105-108): no
\* fault, restart, other socket or other request can hide an outcome.
THEOREM OutcomesAreHiddenBySubmit == Spec => []OnlySubmitHides
  <1>1. Init => OnlySubmitHides
    BY DEF Init, OnlySubmitHides
  <1> QED
    BY <1>1, Inductive, HidesStep, PTL DEF Spec
=============================================================================
