--------------------------- MODULE LidarNode_proofs ---------------------------
(* What LidarNode guarantees for queues of any capacity, any number of       *)
(* packets underway and activations of any length; and what LidarSockets     *)
(* guarantees of the two sockets of its inputs, for any number of            *)
(* descriptors, inputs and other threads.                                    *)
EXTENDS LidarNode, LidarSockets, SequenceTheorems, FiniteSetTheorems, WellFoundedInduction, TLAPS

LifecycleStates == {"unconfigured", "inactive", "active", "finalized", "destroyed", "terminated"}
Callbacks       == {"none", "activate", "deactivate", "cleanup", "shutdown", "destroy"}
ActivateAt      == {"pubon", "init", "spawn", "drive", "undo"}
StopAt          == {"unfeed", "exit", "djoin", "flag", "wjoin"}
CtlPoints       == {"idle", "reset", "puboff", "drop"} \cup ActivateAt \cup StopAt
DecPoints       == {"none", "test", "pop", "packet", "submit", "acquire", "done"}
WrkPoints       == {"none", "test", "wait", "convert", "publish", "recycle", "done"}

PointsOK ==
  /\ lstate \in LifecycleStates /\ call \in Callbacks /\ ctl \in CtlPoints
  /\ publishers \in {"none", "inactive", "active"}
  /\ source \in {"none", "built", "inited", "started"} /\ sockets \in {"closed", "open"}
  /\ dec \in DecPoints /\ wrk \in WrkPoints /\ feeding \in BOOLEAN

(* Which callback runs which statements, and in which state of the node.     *)
CallShape ==
  /\ ctl = "idle" <=> call = "none"
  /\ ctl \in ActivateAt => call = "activate" /\ lstate = "inactive"
  /\ ctl \in StopAt => call \in {"deactivate", "shutdown", "destroy"} /\ lstate = "active"
  /\ ctl \in {"reset", "puboff", "drop"} => call \in {"deactivate", "cleanup", "shutdown", "destroy"}
  /\ ctl \in {"puboff", "drop"} => (ctl = "puboff" <=> call = "deactivate")
  /\ lstate \in {"destroyed", "terminated"} => ctl = "idle"

(* What there is of the source at each statement.                            *)
SourceShape ==
  /\ ctl = "idle" => \/ lstate = "active" /\ source = "started"
                     \/ lstate = "terminated" /\ source = "inited"
                     \/ lstate \notin {"active", "terminated"} /\ source = "none"
  /\ ctl \in {"pubon", "puboff", "drop"} => source = "none"
  /\ ctl = "init" => source = "built"
  /\ ctl \in {"spawn", "drive"} => source = "inited"
  /\ ctl = "undo" => source \in {"built", "inited"}
  /\ ctl \in StopAt => source = "started"
  /\ ctl = "reset" => source = IF lstate = "active" THEN "started" ELSE "none"
  /\ sockets = "open" <=> source \in {"inited", "started"}

(* Each thread lives from its start in on_activate to its join.              *)
ThreadShape ==
  /\ feeding <=> source = "started" /\ ctl \in {"idle", "unfeed"}
  /\ dec # "none" <=> source = "started" /\ ctl \in {"idle", "unfeed", "exit", "djoin"}
  /\ wrk # "none" <=> ctl = "drive" \/ (source = "started" /\ ctl \in {"idle"} \cup StopAt)

(* The publishers are activated before the threads and outlive them.         *)
PublisherShape ==
  /\ ctl \in {"init", "spawn", "drive", "undo"} \/ source = "started" => publishers = "active"
  /\ ctl = "idle" /\ lstate \in {"unconfigured", "inactive", "finalized"} => publishers # "active"
  /\ ctl = "pubon" => publishers # "active"

NodeInv == PointsOK /\ CallShape /\ SourceShape /\ ThreadShape /\ PublisherShape

-----------------------------------------------------------------------------
CloudsOK ==
  /\ free \in Seq(Clouds) /\ Len(free) <= QueueCap
  /\ filled \in Seq(Clouds) /\ Len(filled) <= QueueCap
  /\ cur \in Clouds \cup {NoCloud} /\ inHand \in Clouds \cup {NoCloud}
  /\ points \in [Clouds -> Nat] /\ seq \in Nat \ {0}
  /\ frame \in Nat /\ published \in Nat

(* A cloud is where the threads can reach it as long as they use it.         *)
Reachable ==
  /\ cur # NoCloud <=> source \in {"inited", "started"}
  /\ inHand # NoCloud <=> wrk \in {"convert", "publish", "recycle"}
  /\ source # "started" => filled = <<>> /\ inHand = NoCloud

(* CloudsOwnedOnce, position by position.                                    *)
Held == (IF dec = "acquire" THEN {} ELSE {cur}) \ {NoCloud}
OwnedOnce ==
  /\ \A i, j \in 1 .. Len(free) : free[i] = free[j] => i = j
  /\ \A i, j \in 1 .. Len(filled) : filled[i] = filled[j] => i = j
  /\ \A i \in 1 .. Len(free), j \in 1 .. Len(filled) : free[i] # filled[j]
  /\ \A i \in 1 .. Len(free) : free[i] \notin Held \cup {inHand}
  /\ \A i \in 1 .. Len(filled) : filled[i] \notin Held \cup {inHand}
  /\ inHand \notin Held

CloudInv == CloudsOK /\ Reachable /\ OwnedOnce

(* The revolutions on their way, oldest first: the one published last, the   *)
(* worker's, those in the queue, the decoder's.                              *)
Ordered ==
  /\ \A i \in 1 .. Len(filled) : published < points[filled[i]] /\ points[filled[i]] < seq
  /\ \A i, j \in 1 .. Len(filled) : i < j => points[filled[i]] < points[filled[j]]
  /\ published < seq
  /\ \A c \in Held : points[c] \in {0, seq}
  /\ dec = "submit" => points[cur] = seq
  /\ inHand # NoCloud =>
       /\ points[inHand] < seq
       /\ \A i \in 1 .. Len(filled) : points[inHand] < points[filled[i]]
  /\ wrk \in {"convert", "publish"} => published < points[inHand]
  /\ wrk = "publish" => frame = points[inHand]
  /\ source \in {"none", "built"} => \A c \in Clouds : points[c] = 0

-----------------------------------------------------------------------------
(* NodeInv is inductive, statement by statement of the three threads.        *)
LEMMA NodeInvStep == NodeInv /\ [Next]_vars => NodeInv'
<1> SUFFICES ASSUME NodeInv, [Next]_vars PROVE NodeInv'
  OBVIOUS
<1> USE DEF NodeInv, PointsOK, LifecycleStates, Callbacks, ActivateAt, StopAt, CtlPoints,
            DecPoints, WrkPoints, nodeVars, diagVars, openVars, decVars, workVars, flagVars,
            Idle, Enter, Finish, Request, Closing, DriverInit
<1>1. CASE Configure \/ ConfigureThrows
  BY <1>1 DEF Configure, ConfigureThrows, CallShape, SourceShape, ThreadShape, PublisherShape
<1>2. CASE Activate \/ Deactivate \/ Cleanup \/ Shutdown \/ Destroy
  BY <1>2 DEF Activate, Deactivate, Cleanup, Shutdown, Destroy,
              CallShape, SourceShape, ThreadShape, PublisherShape
<1>3. CASE ActivatePublishers \/ SourceInit \/ SpawnWorker
  BY <1>3 DEF ActivatePublishers, SourceInit, SpawnWorker,
              CallShape, SourceShape, ThreadShape, PublisherShape
<1>4. CASE StartDriver \/ ActivateUndo
  <2>1. CASE StartDriver
    <3>1. PointsOK'
      BY <2>1 DEF StartDriver
    <3>2. CallShape'
      BY <2>1 DEF StartDriver, CallShape
    <3>3. SourceShape'
      BY <2>1 DEF StartDriver, SourceShape, CallShape
    <3>4. ThreadShape'
      BY <2>1 DEF StartDriver, ThreadShape, SourceShape
    <3>5. PublisherShape'
      BY <2>1 DEF StartDriver, PublisherShape, SourceShape
    <3> QED BY <3>1, <3>2, <3>3, <3>4, <3>5
  <2>2. CASE ActivateUndo
    <3>1. source' = "none" /\ sockets' = "closed"
      BY <2>2 DEF ActivateUndo, SourceGone
    <3> QED BY <2>2, <3>1 DEF ActivateUndo, CallShape, SourceShape, ThreadShape, PublisherShape
  <2> QED BY <1>4, <2>1, <2>2
<1>5. CASE StopFeeding \/ StopDecoder \/ JoinDecoder \/ StopWorker \/ JoinWorker
  <2>1. CASE StopFeeding
    BY <2>1 DEF StopFeeding, CallShape, SourceShape, ThreadShape, PublisherShape
  <2>2. CASE StopDecoder
    BY <2>2 DEF StopDecoder, CallShape, SourceShape, ThreadShape, PublisherShape
  <2>3. CASE JoinDecoder
    BY <2>3 DEF JoinDecoder, CallShape, SourceShape, ThreadShape, PublisherShape
  <2>4. CASE StopWorker \/ JoinWorker
    BY <2>4 DEF StopWorker, JoinWorker, CallShape, SourceShape, ThreadShape, PublisherShape
  <2> QED BY <1>5, <2>1, <2>2, <2>3, <2>4
<1>6. CASE ResetSource \/ PublishersOff \/ ReleasePipeline
  <2>1. CASE ResetSource
    <3>1. source' = "none" /\ sockets' = "closed"
      BY <2>1 DEF ResetSource, SourceGone
    <3> QED BY <2>1, <3>1 DEF ResetSource, CallShape, SourceShape, ThreadShape, PublisherShape
  <2>2. CASE PublishersOff
    BY <2>2 DEF PublishersOff, CallShape, SourceShape, ThreadShape, PublisherShape
  <2>3. CASE ReleasePipeline
    BY <2>3 DEF ReleasePipeline, CallShape, SourceShape, ThreadShape, PublisherShape
  <2> QED BY <1>6, <2>1, <2>2, <2>3
<1>7. CASE DecStep
  BY <1>7 DEF DecStep, DecTest, DecPop, DecPacket, DecBatchDone, DecSubmit, DecAcquire, DecUnchanged,
              CallShape, SourceShape, ThreadShape, PublisherShape
<1>8. CASE WrkStep
  BY <1>8 DEF WrkStep, WrkTest, WrkWait, WrkConvert, WrkPublish, WrkRecycle, WrkUnchanged,
              CallShape, SourceShape, ThreadShape, PublisherShape
<1>9. CASE Diagnose \/ Receive \/ Contend \/ UNCHANGED vars
  BY <1>9 DEF Diagnose, Receive, Contend, vars, CallShape, SourceShape, ThreadShape, PublisherShape
<1> QED BY <1>1, <1>2, <1>3, <1>4, <1>5, <1>6, <1>7, <1>8, <1>9 DEF Next, CtlRequest, CtlStep

(* The source, its threads and the publishers exist where the callbacks      *)
(* build and drop them, in every interleaving of the three threads.          *)
THEOREM NodeInvariant == Spec => []NodeInv
<1>1. Init => NodeInv
  BY DEF Init, NodeInv, PointsOK, LifecycleStates, Callbacks, ActivateAt, StopAt, CtlPoints,
         DecPoints, WrkPoints, CallShape, SourceShape, ThreadShape, PublisherShape
<1> QED BY <1>1, NodeInvStep, PTL DEF Spec

(* "The sensor is opened in on_activate and closed in on_deactivate": a node *)
(* that is not active has no socket, no source and no thread, however its    *)
(* callbacks failed and its threads interleaved.                             *)
THEOREM ReleasesSockets == Spec => []SocketsReleased
<1>1. NodeInv => SocketsReleased
  BY DEF NodeInv, SocketsReleased, PointsOK, SourceShape, ThreadShape
<1> QED BY <1>1, NodeInvariant, PTL

(* The source is never destroyed under one of its threads.                   *)
THEOREM AbandonsNoThread == Spec => []NoThreadAbandoned
<1>1. NodeInv => NoThreadAbandoned
  BY DEF NodeInv, NoThreadAbandoned, SourceShape, ThreadShape, StopAt
<1> QED BY <1>1, NodeInvariant, PTL

-----------------------------------------------------------------------------
(* A non-empty set of natural numbers has a least element.                   *)
LEMMA LeastNatural ==
  ASSUME NEW S \in SUBSET Nat, S # {}
  PROVE  \E x \in S : \A y \in S : x <= y
<1> DEFINE R == {ss \in Nat \X Nat : ss[1] < ss[2]}
<1>1. IsWellFoundedOn(R, Nat)
  BY NatLessThanWellFounded, Zenon DEF OpToRel
<1> HIDE DEF R
<1>2. PICK x \in S : \A y \in S : ~(<<y, x>> \in R)
  BY <1>1, WFMin
<1>3. ASSUME NEW y \in S PROVE x <= y
  <2>1. <<y, x>> \notin R
    BY <1>2
  <2>2. x \in Nat /\ y \in Nat /\ ~(y < x)
    BY <2>1 DEF R
  <2> QED BY <2>2
<1> QED BY <1>3

(* A sequence has no more elements than positions.                           *)
LEMMA FewElements ==
  ASSUME NEW S, NEW s \in Seq(S)
  PROVE  IsFiniteSet(ToSet(s)) /\ Cardinality(ToSet(s)) <= Len(s)
<1>1. DOMAIN s = 1 .. Len(s) /\ Len(s) \in Nat
  BY LenProperties
<1>2. IsFiniteSet(1 .. Len(s)) /\ Cardinality(1 .. Len(s)) = Len(s)
  BY <1>1, FS_Interval
<1>3. s \in Surjection(1 .. Len(s), ToSet(s))
  <2>1. s \in [1 .. Len(s) -> ToSet(s)]
    BY LenProperties DEF ToSet
  <2> QED BY <1>1, <2>1 DEF Surjection, ToSet
<1> QED BY <1>2, <1>3, FS_Surjection

(* One element more.                                                         *)
LEMMA OneMore ==
  ASSUME NEW S, IsFiniteSet(S), NEW n \in Nat, Cardinality(S) <= n, NEW x
  PROVE  IsFiniteSet(S \cup {x}) /\ Cardinality(S \cup {x}) <= n + 1
<1>1. Cardinality(S) \in Nat
  BY FS_CardinalityType
<1>2. IsFiniteSet(S \cup {x})
      /\ Cardinality(S \cup {x}) = IF x \in S THEN Cardinality(S) ELSE Cardinality(S) + 1
  BY FS_AddElement
<1> QED BY <1>1, <1>2

(* There is always a buffer to allocate: one queue's worth and the two in    *)
(* the threads' hands are not all.                                           *)
LEMMA Spare ==
  ASSUME NEW s \in Seq(Clouds), Len(s) <= QueueCap, NEW a, NEW b
  PROVE  \E c \in Clouds : /\ c \notin ToSet(s) \cup {a, b}
                           /\ \A d \in 1 .. c - 1 : d \in ToSet(s) \cup {a, b}
<1> DEFINE U == ToSet(s) \cup {a, b}
           F == Clouds \ U
<1>1. QueueCap \in Nat /\ Len(s) \in Nat
  BY LimitsAssumption, LenProperties
<1>2. IsFiniteSet(U) /\ Cardinality(U) <= QueueCap + 2
  <2>1. IsFiniteSet(ToSet(s)) /\ Cardinality(ToSet(s)) <= QueueCap
    <3>1. Cardinality(ToSet(s)) \in Nat
      BY FewElements, FS_CardinalityType
    <3> QED BY <1>1, <3>1, FewElements
  <2>2. IsFiniteSet(ToSet(s) \cup {a}) /\ Cardinality(ToSet(s) \cup {a}) <= QueueCap + 1
    BY <1>1, <2>1, OneMore
  <2>3. /\ IsFiniteSet((ToSet(s) \cup {a}) \cup {b})
        /\ Cardinality((ToSet(s) \cup {a}) \cup {b}) <= QueueCap + 2
    <3>1. QueueCap + 1 \in Nat /\ (QueueCap + 1) + 1 = QueueCap + 2
      BY <1>1
    <3>2. /\ IsFiniteSet((ToSet(s) \cup {a}) \cup {b})
          /\ Cardinality((ToSet(s) \cup {a}) \cup {b}) <= (QueueCap + 1) + 1
      BY <2>2, <3>1, OneMore
    <3> QED BY <3>1, <3>2
  <2>4. U = (ToSet(s) \cup {a}) \cup {b}
    OBVIOUS
  <2> QED BY <2>3, <2>4
<1>3. Cardinality(Clouds) = QueueCap + 3
  BY <1>1, FS_Interval DEF Clouds
<1>4. F # {}
  <2> SUFFICES ASSUME F = {} PROVE FALSE
    OBVIOUS
  <2>1. Clouds \in SUBSET U
    OBVIOUS
  <2>2. Cardinality(Clouds) <= Cardinality(U) /\ Cardinality(U) \in Nat
    BY <1>2, <2>1, FS_Subset, FS_CardinalityType
  <2> QED BY <1>1, <1>2, <1>3, <2>2
<1>5. F \in SUBSET Nat
  BY DEF Clouds
<1>6. PICK c \in F : \A d \in F : c <= d
  BY <1>4, <1>5, LeastNatural
<1>7. \A d \in 1 .. c - 1 : d \in Clouds /\ d \notin F
  BY <1>1, <1>6 DEF Clouds
<1> QED BY <1>6, <1>7

(* What acquireCloud hands out is in nobody's hands and in no queue.         *)
LEMMA Acquiring ==
  ASSUME CloudsOK, OwnedOnce
  PROVE  /\ Acquired \in Clouds /\ Acquired # inHand
         /\ FreeAfter \in Seq(Clouds) /\ Len(FreeAfter) <= QueueCap
         /\ \A i \in 1 .. Len(filled) : filled[i] # Acquired
         /\ \A i \in 1 .. Len(FreeAfter) : FreeAfter[i] # Acquired
         /\ \A i \in 1 .. Len(FreeAfter) : \E j \in 1 .. Len(free) : FreeAfter[i] = free[j]
         /\ \A i, j \in 1 .. Len(FreeAfter) : FreeAfter[i] = FreeAfter[j] => i = j
<1>0. QueueCap \in Nat /\ Len(free) \in Nat /\ Len(filled) \in Nat
  BY LimitsAssumption, LenProperties DEF CloudsOK
<1>1. CASE free # <<>>
  <2>1. /\ Acquired = Head(free) /\ FreeAfter = Tail(free)
    BY <1>1 DEF Acquired, FreeAfter
  <2>2. /\ Len(free) > 0 /\ Head(free) = free[1] /\ Tail(free) \in Seq(Clouds)
        /\ Len(Tail(free)) = Len(free) - 1
        /\ \A i \in 1 .. Len(Tail(free)) : Tail(free)[i] = free[i + 1]
    BY <1>1, HeadTailProperties DEF CloudsOK
  <2>3. free[1] \in Clouds /\ free[1] # inHand
    BY <1>0, <2>2, ElementOfSeq DEF CloudsOK, OwnedOnce
  <2>4. \A i \in 1 .. Len(filled) : filled[i] # free[1]
    BY <1>0, <2>2 DEF OwnedOnce
  <2>5. \A i \in 1 .. Len(Tail(free)) : i + 1 \in 1 .. Len(free) /\ i + 1 # 1
    BY <1>0, <2>2
  <2>6. \A i \in 1 .. Len(Tail(free)) : Tail(free)[i] # free[1]
    BY <1>0, <2>2, <2>5 DEF OwnedOnce
  <2>7. \A i, j \in 1 .. Len(Tail(free)) : Tail(free)[i] = Tail(free)[j] => i = j
    BY <1>0, <2>2, <2>5 DEF OwnedOnce
  <2>8. Len(Tail(free)) <= QueueCap
    BY <1>0, <2>2 DEF CloudsOK
  <2> QED BY <2>1, <2>2, <2>3, <2>4, <2>5, <2>6, <2>7, <2>8
<1>2. CASE free = <<>>
  <2> DEFINE Fresh(c) == c \notin InUse /\ \A d \in 1 .. c - 1 : d \in InUse
  <2>1. InUse = ToSet(filled) \cup {cur, inHand}
    BY <1>2 DEF InUse, ToSet
  <2>2. \E c \in Clouds : Fresh(c)
    <3>1. filled \in Seq(Clouds) /\ Len(filled) <= QueueCap
      BY DEF CloudsOK
    <3>2. \E c \in Clouds : /\ c \notin ToSet(filled) \cup {cur, inHand}
                            /\ \A d \in 1 .. c - 1 : d \in ToSet(filled) \cup {cur, inHand}
      BY <3>1, Spare
    <3> QED BY <2>1, <3>2
  <2>3. Acquired = CHOOSE c \in Clouds : Fresh(c)
    BY <1>2 DEF Acquired
  <2> HIDE DEF Fresh
  <2>4. Acquired \in Clouds /\ Fresh(Acquired)
    BY <2>2, <2>3
  <2>5. Acquired \notin ToSet(filled) /\ Acquired # inHand
    BY <2>1, <2>4 DEF Fresh
  <2>6. \A i \in 1 .. Len(filled) : filled[i] # Acquired
    BY <2>5, LenProperties DEF ToSet, CloudsOK
  <2>7. FreeAfter = <<>> /\ Len(FreeAfter) = 0
    BY <1>2 DEF FreeAfter
  <2> QED BY <1>0, <2>4, <2>5, <2>6, <2>7, EmptySeq
<1> QED BY <1>1, <1>2

(* What push() leaves in a queue, dropped or not.                            *)
LEMMA Pushing ==
  ASSUME NEW q \in Seq(Clouds), Len(q) <= QueueCap, NEW c \in Clouds
  PROVE  /\ Push(q, c) \in Seq(Clouds) /\ Len(Push(q, c)) <= QueueCap
         /\ Len(Push(q, c)) \in Len(q) .. Len(q) + 1
         /\ \A i \in 1 .. Len(Push(q, c)) : \/ i \in 1 .. Len(q) /\ Push(q, c)[i] = q[i]
                                            \/ i = Len(q) + 1 /\ Push(q, c)[i] = c
<1>1. QueueCap \in Nat /\ Len(q) \in Nat
  BY LimitsAssumption, LenProperties
<1>2. CASE Len(q) < QueueCap
  <2>1. Push(q, c) = Append(q, c)
    BY <1>2 DEF Push
  <2> QED BY <1>1, <1>2, <2>1, AppendProperties
<1>3. CASE ~(Len(q) < QueueCap)
  <2>1. Push(q, c) = q
    BY <1>3 DEF Push
  <2> QED BY <1>1, <2>1
<1> QED BY <1>2, <1>3

(* The buffers stay where the threads look for them and in one place each.   *)
LEMMA CloudInvStep == NodeInv /\ CloudInv /\ [Next]_vars => CloudInv'
<1> SUFFICES ASSUME NodeInv, CloudInv, [Next]_vars PROVE CloudInv'
  OBVIOUS
<1> USE DEF CloudInv, NoCloud
<1>0. QueueCap \in Nat /\ Len(free) \in Nat /\ Len(filled) \in Nat /\ NoCloud \notin Clouds
  BY LimitsAssumption, LenProperties DEF CloudsOK, Clouds
<1>1. ASSUME UNCHANGED <<cur, inHand, free, filled, points, seq, published>>,
             frame' \in Nat, dec = "acquire" <=> dec' = "acquire", Reachable'
      PROVE  CloudInv'
  <2>1. CloudsOK'
    BY <1>1 DEF CloudsOK
  <2>2. OwnedOnce'
    BY <1>1 DEF OwnedOnce, Held
  <2> QED BY <1>1, <2>1, <2>2
<1>2. CASE CtlRequest \/ ActivatePublishers \/ SpawnWorker \/ StartDriver
  <2> USE DEF Configure, ConfigureThrows, Activate, Deactivate, Cleanup, Shutdown, Destroy, Request,
              ActivatePublishers, SpawnWorker, StartDriver
  <2>1. UNCHANGED <<cur, inHand, free, filled, points, seq, published, frame>>
    BY <1>2 DEF CtlRequest, decVars, workVars, cloudVars
  <2>2. dec = "acquire" <=> dec' = "acquire"
    BY <1>2 DEF CtlRequest, decVars, NodeInv, SourceShape, ThreadShape
  <2>3. Reachable'
    BY <1>2, <2>1 DEF CtlRequest, decVars, workVars, openVars, Reachable, NodeInv, SourceShape, ThreadShape
  <2> QED BY <1>1, <2>1, <2>2, <2>3 DEF CloudsOK
<1>3. CASE StopFeeding \/ StopDecoder \/ StopWorker \/ JoinWorker \/ PublishersOff \/ ReleasePipeline
  <2> USE DEF StopFeeding, StopDecoder, StopWorker, JoinWorker, PublishersOff, ReleasePipeline
  <2>1. UNCHANGED <<cur, inHand, free, filled, points, seq, published, dec, source>> /\ frame' \in Nat
    BY <1>3 DEF decVars, workVars, cloudVars, openVars, CloudsOK
  <2>2. Reachable'
    BY <1>3, <2>1 DEF workVars, Reachable
  <2> QED BY <1>1, <2>1, <2>2
<1>4. CASE Diagnose \/ Receive \/ Contend \/ UNCHANGED vars
  <2> USE DEF Diagnose, Receive, Contend, vars
  <2>1. UNCHANGED <<cur, inHand, free, filled, points, seq, published, frame, dec, source, wrk>>
    BY <1>4 DEF decVars, workVars, cloudVars, openVars
  <2> QED BY <1>1, <2>1 DEF Reachable, CloudsOK
<1>5. CASE SourceInit
  <2>1. dec = "none" /\ dec' = "none" /\ source # "started" /\ filled = <<>> /\ inHand = NoCloud
    BY <1>5 DEF SourceInit, NodeInv, SourceShape, ThreadShape, Reachable
  <2>2. UNCHANGED <<inHand, filled, points, seq, published, frame, wrk>>
    BY <1>5 DEF SourceInit, workVars
  <2>3. CASE DriverInit /\ source' = "inited"
    <3>1. cur' = Acquired /\ free' = FreeAfter
      BY <2>3 DEF DriverInit
    <3>2. CloudsOK'
      BY <2>2, <3>1, Acquiring DEF CloudsOK
    <3>3. Reachable'
      BY <1>0, <2>1, <2>2, <2>3, <3>1, Acquiring DEF Reachable
    <3>4. OwnedOnce'
      <4>1. Held' = {Acquired}
        BY <1>0, <2>1, <3>1, Acquiring DEF Held
      <4>2. Len(filled') = 0
        BY <2>1, <2>2
      <4>3. \A i \in 1 .. Len(FreeAfter) : FreeAfter[i] # NoCloud
        BY <1>0, Acquiring, ElementOfSeq
      <4> QED BY <1>0, <2>1, <2>2, <3>1, <4>1, <4>2, <4>3, Acquiring DEF OwnedOnce
    <3> QED BY <3>2, <3>3, <3>4
  <2>4. CASE UNCHANGED <<sockets, source, cur, free>>
    <3>1. Reachable'
      BY <2>2, <2>4 DEF Reachable
    <3> QED BY <1>1, <2>1, <2>2, <2>4, <3>1 DEF CloudsOK
  <2> QED BY <1>5, <2>3, <2>4 DEF SourceInit
<1>6. CASE ActivateUndo \/ ResetSource
  <2>1. dec' = "none" /\ wrk' = "none" /\ inHand = NoCloud /\ inHand' = inHand /\ frame' = frame
    BY <1>6 DEF ActivateUndo, ResetSource, NodeInv, SourceShape, ThreadShape, Reachable, StopAt
  <2>2. SourceGone
    BY <1>6 DEF ActivateUndo, ResetSource
  <2>3. /\ free' = <<>> /\ filled' = <<>> /\ cur' = NoCloud /\ seq' = 1 /\ published' = 0
        /\ source' = "none" /\ points' \in [Clouds -> Nat]
    BY <2>2 DEF SourceGone
  <2>4. <<>> \in Seq(Clouds) /\ Len(<<>>) = 0
    BY EmptySeq
  <2>5. CloudsOK'
    BY <1>0, <2>1, <2>3, <2>4 DEF CloudsOK
  <2>6. Reachable' /\ OwnedOnce'
    BY <2>1, <2>3, <2>4 DEF Reachable, OwnedOnce, Held
  <2> QED BY <2>5, <2>6
<1>7. ASSUME UNCHANGED <<cur, inHand, free, filled, frame, published, source, wrk>>,
             dec # "acquire", dec' # "acquire", points' \in [Clouds -> Nat], seq' \in Nat \ {0}
      PROVE  CloudInv'
  <2>1. CloudsOK'
    BY <1>7 DEF CloudsOK
  <2>2. OwnedOnce' /\ Reachable'
    BY <1>7 DEF OwnedOnce, Held, Reachable
  <2> QED BY <2>1, <2>2
<1>8. CASE JoinDecoder \/ DecTest \/ DecPop \/ DecPacket \/ DecBatchDone
  <2> USE DEF JoinDecoder, DecTest, DecPop, DecPacket, DecBatchDone, DecUnchanged
  <2>1. UNCHANGED <<cur, inHand, free, filled, frame, published, source, wrk, seq>>
    BY <1>8 DEF openVars, workVars, cloudVars
  <2>2. dec # "acquire" /\ dec' # "acquire"
    BY <1>8
  <2>3. points' \in [Clouds -> Nat]
    BY <1>8 DEF CloudsOK, cloudVars
  <2> QED BY <1>7, <2>1, <2>2, <2>3 DEF CloudsOK
<1>9. dec \notin {"none"} => source = "started" /\ cur \in Clouds
  BY DEF NodeInv, ThreadShape, Reachable, CloudsOK
<1>10. CASE DecSubmit
  <2>1. /\ dec = "submit" /\ dec' = "acquire" /\ filled' = Push(filled, cur) /\ seq' = seq + 1
        /\ UNCHANGED <<cur, inHand, free, points, frame, published, source, wrk>>
    BY <1>10 DEF DecSubmit, DecUnchanged, openVars, workVars
  <2>2. cur \in Clouds /\ source = "started" /\ Held = {cur} /\ Held' = {}
    BY <1>0, <1>9, <2>1 DEF Held
  <2>3. /\ filled' \in Seq(Clouds) /\ Len(filled') <= QueueCap
        /\ \A i \in 1 .. Len(filled') : \/ i \in 1 .. Len(filled) /\ filled'[i] = filled[i]
                                        \/ i = Len(filled) + 1 /\ filled'[i] = cur
    <3>1. filled \in Seq(Clouds) /\ Len(filled) <= QueueCap
      BY DEF CloudsOK
    <3>2. /\ Push(filled, cur) \in Seq(Clouds) /\ Len(Push(filled, cur)) <= QueueCap
          /\ \A i \in 1 .. Len(Push(filled, cur)) :
               \/ i \in 1 .. Len(filled) /\ Push(filled, cur)[i] = filled[i]
               \/ i = Len(filled) + 1 /\ Push(filled, cur)[i] = cur
      BY <2>2, <3>1, Pushing
    <3> QED BY <2>1, <3>2
  <2>4. CloudsOK'
    BY <2>1, <2>3 DEF CloudsOK
  <2>5. Reachable'
    BY <2>1, <2>2 DEF Reachable
  <2>6. OwnedOnce'
    <3>1. /\ \A i \in 1 .. Len(free) : free[i] # cur
          /\ \A i \in 1 .. Len(filled) : filled[i] # cur
          /\ inHand # cur
      BY <2>2 DEF OwnedOnce
    <3>2. \A i, j \in 1 .. Len(filled') : filled'[i] = filled'[j] => i = j
      BY <1>0, <2>3, <3>1 DEF OwnedOnce
    <3>3. \A i \in 1 .. Len(free), j \in 1 .. Len(filled') : free[i] # filled'[j]
      BY <2>3, <3>1 DEF OwnedOnce
    <3>4. \A i \in 1 .. Len(filled') : filled'[i] # inHand
      BY <2>3, <3>1 DEF OwnedOnce
    <3>5. \A i \in 1 .. Len(free) : free[i] # inHand
      BY DEF OwnedOnce
    <3> QED BY <2>1, <2>2, <3>2, <3>3, <3>4, <3>5 DEF OwnedOnce
  <2> QED BY <2>4, <2>5, <2>6
<1>11. CASE DecAcquire
  <2>1. /\ dec = "acquire" /\ dec' = "packet" /\ cur' = Acquired /\ free' = FreeAfter
        /\ points' = [points EXCEPT ![cur'] = 0]
        /\ UNCHANGED <<filled, inHand, seq, frame, published, source, wrk>>
    BY <1>11 DEF DecAcquire, DecUnchanged, openVars, workVars
  <2>2. source = "started" /\ Held = {} /\ Held' = {Acquired}
    BY <1>0, <1>9, <2>1, Acquiring DEF Held
  <2>3. CloudsOK'
    <3>1. points' \in [Clouds -> Nat]
      BY <2>1 DEF CloudsOK
    <3> QED BY <2>1, <3>1, Acquiring DEF CloudsOK
  <2>4. Reachable'
    BY <1>0, <2>1, <2>2, Acquiring DEF Reachable
  <2>5. OwnedOnce'
    <3>1. \A i \in 1 .. Len(FreeAfter) : FreeAfter[i] # inHand
      BY Acquiring DEF OwnedOnce
    <3>2. \A i \in 1 .. Len(FreeAfter), j \in 1 .. Len(filled) : FreeAfter[i] # filled[j]
      BY Acquiring DEF OwnedOnce
    <3>3. \A i \in 1 .. Len(filled) : filled[i] # inHand
      BY DEF OwnedOnce
    <3> QED BY <2>1, <2>2, <3>1, <3>2, <3>3, Acquiring DEF OwnedOnce
  <2> QED BY <2>3, <2>4, <2>5
<1>12. wrk # "none" => source \in {"inited", "started"}
  BY DEF NodeInv, ThreadShape, SourceShape
<1>13. CASE WrkTest \/ WrkConvert \/ WrkPublish
  <2> USE DEF WrkTest, WrkConvert, WrkPublish, WrkUnchanged
  <2>1. UNCHANGED <<cur, inHand, free, filled, points, seq, dec, source>>
    BY <1>13 DEF openVars, decVars, workVars, cloudVars
  <2>2. frame' \in Nat /\ published' \in Nat
    BY <1>13 DEF CloudsOK, Reachable
  <2>3. Reachable'
    BY <1>13, <2>1 DEF Reachable
  <2>4. CloudsOK'
    BY <2>1, <2>2 DEF CloudsOK
  <2>5. OwnedOnce'
    BY <2>1 DEF OwnedOnce, Held
  <2> QED BY <2>3, <2>4, <2>5
<1>14. CASE WrkWait
  <2>1. UNCHANGED <<cur, free, points, seq, dec, source, frame, published>>
    BY <1>14 DEF WrkWait, WrkUnchanged, openVars, decVars
  <2>2. CASE filled = <<>>
    <3>1. wrk = "wait" /\ wrk' = "test" /\ UNCHANGED <<inHand, filled>>
      BY <1>14, <2>2 DEF WrkWait
    <3>2. Reachable'
      BY <2>1, <3>1 DEF Reachable
    <3> QED BY <1>1, <2>1, <3>1, <3>2 DEF CloudsOK
  <2>3. CASE filled # <<>>
    <3>1. wrk = "wait" /\ wrk' = "convert" /\ inHand' = Head(filled) /\ filled' = Tail(filled)
      BY <1>14, <2>3 DEF WrkWait
    <3>2. /\ Len(filled) > 0 /\ Head(filled) = filled[1] /\ Tail(filled) \in Seq(Clouds)
          /\ Len(Tail(filled)) = Len(filled) - 1
          /\ \A i \in 1 .. Len(Tail(filled)) : Tail(filled)[i] = filled[i + 1]
      BY <2>3, HeadTailProperties DEF CloudsOK
    <3>3. filled[1] \in Clouds /\ source = "started"
      BY <1>0, <2>3, <3>2, ElementOfSeq DEF CloudsOK, Reachable
    <3>4. CloudsOK'
      BY <1>0, <2>1, <3>1, <3>2, <3>3 DEF CloudsOK
    <3>5. Reachable'
      BY <1>0, <2>1, <3>1, <3>2, <3>3 DEF Reachable
    <3>6. OwnedOnce'
      <4>1. Held' = Held
        BY <2>1 DEF Held
      <4>2. \A i \in 1 .. Len(Tail(filled)) : i + 1 \in 1 .. Len(filled) /\ i + 1 # 1
        BY <1>0, <3>2
      <4>3. 1 \in 1 .. Len(filled)
        BY <1>0, <3>2
      <4>4. \A i \in 1 .. Len(Tail(filled)) : /\ Tail(filled)[i] # filled[1]
                                              /\ Tail(filled)[i] \notin Held
                                              /\ \A j \in 1 .. Len(free) : free[j] # Tail(filled)[i]
        BY <3>2, <4>2, <4>3 DEF OwnedOnce
      <4>5. \A i, j \in 1 .. Len(Tail(filled)) : Tail(filled)[i] = Tail(filled)[j] => i = j
        BY <1>0, <3>2, <4>2 DEF OwnedOnce
      <4>6. filled[1] \notin Held /\ \A i \in 1 .. Len(free) : free[i] # filled[1]
        BY <4>3 DEF OwnedOnce
      <4> QED BY <2>1, <3>1, <3>2, <4>1, <4>4, <4>5, <4>6 DEF OwnedOnce
    <3> QED BY <3>4, <3>5, <3>6
  <2> QED BY <2>2, <2>3
<1>15. CASE WrkRecycle
  <2>1. /\ wrk = "recycle" /\ wrk' = "test" /\ free' = Push(free, inHand) /\ inHand' = NoCloud
        /\ points' = [points EXCEPT ![inHand] = 0]
        /\ UNCHANGED <<cur, filled, seq, dec, source, frame, published>>
    BY <1>15 DEF WrkRecycle, WrkUnchanged, openVars, decVars
  <2>2. inHand \in Clouds
    BY <2>1 DEF Reachable, CloudsOK
  <2>3. /\ free' \in Seq(Clouds) /\ Len(free') <= QueueCap
        /\ \A i \in 1 .. Len(free') : \/ i \in 1 .. Len(free) /\ free'[i] = free[i]
                                      \/ i = Len(free) + 1 /\ free'[i] = inHand
    BY <2>1, <2>2, Pushing DEF CloudsOK
  <2>4. CloudsOK'
    <3>1. points' \in [Clouds -> Nat]
      BY <2>1 DEF CloudsOK
    <3> QED BY <2>1, <2>3, <3>1 DEF CloudsOK
  <2>5. Reachable'
    BY <2>1, <2>2 DEF Reachable
  <2>6. OwnedOnce'
    <3>1. Held' = Held /\ NoCloud \notin Held
      BY <2>1 DEF Held
    <3>2. \A i \in 1 .. Len(filled) : filled[i] # inHand /\ filled[i] # NoCloud
      BY <1>0, ElementOfSeq DEF OwnedOnce, CloudsOK
    <3>3. \A i \in 1 .. Len(free) : free[i] # inHand
      BY DEF OwnedOnce
    <3>4. \A i \in 1 .. Len(free') : free'[i] \notin Held
      BY <2>3, <3>3 DEF OwnedOnce
    <3>5. \A i \in 1 .. Len(free') : free'[i] # NoCloud
      BY <1>0, <2>3, ElementOfSeq
    <3>6. \A i \in 1 .. Len(free'), j \in 1 .. Len(filled) : free'[i] # filled[j]
      BY <2>3, <3>2 DEF OwnedOnce
    <3>7. \A i, j \in 1 .. Len(free') : free'[i] = free'[j] => i = j
      BY <1>0, <2>3, <3>3 DEF OwnedOnce
    <3> QED BY <2>1, <3>1, <3>2, <3>4, <3>5, <3>6, <3>7 DEF OwnedOnce
  <2> QED BY <2>4, <2>5, <2>6
<1> QED BY <1>2, <1>3, <1>4, <1>5, <1>6, <1>8, <1>10, <1>11, <1>13, <1>14, <1>15
        DEF Next, CtlStep, DecStep, WrkStep
LEMMA CloudInvariant == Spec => []CloudInv
<1>1. Init => CloudInv
  <2> SUFFICES ASSUME Init PROVE CloudInv
    OBVIOUS
  <2>1. free = <<>> /\ filled = <<>> /\ Len(<<>>) = 0 /\ <<>> \in Seq(Clouds) /\ QueueCap \in Nat
    BY LimitsAssumption, EmptySeq DEF Init
  <2>2. CloudsOK
    BY <2>1 DEF Init, CloudsOK
  <2> QED BY <2>1, <2>2 DEF Init, CloudInv, Reachable, OwnedOnce, Held
<1> QED BY <1>1, CloudInvStep, NodeInvariant, PTL DEF Spec

(* A cloud is in one place at a time: the decoder never writes one that the  *)
(* worker reads or that waits to be read, whatever the capacity of the       *)
(* queues and wherever a push was dropped.                                   *)
THEOREM OwnsCloudsOnce == Spec => []CloudsOwnedOnce
<1>1. CloudInv => CloudsOwnedOnce
  <2> SUFFICES ASSUME CloudInv PROVE CloudsOwnedOnce
    OBVIOUS
  <2> DEFINE both == free \o filled
  <2>1. /\ Len(both) = Len(free) + Len(filled) /\ DOMAIN both = 1 .. Len(both)
        /\ Len(free) \in Nat /\ Len(filled) \in Nat
        /\ \A i \in 1 .. Len(free) + Len(filled) :
             both[i] = IF i <= Len(free) THEN free[i] ELSE filled[i - Len(free)]
    BY ConcatProperties, LenProperties DEF CloudInv, CloudsOK
  <2> HIDE DEF both
  <2>2. \A i \in DOMAIN both : \/ i \in 1 .. Len(free) /\ both[i] = free[i]
                               \/ /\ i - Len(free) \in 1 .. Len(filled)
                                  /\ both[i] = filled[i - Len(free)]
    BY <2>1
  <2>3. IsInjective(both)
    <3> SUFFICES ASSUME NEW a \in DOMAIN both, NEW b \in DOMAIN both, both[a] = both[b] PROVE a = b
      BY DEF IsInjective
    <3> QED BY <2>1, <2>2 DEF CloudInv, OwnedOnce
  <2>4. \A i \in DOMAIN both : both[i] \notin Held \cup {inHand}
    BY <2>2 DEF CloudInv, OwnedOnce
  <2>5. (Held \cup {inHand}) \cap ToSet(both) = {}
    BY <2>4 DEF ToSet
  <2> QED BY <2>3, <2>5 DEF CloudsOwnedOnce, both, Held, CloudInv, OwnedOnce
<1> QED BY <1>1, CloudInvariant, PTL

-----------------------------------------------------------------------------
(* The order of the revolutions, over every step of the three threads.       *)
LEMMA OrderStep == NodeInv /\ CloudInv /\ CloudInv' /\ Ordered /\ [Next]_vars => Ordered'
<1> SUFFICES ASSUME NodeInv, CloudInv, CloudInv', Ordered, [Next]_vars PROVE Ordered'
  OBVIOUS
<1> USE DEF NoCloud
<1>0. /\ Len(free) \in Nat /\ Len(filled) \in Nat /\ NoCloud \notin Clouds
      /\ seq \in Nat \ {0} /\ published \in Nat /\ points \in [Clouds -> Nat]
      /\ \A i \in 1 .. Len(filled) : filled[i] \in Clouds
  <2>1. NoCloud \notin Clouds /\ seq \in Nat \ {0} /\ published \in Nat /\ points \in [Clouds -> Nat]
    BY LimitsAssumption DEF CloudInv, CloudsOK, Clouds
  <2>2. Len(free) \in Nat /\ Len(filled) \in Nat
    BY LenProperties DEF CloudInv, CloudsOK
  <2>3. \A i \in 1 .. Len(filled) : filled[i] \in Clouds
    BY ElementOfSeq DEF CloudInv, CloudsOK
  <2> QED BY <2>1, <2>2, <2>3
<1>1. ASSUME UNCHANGED <<cur, inHand, filled, points, seq, published, frame>>,
             dec' = "acquire" <=> dec = "acquire", dec' = "submit" => dec = "submit",
             wrk' \in {"convert", "publish"} => wrk' = wrk,
             source' \in {"none", "built"} => source \in {"none", "built"}
      PROVE  Ordered'
  BY <1>1 DEF Ordered, Held
<1>2. CASE CtlRequest \/ ActivatePublishers \/ SpawnWorker \/ StartDriver
  <2> USE DEF Configure, ConfigureThrows, Activate, Deactivate, Cleanup, Shutdown, Destroy, Request,
              ActivatePublishers, SpawnWorker, StartDriver
  <2>1. UNCHANGED <<cur, inHand, filled, points, seq, published, frame>>
    BY <1>2 DEF CtlRequest, decVars, workVars, cloudVars
  <2>2. dec' = dec \/ (dec = "none" /\ dec' = "test")
    BY <1>2 DEF CtlRequest, decVars, NodeInv, SourceShape, ThreadShape
  <2>3. wrk' = wrk \/ wrk' \in {"test", "none"}
    BY <1>2 DEF CtlRequest, workVars
  <2>4. source' \in {"none", "built"} => source \in {"none", "built"}
    BY <1>2 DEF CtlRequest, openVars, NodeInv, SourceShape
  <2> QED BY <1>1, <2>1, <2>2, <2>3, <2>4
<1>3. CASE StopFeeding \/ StopDecoder \/ StopWorker \/ PublishersOff \/ ReleasePipeline
             \/ Diagnose \/ Receive \/ Contend \/ UNCHANGED vars
  <2> USE DEF StopFeeding, StopDecoder, StopWorker, PublishersOff, ReleasePipeline,
              Diagnose, Receive, Contend, vars
  <2>1. UNCHANGED <<cur, inHand, filled, points, seq, published, frame, dec, wrk, source>>
    BY <1>3 DEF decVars, workVars, cloudVars, openVars
  <2> QED BY <1>1, <2>1
<1>4. CASE JoinWorker
  <2>1. /\ wrk' = "none"
        /\ UNCHANGED <<cur, inHand, filled, points, seq, published, dec, source>>
    BY <1>4 DEF JoinWorker, decVars, cloudVars, openVars
  <2> QED BY <2>1 DEF Ordered, Held
<1>5. CASE SourceInit
  <2>1. /\ dec = "none" /\ dec' = "none" /\ filled = <<>> /\ wrk = "none" /\ cur = NoCloud
        /\ source = "built"
        /\ UNCHANGED <<inHand, filled, points, seq, published, frame, wrk>>
    BY <1>5 DEF SourceInit, workVars, NodeInv, SourceShape, ThreadShape, CloudInv, Reachable, StopAt
  <2>2. \A c \in Clouds : points[c] = 0
    BY <2>1 DEF Ordered
  <2>3. cur' \in Clouds \cup {NoCloud}
    BY DEF CloudInv, CloudsOK
  <2>4. \A c \in Held' : points'[c] = 0
    BY <2>1, <2>2, <2>3 DEF Held
  <2> QED BY <2>1, <2>2, <2>4 DEF Ordered
<1>6. CASE ActivateUndo \/ ResetSource
  <2>1. dec' = "none" /\ wrk' = "none" /\ inHand' = NoCloud
    BY <1>6 DEF ActivateUndo, ResetSource, NodeInv, SourceShape, ThreadShape, CloudInv, Reachable, StopAt
  <2>2. SourceGone
    BY <1>6 DEF ActivateUndo, ResetSource
  <2>3. /\ filled' = <<>> /\ Len(<<>>) = 0 /\ cur' = NoCloud /\ seq' = 1 /\ published' = 0
        /\ \A c \in Clouds : points'[c] = 0
    BY <2>2 DEF SourceGone
  <2> QED BY <2>1, <2>3 DEF Ordered, Held
<1>7. dec # "none" => source = "started" /\ cur \in Clouds
  BY DEF NodeInv, ThreadShape, CloudInv, Reachable, CloudsOK
<1>8. wrk \in {"convert", "publish", "recycle"} => source = "started" /\ inHand \in Clouds
  BY DEF CloudInv, Reachable, CloudsOK
<1>9. CASE DecTest \/ DecPop \/ DecBatchDone
  <2> USE DEF DecTest, DecPop, DecBatchDone, DecUnchanged
  <2>1. UNCHANGED <<cur, inHand, filled, points, seq, published, frame, wrk, source>>
    BY <1>9 DEF workVars, cloudVars, openVars
  <2>2. dec \notin {"acquire", "submit"} /\ dec' \notin {"acquire", "submit"}
    BY <1>9
  <2> QED BY <1>1, <2>1, <2>2
<1>10. ASSUME UNCHANGED <<cur, inHand, filled, seq, published, frame, wrk, source>>,
              source = "started", dec # "acquire", dec' # "acquire", cur \in Clouds,
              NEW n \in {0, seq}, points' = [points EXCEPT ![cur] = n],
              dec' = "submit" => n = seq
       PROVE  Ordered'
  <2>1. Held = {cur} /\ Held' = {cur}
    BY <1>0, <1>10 DEF Held
  <2>2. inHand # cur /\ \A i \in 1 .. Len(filled) : filled[i] # cur
    BY <2>1 DEF CloudInv, OwnedOnce
  <2>3. points'[cur] = n /\ \A c \in Clouds : c # cur => points'[c] = points[c]
    BY <1>0, <1>10
  <2>4. \A i \in 1 .. Len(filled) : points'[filled[i]] = points[filled[i]]
    BY <1>0, <2>2, <2>3
  <2>5. inHand # NoCloud => inHand \in Clouds /\ points'[inHand] = points[inHand]
    BY <2>2, <2>3 DEF CloudInv, CloudsOK
  <2>6. wrk \in {"convert", "publish"} => inHand # NoCloud
    BY DEF CloudInv, Reachable
  <2> QED BY <1>10, <2>1, <2>3, <2>4, <2>5, <2>6 DEF Ordered
<1>11. CASE JoinDecoder
  <2>1. /\ dec = "done" /\ dec' = "none" /\ points' = [points EXCEPT ![cur] = 0]
        /\ UNCHANGED <<cur, inHand, filled, seq, published, frame, wrk, source>>
    BY <1>11 DEF JoinDecoder, workVars, openVars
  <2> QED BY <1>7, <1>10, <2>1
<1>12. CASE DecPacket
  <2>1. /\ dec = "packet"
        /\ UNCHANGED <<cur, inHand, filled, seq, published, frame, wrk, source>>
    BY <1>12 DEF DecPacket, DecUnchanged, workVars, openVars
  <2>2. CASE dec' = dec /\ points' = points
    BY <1>1, <2>1, <2>2
  <2>3. CASE points' = [points EXCEPT ![cur] = seq] /\ dec' = dec
    BY <1>7, <1>10, <2>1, <2>3
  <2>4. CASE points[cur] # 0 /\ dec' = "submit" /\ points' = points
    <3>1. Held = {cur} /\ Held' = {cur}
      BY <1>0, <1>7, <2>1, <2>4 DEF Held
    <3>2. points[cur] = seq
      BY <2>4, <3>1 DEF Ordered
    <3> QED BY <2>1, <2>4, <3>1, <3>2 DEF Ordered
  <2> QED BY <1>12, <2>2, <2>3, <2>4 DEF DecPacket
<1>13. CASE DecSubmit
  <2>1. /\ dec = "submit" /\ dec' = "acquire" /\ filled' = Push(filled, cur) /\ seq' = seq + 1
        /\ UNCHANGED <<cur, inHand, points, published, frame, wrk, source>>
    BY <1>13 DEF DecSubmit, DecUnchanged, workVars, openVars
  <2>2. cur \in Clouds /\ source = "started" /\ Held' = {} /\ points[cur] = seq
    BY <1>7, <2>1 DEF Held, Ordered
  <2>3. /\ Len(filled') \in Nat /\ Len(filled') \in Len(filled) .. Len(filled) + 1
        /\ \A i \in 1 .. Len(filled') : \/ i \in 1 .. Len(filled) /\ filled'[i] = filled[i]
                                        \/ i = Len(filled) + 1 /\ filled'[i] = cur
    <3>1. filled \in Seq(Clouds) /\ Len(filled) <= QueueCap
      BY DEF CloudInv, CloudsOK
    <3>2. /\ Len(Push(filled, cur)) \in Len(filled) .. Len(filled) + 1
          /\ \A i \in 1 .. Len(Push(filled, cur)) :
               \/ i \in 1 .. Len(filled) /\ Push(filled, cur)[i] = filled[i]
               \/ i = Len(filled) + 1 /\ Push(filled, cur)[i] = cur
      BY <2>2, <3>1, Pushing
    <3> QED BY <1>0, <2>1, <3>2
  <2>4. \A i \in 1 .. Len(filled') : published < points[filled'[i]] /\ points[filled'[i]] < seq + 1
    BY <1>0, <2>2, <2>3 DEF Ordered
  <2>5. ASSUME NEW i \in 1 .. Len(filled'), NEW j \in 1 .. Len(filled'), i < j
        PROVE  points[filled'[i]] < points[filled'[j]]
    <3>1. i \in 1 .. Len(filled) /\ filled'[i] = filled[i]
      BY <1>0, <2>3, <2>5
    <3>2. CASE filled'[j] = cur
      BY <2>2, <3>1, <3>2 DEF Ordered
    <3>3. CASE j \in 1 .. Len(filled) /\ filled'[j] = filled[j]
      BY <2>5, <3>1, <3>3 DEF Ordered
    <3> QED BY <2>3, <3>2, <3>3
  <2>6. inHand # NoCloud =>
          /\ points[inHand] < seq + 1
          /\ \A i \in 1 .. Len(filled') : points[inHand] < points[filled'[i]]
    <3>1. inHand # NoCloud => inHand \in Clouds /\ points[inHand] < seq
      BY DEF CloudInv, CloudsOK, Ordered
    <3> QED BY <1>0, <2>2, <2>3, <3>1 DEF Ordered
  <2>7. published < seq + 1
    BY <1>0 DEF Ordered
  <2> QED BY <2>1, <2>2, <2>4, <2>5, <2>6, <2>7 DEF Ordered
<1>14. CASE DecAcquire
  <2>1. /\ dec = "acquire" /\ dec' = "packet" /\ cur' = Acquired
        /\ points' = [points EXCEPT ![cur'] = 0]
        /\ UNCHANGED <<inHand, filled, seq, published, frame, wrk, source>>
    BY <1>14 DEF DecAcquire, DecUnchanged, workVars, openVars
  <2>2. /\ Acquired \in Clouds /\ Acquired # inHand
        /\ \A i \in 1 .. Len(filled) : filled[i] # Acquired
    BY Acquiring DEF CloudInv
  <2>3. Held' = {Acquired} /\ source = "started"
    BY <1>0, <1>7, <2>1, <2>2 DEF Held
  <2>4. points'[Acquired] = 0 /\ \A c \in Clouds : c # Acquired => points'[c] = points[c]
    BY <1>0, <2>1, <2>2
  <2>5. \A i \in 1 .. Len(filled) : points'[filled[i]] = points[filled[i]]
    BY <1>0, <2>2, <2>4
  <2>6. inHand # NoCloud => inHand \in Clouds /\ points'[inHand] = points[inHand]
    BY <2>2, <2>4 DEF CloudInv, CloudsOK
  <2>7. wrk \in {"convert", "publish"} => inHand # NoCloud
    BY DEF CloudInv, Reachable
  <2> QED BY <2>1, <2>3, <2>4, <2>5, <2>6, <2>7 DEF Ordered
<1>15. CASE WrkTest
  <2>1. UNCHANGED <<cur, inHand, filled, points, seq, published, frame, dec, source>>
        /\ wrk' \in {"done", "wait"}
    BY <1>15 DEF WrkTest, WrkUnchanged, decVars, openVars, cloudVars
  <2> QED BY <1>1, <2>1
<1>16. CASE WrkWait
  <2>1. UNCHANGED <<cur, points, seq, dec, source, frame, published>>
    BY <1>16 DEF WrkWait, WrkUnchanged, openVars, decVars
  <2>2. CASE filled = <<>>
    <3>1. wrk' = "test" /\ UNCHANGED <<inHand, filled>>
      BY <1>16, <2>2 DEF WrkWait
    <3> QED BY <1>1, <2>1, <3>1
  <2>3. CASE filled # <<>>
    <3>1. wrk = "wait" /\ wrk' = "convert" /\ inHand' = Head(filled) /\ filled' = Tail(filled)
      BY <1>16, <2>3 DEF WrkWait
    <3>2. /\ Len(filled) > 0 /\ Head(filled) = filled[1]
          /\ Len(Tail(filled)) = Len(filled) - 1
          /\ \A i \in 1 .. Len(Tail(filled)) : Tail(filled)[i] = filled[i + 1]
      BY <2>3, HeadTailProperties DEF CloudInv, CloudsOK
    <3>3. /\ 1 \in 1 .. Len(filled)
          /\ \A i \in 1 .. Len(Tail(filled)) : i + 1 \in 1 .. Len(filled) /\ 1 < i + 1
      BY <1>0, <3>2
    <3>4. published < points[filled[1]] /\ points[filled[1]] < seq
      BY <3>3 DEF Ordered
    <3>5. \A i \in 1 .. Len(Tail(filled)) :
            /\ published < points[Tail(filled)[i]] /\ points[Tail(filled)[i]] < seq
            /\ points[filled[1]] < points[Tail(filled)[i]]
      BY <3>2, <3>3 DEF Ordered
    <3>6. ASSUME NEW i \in 1 .. Len(Tail(filled)), NEW j \in 1 .. Len(Tail(filled)), i < j
          PROVE  points[Tail(filled)[i]] < points[Tail(filled)[j]]
      BY <1>0, <3>2, <3>3, <3>6 DEF Ordered
    <3>7. Held' = Held
      BY <2>1 DEF Held
    <3>8. /\ UNCHANGED <<cur, points, seq, dec, source, published>>
          /\ wrk' = "convert" /\ inHand' = filled[1] /\ filled' = Tail(filled)
      BY <2>1, <3>1, <3>2
    <3> QED BY <3>4, <3>5, <3>6, <3>7, <3>8 DEF Ordered
  <2> QED BY <2>2, <2>3
<1>17. CASE WrkConvert
  <2>1. /\ wrk = "convert" /\ wrk' = "publish" /\ frame' = points[inHand]
        /\ UNCHANGED <<cur, inHand, filled, points, seq, published, dec, source>>
    BY <1>17 DEF WrkConvert, WrkUnchanged, decVars, openVars, cloudVars
  <2> QED BY <2>1 DEF Ordered, Held
<1>18. CASE WrkPublish
  <2>1. /\ wrk = "publish" /\ wrk' = "recycle" /\ published' = frame
        /\ UNCHANGED <<cur, inHand, filled, points, seq, dec, source>>
    BY <1>18 DEF WrkPublish, WrkUnchanged, decVars, openVars, cloudVars
  <2>2. published' = points[inHand] /\ inHand # NoCloud
    BY <1>0, <1>8, <2>1 DEF Ordered
  <2> QED BY <2>1, <2>2 DEF Ordered, Held
<1>19. CASE WrkRecycle
  <2>1. /\ wrk = "recycle" /\ wrk' = "test" /\ inHand' = NoCloud
        /\ points' = [points EXCEPT ![inHand] = 0]
        /\ UNCHANGED <<cur, filled, seq, dec, source, frame, published>>
    BY <1>19 DEF WrkRecycle, WrkUnchanged, openVars, decVars
  <2>2. inHand \in Clouds /\ source = "started" /\ cur \in Clouds
    BY <1>8, <2>1 DEF CloudInv, CloudsOK, Reachable
  <2>3. inHand \notin Held /\ \A i \in 1 .. Len(filled) : filled[i] # inHand
    BY DEF CloudInv, OwnedOnce
  <2>4. \A c \in Clouds : c # inHand => points'[c] = points[c]
    BY <1>0, <2>1
  <2>5. \A i \in 1 .. Len(filled) : points'[filled[i]] = points[filled[i]]
    BY <1>0, <2>3, <2>4
  <2>6. Held' = Held /\ \A c \in Held : points'[c] = points[c]
    BY <2>1, <2>2, <2>3, <2>4 DEF Held
  <2>7. dec = "submit" => points'[cur] = points[cur]
    BY <1>0, <2>2, <2>6 DEF Held
  <2> QED BY <2>1, <2>2, <2>5, <2>6, <2>7 DEF Ordered
<1> QED BY <1>2, <1>3, <1>4, <1>5, <1>6, <1>9, <1>11, <1>12, <1>13, <1>14, <1>15, <1>16,
           <1>17, <1>18, <1>19 DEF Next, CtlStep, DecStep, WrkStep

LEMMA OrderInvariant == Spec => []Ordered
<1>1. Init => Ordered
  <2> SUFFICES ASSUME Init PROVE Ordered
    OBVIOUS
  <2>1. Len(filled) = 0
    BY EmptySeq DEF Init
  <2> QED BY <2>1 DEF Init, Ordered, Held
<1> QED BY <1>1, OrderStep, NodeInvariant, CloudInvariant, PTL DEF Spec

(* What is published is a revolution later than every one before it: none    *)
(* twice, none out of order, none overwritten or cleared on the way from the *)
(* decoder to the publishers.                                                *)
THEOREM PublishesInOrder == Spec => []RevolutionsInOrder
<1>1. Ordered => RevolutionsInOrder
  BY DEF Ordered, RevolutionsInOrder
<1> QED BY <1>1, OrderInvariant, PTL

-----------------------------------------------------------------------------
(* The safety part of the abstract feed: all of FeedSpec but its fairness.   *)
FeedSafety == Feed!FeedInit /\ [][Feed!FeedNext]_(Feed!feedVars)

(* The node is a gated feed of single frames: a frame goes out through       *)
(* active publishers only, and they are disabled only when none is underway. *)
THEOREM ImplementsFeed == Spec => FeedSafety
<1> DEFINE gateOf == IF publishers = "active" THEN "open" ELSE "shut"
           left == IF wrk = "publish" THEN 1 ELSE 0
<1>1. Init => Feed!FeedInit
  BY DEF Init, Feed!FeedInit
<1>2. NodeInv /\ CloudInv /\ [Next]_vars => [Feed!FeedNext]_(Feed!feedVars)
  <2> SUFFICES ASSUME NodeInv, CloudInv, [Next]_vars
               PROVE  Feed!FeedNext \/ UNCHANGED <<gateOf, left>>
    BY DEF Feed!feedVars
  <2>1. wrk = "publish" => publishers = "active"
    BY DEF NodeInv, ThreadShape, PublisherShape
  <2>2. ASSUME wrk # "publish", wrk' # "publish"
        PROVE  Feed!FeedNext \/ UNCHANGED <<gateOf, left>>
    <3>1. left = 0 /\ left' = left
      BY <2>2
    <3>2. CASE publishers = "active" <=> publishers' = "active"
      BY <3>1, <3>2
    <3>3. CASE publishers = "active" /\ publishers' # "active"
      BY <3>1, <3>3 DEF Feed!FeedNext, Feed!Shut
    <3>4. CASE publishers # "active" /\ publishers' = "active"
      BY <3>1, <3>4 DEF Feed!FeedNext, Feed!Open
    <3> QED BY <3>2, <3>3, <3>4
  <2>3. CASE WrkConvert
    <3>1. wrk = "convert" /\ wrk' = "publish" /\ publishers' = publishers
      BY <2>3 DEF WrkConvert, WrkUnchanged, nodeVars
    <3>2. publishers = "active"
      BY <3>1 DEF NodeInv, ThreadShape, PublisherShape, CloudInv, Reachable
    <3> QED BY <3>1, <3>2 DEF Feed!FeedNext, Feed!Accept
  <2>4. CASE WrkPublish
    <3>1. wrk = "publish" /\ wrk' = "recycle" /\ publishers' = publishers
      BY <2>4 DEF WrkPublish, WrkUnchanged, nodeVars
    <3> QED BY <2>1, <3>1 DEF Feed!FeedNext, Feed!Publish
  <2>5. CASE WrkTest \/ WrkWait \/ WrkRecycle
    <3>1. wrk # "publish" /\ wrk' # "publish"
      BY <2>5 DEF WrkTest, WrkWait, WrkRecycle
    <3> QED BY <2>2, <3>1
  <2>6. CASE ConfigureThrows \/ Configure \/ ActivatePublishers \/ ActivateUndo \/ PublishersOff
               \/ ReleasePipeline \/ StartDriver \/ SpawnWorker \/ JoinWorker
    <3>1. wrk # "publish"
      BY <2>6 DEF Configure, ConfigureThrows, ActivatePublishers, ActivateUndo, PublishersOff,
                  ReleasePipeline, StartDriver, SpawnWorker, JoinWorker, Idle,
                  NodeInv, SourceShape, ThreadShape, StopAt, CloudInv, Reachable
    <3>2. wrk' = wrk \/ wrk' \in {"none", "test"}
      BY <2>6 DEF Configure, ConfigureThrows, ActivatePublishers, ActivateUndo, PublishersOff,
                  ReleasePipeline, StartDriver, SpawnWorker, JoinWorker, workVars
    <3> QED BY <2>2, <3>1, <3>2
  <2>7. CASE DecStep \/ Diagnose \/ Receive \/ Contend \/ UNCHANGED vars
    <3>1. UNCHANGED <<publishers, wrk>>
      BY <2>7 DEF DecStep, DecTest, DecPop, DecPacket, DecBatchDone, DecSubmit, DecAcquire,
                  DecUnchanged, Diagnose, Receive, Contend, vars, nodeVars, workVars
    <3> QED BY <3>1
  <2>8. CASE Activate \/ Deactivate \/ Cleanup \/ Shutdown \/ Destroy \/ SourceInit \/ StopFeeding
               \/ StopDecoder \/ JoinDecoder \/ StopWorker \/ ResetSource
    <3>1. UNCHANGED <<publishers, wrk>>
      BY <2>8 DEF Activate, Deactivate, Cleanup, Shutdown, Destroy, Request, SourceInit, StopFeeding,
                  StopDecoder, JoinDecoder, StopWorker, ResetSource, nodeVars, workVars
    <3> QED BY <3>1
  <2> QED BY <2>3, <2>4, <2>5, <2>6, <2>7, <2>8 DEF Next, CtlRequest, CtlStep, WrkStep
<1> QED BY <1>1, <1>2, NodeInvariant, CloudInvariant, PTL DEF Spec, FeedSafety

-----------------------------------------------------------------------------
SocketsTypeOK ==
  /\ owner \in [Fds -> Owners]
  /\ fds \in [Slot -> Fds \cup {Closed}] /\ msop \in Fds \cup {Closed}
  /\ pc \in {"none", "msop", "difop", "closemsop", "open", "close0", "close1", "close2"}
  /\ victim \in Owners \cup {"none"}

(* The descriptors that are this input's.                                    *)
Mine == {f \in Fds : owner[f] = "input"}

(* init() has stored both sockets; before that the first slot is -1.         *)
Stored == fds[0] # Closed

(* Which sockets the input still has to close before each of its calls.      *)
SlotsHold ==
  /\ pc \in {"none", "msop", "close2"} => Mine = {}
  /\ pc \in {"msop", "difop", "closemsop"} => ~Stored
  /\ pc \in {"difop", "closemsop"} => Mine = {msop}
  /\ pc = "open" => Stored
  /\ pc \in {"close0", "close1"} /\ ~Stored => Mine = {}
  /\ pc \in {"open", "close0"} /\ Stored => Mine = {fds[0], fds[1]} /\ fds[0] # fds[1]
  /\ pc = "close1" /\ Stored => Mine = {fds[1]}
  /\ Stored => fds[2] = Closed
  /\ pc \in {"msop", "difop"} => victim = "none"

SocketsInv == SocketsTypeOK /\ SlotsHold /\ ClosesOnlyOwn

-----------------------------------------------------------------------------
(* The kernel's choice is a free descriptor.                                 *)
LEMMA LowestIsFree == Free # {} => Lowest \in Free
<1> SUFFICES ASSUME Free # {} PROVE Lowest \in Free
  OBVIOUS
<1>1. Free \in SUBSET Nat
  BY FdAssumption DEF Free, Fds
<1>2. PICK x \in Free : \A y \in Free : x <= y
  BY <1>1, LeastNatural
<1> QED BY <1>2 DEF Lowest, Min

(* What a system call leaves of an owner table.                              *)
LEMMA Opening ==
  ASSUME SocketsTypeOK, NEW o \in Owners, Opened(o)
  PROVE  /\ Lowest \in Fds /\ owner[Lowest] = "free" /\ owner' \in [Fds -> Owners]
         /\ Mine' = IF o = "input" THEN Mine \cup {Lowest} ELSE Mine
         /\ Lowest \notin Mine
<1>1. Lowest \in Fds /\ owner[Lowest] = "free"
  BY LowestIsFree DEF Opened, Free
<1>2. owner' = [owner EXCEPT ![Lowest] = o]
  BY DEF Opened
<1>3. owner \in [Fds -> Owners] /\ owner' \in [Fds -> Owners]
  BY <1>1, <1>2 DEF SocketsTypeOK
<1>4. owner'[Lowest] = o /\ \A f \in Fds : f # Lowest => owner'[f] = owner[f]
  BY <1>1, <1>2, <1>3
<1>5. Mine' = IF o = "input" THEN Mine \cup {Lowest} ELSE Mine
  BY <1>1, <1>4 DEF Mine
<1> QED BY <1>1, <1>3, <1>5 DEF Mine

LEMMA ClosingOne ==
  ASSUME SocketsTypeOK, NEW f \in Fds \cup {Closed}, Close(f)
  PROVE  /\ owner' \in [Fds -> Owners] /\ victim' \in Owners \cup {"none"}
         /\ Mine' = Mine \ {f}
         /\ f \in Mine => victim' = "input"
         /\ f = Closed => victim' = victim
<1>1. Closed \notin Fds
  BY FdAssumption DEF Closed, Fds
<1>2. CASE f \in Fds
  <2>1. owner' = [owner EXCEPT ![f] = "free"] /\ victim' = owner[f]
    BY <1>2 DEF Close
  <2>2. owner \in [Fds -> Owners] /\ owner' \in [Fds -> Owners] /\ owner[f] \in Owners
    BY <1>2, <2>1 DEF SocketsTypeOK, Owners
  <2>3. owner'[f] = "free" /\ \A g \in Fds : g # f => owner'[g] = owner[g]
    BY <1>2, <2>1, <2>2
  <2>4. Mine' = Mine \ {f}
    BY <2>3 DEF Mine
  <2> QED BY <1>1, <1>2, <2>1, <2>2, <2>4 DEF Mine
<1>3. CASE f \notin Fds
  <2>1. owner' = owner /\ victim' = victim
    BY <1>3 DEF Close
  <2> QED BY <1>3, <2>1 DEF Mine, SocketsTypeOK
<1> QED BY <1>2, <1>3

-----------------------------------------------------------------------------
LEMMA SocketsInvStep == SocketsInv /\ [SocketsNext]_socketsVars => SocketsInv'
<1> SUFFICES ASSUME SocketsInv, [SocketsNext]_socketsVars PROVE SocketsInv'
  OBVIOUS
<1> USE DEF SocketsInv
<1>0. Closed \notin Fds /\ 0 \in Fds /\ Slot = {0, 1, 2}
  BY FdAssumption DEF Closed, Fds, Slot
<1>1. CASE Construct
  <2>1. /\ pc = "none" /\ pc' = "msop" /\ victim' = "none" /\ owner' = owner /\ msop' = Closed
        /\ fds' = [s \in Slot |-> IF s = 0 THEN Closed ELSE 0]
    BY <1>1 DEF Construct
  <2>2. fds'[0] = Closed /\ fds' \in [Slot -> Fds \cup {Closed}]
    BY <1>0, <2>1
  <2>3. Mine' = {}
    BY <2>1 DEF SlotsHold, Mine
  <2> QED BY <2>1, <2>2, <2>3 DEF SocketsTypeOK, SlotsHold, Stored, ClosesOnlyOwn
<1>2. ASSUME UNCHANGED <<fds, victim>>, Opened("leaked") \/ UNCHANGED owner
      PROVE  owner' \in [Fds -> Owners] /\ Mine' = Mine
  BY <1>2, Opening DEF Mine, Owners, SocketsTypeOK
<1>3. CASE CreateMsop
  <2>1. pc = "msop" /\ UNCHANGED <<fds, victim>> /\ Mine = {} /\ ~Stored
    BY <1>3 DEF CreateMsop, SlotsHold
  <2>2. CASE Opened("input") /\ msop' = Lowest /\ pc' = "difop"
    <3>1. Mine' = {Lowest} /\ Lowest \in Fds /\ owner' \in [Fds -> Owners]
      BY <2>1, <2>2, Opening DEF Owners
    <3> QED BY <2>1, <2>2, <3>1 DEF SocketsTypeOK, SlotsHold, Stored, ClosesOnlyOwn
  <2>3. CASE CreateFails /\ pc' = "close0" /\ UNCHANGED msop
    <3>1. owner' \in [Fds -> Owners] /\ Mine' = Mine
      BY <1>2, <2>1, <2>3 DEF CreateFails
    <3> QED BY <2>1, <2>3, <3>1 DEF SocketsTypeOK, SlotsHold, Stored, ClosesOnlyOwn
  <2> QED BY <1>3, <2>2, <2>3 DEF CreateMsop
<1>4. CASE CreateDifop
  <2>1. pc = "difop" /\ UNCHANGED <<msop, victim>> /\ Mine = {msop} /\ msop \in Fds
    BY <1>4 DEF CreateDifop, SlotsHold, Mine
  <2>2. CASE /\ Opened("input") /\ pc' = "open"
             /\ fds' = [s \in Slot |-> IF s = 0 THEN msop ELSE IF s = 1 THEN Lowest ELSE Closed]
    <3>1. /\ Mine' = {msop, Lowest} /\ Lowest \in Fds /\ Lowest # msop
          /\ owner' \in [Fds -> Owners]
      BY <2>1, <2>2, Opening DEF Owners
    <3>2. /\ fds'[0] = msop /\ fds'[1] = Lowest /\ fds'[2] = Closed
          /\ fds' \in [Slot -> Fds \cup {Closed}]
      BY <1>0, <2>1, <2>2, <3>1
    <3>3. victim' = "none"
      BY <2>1 DEF SlotsHold
    <3> QED BY <1>0, <2>1, <2>2, <3>1, <3>2, <3>3 DEF SocketsTypeOK, SlotsHold, Stored, ClosesOnlyOwn
  <2>3. CASE CreateFails /\ pc' = "closemsop" /\ UNCHANGED fds
    <3>1. owner' \in [Fds -> Owners] /\ Mine' = Mine
      BY <1>2, <2>1, <2>3 DEF CreateFails
    <3> QED BY <2>1, <2>3, <3>1 DEF SocketsTypeOK, SlotsHold, Stored, ClosesOnlyOwn
  <2> QED BY <1>4, <2>2, <2>3 DEF CreateDifop
<1>5. CASE FailDifop
  <2>1. /\ pc = "closemsop" /\ pc' = "close0" /\ UNCHANGED <<fds, msop>>
        /\ Mine = {msop} /\ ~Stored
    BY <1>5 DEF FailDifop, SlotsHold
  <2>2. /\ owner' \in [Fds -> Owners] /\ victim' \in Owners \cup {"none"}
        /\ Mine' = Mine \ {msop}
    BY <1>5, ClosingOne DEF FailDifop, SocketsTypeOK
  <2> QED BY <2>1, <2>2 DEF SocketsTypeOK, SlotsHold, Stored, ClosesOnlyOwn
<1>6. CASE Drop
  BY <1>6 DEF Drop, SocketsTypeOK, SlotsHold, Stored, ClosesOnlyOwn, Mine
<1>7. ASSUME NEW s \in Slot, Close(fds[s]), UNCHANGED <<fds, msop>>,
             pc' \in {"close1", "close2", "none"}
      PROVE  /\ SocketsTypeOK' /\ Mine' = Mine \ {fds[s]}
             /\ fds[s] \in Mine => victim' = "input"
             /\ fds[s] = Closed => victim' = victim
  <2>1. fds[s] \in Fds \cup {Closed}
    BY <1>7 DEF SocketsTypeOK
  <2>2. /\ owner' \in [Fds -> Owners] /\ victim' \in Owners \cup {"none"}
        /\ Mine' = Mine \ {fds[s]}
        /\ fds[s] \in Mine => victim' = "input"
        /\ fds[s] = Closed => victim' = victim
    BY <1>7, <2>1, ClosingOne
  <2> QED BY <1>7, <2>2 DEF SocketsTypeOK
<1>8. CASE Destruct
  <2>1. CASE CloseSlot(0, "close0", "close1")
    <3>1. pc = "close0" /\ Close(fds[0]) /\ pc' = "close1" /\ UNCHANGED <<fds, msop>>
      BY <2>1 DEF CloseSlot
    <3>2. /\ SocketsTypeOK' /\ Mine' = Mine \ {fds[0]}
          /\ fds[0] \in Mine => victim' = "input"
      BY <1>0, <1>7, <3>1
    <3>3. Stored => Mine' = {fds[1]} /\ victim' = "input"
      BY <3>1, <3>2 DEF SlotsHold
    <3> QED BY <3>1, <3>2, <3>3 DEF SlotsHold, Stored, ClosesOnlyOwn
  <2>2. CASE CloseSlot(1, "close1", "close2")
    <3>1. pc = "close1" /\ Close(fds[1]) /\ pc' = "close2" /\ UNCHANGED <<fds, msop>>
      BY <2>2 DEF CloseSlot
    <3>2. /\ SocketsTypeOK' /\ Mine' = Mine \ {fds[1]}
          /\ fds[1] \in Mine => victim' = "input"
      BY <1>0, <1>7, <3>1
    <3>3. Mine' = {} /\ (Stored => victim' = "input")
      BY <3>1, <3>2 DEF SlotsHold
    <3> QED BY <3>1, <3>2, <3>3 DEF SlotsHold, Stored, ClosesOnlyOwn
  <2>3. CASE CloseSlot(2, "close2", "none")
    <3>1. pc = "close2" /\ Close(fds[2]) /\ pc' = "none" /\ UNCHANGED <<fds, msop>>
      BY <2>3 DEF CloseSlot
    <3>2. /\ SocketsTypeOK' /\ Mine' = Mine \ {fds[2]}
          /\ fds[2] = Closed => victim' = victim
      BY <1>0, <1>7, <3>1
    <3>3. Mine' = {}
      BY <3>1, <3>2 DEF SlotsHold
    <3> QED BY <3>1, <3>2, <3>3 DEF SlotsHold, Stored, ClosesOnlyOwn
  <2> QED BY <1>8, <2>1, <2>2, <2>3 DEF Destruct
<1>9. CASE OtherOpens \/ OtherCloses
  <2>1. UNCHANGED <<fds, msop, pc, victim>>
    BY <1>9 DEF OtherOpens, OtherCloses
  <2>2. owner' \in [Fds -> Owners] /\ Mine' = Mine
    <3>1. CASE OtherOpens
      BY <3>1, Opening DEF OtherOpens, Owners
    <3>2. CASE OtherCloses
      <4>1. PICK f \in Fds : owner[f] = "other" /\ owner' = [owner EXCEPT ![f] = "free"]
        BY <3>2 DEF OtherCloses
      <4>2. owner \in [Fds -> Owners] /\ owner' \in [Fds -> Owners]
        BY <4>1 DEF SocketsTypeOK, Owners
      <4>3. owner'[f] = "free" /\ \A g \in Fds : g # f => owner'[g] = owner[g]
        BY <4>1, <4>2
      <4> QED BY <4>1, <4>2, <4>3 DEF Mine
    <3> QED BY <1>9, <3>1, <3>2
  <2> QED BY <2>1, <2>2 DEF SocketsTypeOK, SlotsHold, Stored, ClosesOnlyOwn
<1>10. CASE UNCHANGED socketsVars
  BY <1>10 DEF socketsVars, SocketsTypeOK, SlotsHold, Stored, Mine, ClosesOnlyOwn
<1> QED BY <1>1, <1>3, <1>4, <1>5, <1>6, <1>8, <1>9, <1>10 DEF SocketsNext

(* Every socket of the input is in the slot or variable from which it will   *)
(* be closed, however the other threads' calls interleave with the input's.  *)
THEOREM SocketsInvariant == SocketsSpec => []SocketsInv
<1>1. SocketsInit => SocketsInv
  <2> SUFFICES ASSUME SocketsInit PROVE SocketsInv
    OBVIOUS
  <2>1. \A f \in Fds : owner[f] \in {"stdin", "free"}
    BY DEF SocketsInit
  <2>2. fds[0] = Closed /\ fds[2] = Closed
    BY DEF SocketsInit, Slot
  <2> QED BY <2>1, <2>2 DEF SocketsInit, SocketsInv, SocketsTypeOK, Owners, SlotsHold, Mine, Stored, ClosesOnlyOwn
<1> QED BY <1>1, SocketsInvStep, PTL DEF SocketsSpec

(* No socket is left open between two inputs, whichever of its calls failed. *)
THEOREM ClosesAll == SocketsSpec => []AllClosed
<1>1. SocketsInv => AllClosed
  BY DEF SocketsInv, SlotsHold, Mine, AllClosed
<1> QED BY <1>1, SocketsInvariant, PTL

(* Both sockets of a running source are open and its own, so it never reads  *)
(* from a descriptor that another thread has opened.                         *)
THEOREM OwnsItsSockets == SocketsSpec => []SocketsOwn
<1>1. SocketsInv => SocketsOwn
  BY DEF SocketsInv, SlotsHold, Mine, SocketsOwn
<1> QED BY <1>1, SocketsInvariant, PTL

(* An input that init() set up closes nobody else's descriptor, although two *)
(* of its three slots started as descriptor 0.                               *)
THEOREM ClosesOnlyItsOwn == SocketsSpec => []ClosesOnlyOwn
<1>1. SocketsInv => ClosesOnlyOwn
  BY DEF SocketsInv
<1> QED BY <1>1, SocketsInvariant, PTL
=============================================================================
