--------------------------- MODULE UploaderProofs ---------------------------
(***************************************************************************)
(* Proofs about the uploader, for any number of uploads in parallel, any   *)
(* limits and any number of additions, with and without the shutdown: no   *)
(* path info is lost or in two hands; no probe result is lost while append *)
(* does not overwrite the array of another upload, and slices stay within  *)
(* their arrays even then; and how the connection that the uploads share   *)
(* comes to be nil under one of them.                                      *)
(***************************************************************************)
EXTENDS Uploader, SequenceTheorems, FiniteSetTheorems, TLAPS

(* What a sequence holds.                                                  *)
LEMMA EmptyRange == Range(<<>>) = {}
  BY DEF Range

LEMMA RangeFacts ==
  ASSUME NEW S, NEW s \in Seq(S)
  PROVE  /\ Range(s) = {s[i] : i \in 1..Len(s)}
         /\ Range(s) \subseteq S
  BY LenProperties, ElementOfSeq DEF Range

LEMMA AppendRange ==
  ASSUME NEW S, NEW s \in Seq(S), NEW e \in S
  PROVE  /\ Append(s, e) \in Seq(S)
         /\ Range(Append(s, e)) = Range(s) \cup {e}
<1>1. /\ Append(s, e) \in Seq(S) /\ Len(s) \in Nat
      /\ Len(Append(s, e)) = Len(s) + 1
      /\ \A i \in 1..Len(s) : Append(s, e)[i] = s[i]
      /\ Append(s, e)[Len(s) + 1] = e
  BY AppendProperties, LenProperties
<1>2. Range(Append(s, e)) = {Append(s, e)[i] : i \in 1..(Len(s) + 1)}
  BY <1>1, RangeFacts
<1>3. Range(s) = {s[i] : i \in 1..Len(s)}
  BY RangeFacts
<1> QED BY <1>1, <1>2, <1>3

LEMMA ConcatRange ==
  ASSUME NEW S, NEW s \in Seq(S), NEW t \in Seq(S)
  PROVE  /\ s \o t \in Seq(S)
         /\ Range(s \o t) = Range(s) \cup Range(t)
<1>1. s \o t \in Seq(S)
  BY ConcatProperties
<1> QED BY <1>1, RangeConcatenation

LEMMA TrimRange ==
  ASSUME NEW S, NEW s \in Seq(S)
  PROVE  /\ Trim(s) \in Seq(S)
         /\ Range(Trim(s)) \subseteq Range(s)
         /\ Len(s) <= MaxPathInfos => Trim(s) = s
<1> DEFINE n == IF Len(s) > MaxPathInfos THEN MaxPathInfos ELSE Len(s)
<1>1. MaxPathInfos \in Nat /\ Len(s) \in Nat /\ n \in Nat /\ n <= Len(s)
  BY UploaderAssumption, LenProperties
<1>2. Trim(s) = SubSeq(s, 1, n)
  BY DEF Trim
<1>3. Len(s) <= MaxPathInfos => n = Len(s)
  BY <1>1
<1> HIDE DEF n
<1>4. /\ SubSeq(s, 1, n) \in Seq(S) /\ Len(SubSeq(s, 1, n)) = n
      /\ \A i \in 1..n : SubSeq(s, 1, n)[i] = s[i]
  BY <1>1
<1>5. Range(SubSeq(s, 1, n)) = {SubSeq(s, 1, n)[i] : i \in 1..n}
  BY <1>4, RangeFacts
<1>6. Range(s) = {s[i] : i \in 1..Len(s)}
  BY RangeFacts
<1>7. Range(SubSeq(s, 1, n)) \subseteq Range(s)
  BY <1>1, <1>4, <1>5, <1>6
<1>8. SubSeq(s, 1, Len(s)) = s
  BY SubSeqFull
<1> QED BY <1>2, <1>3, <1>4, <1>7, <1>8

-----------------------------------------------------------------------------
(* The path infos that are queued or in the hands of an upload are among   *)
(* those that were added.                                                  *)
PathTypes ==
  /\ addedPaths \in 0..MaxPaths
  /\ pathInfos \in Seq(Paths)
  /\ paths \in [Procs -> Seq(Paths)]
Known ==
  /\ Range(pathInfos) \subseteq 1..addedPaths
  /\ \A g \in Procs : Range(paths[g]) \subseteq 1..addedPaths

(* The parts of PathsConserved.                                            *)
NoneLost ==
  \A p \in 1..addedPaths :
    \/ p \in Range(pathInfos)
    \/ \E g \in Procs : p \in Range(paths[g])
    \/ p \in ackedPaths \cup trimmed
NoneTwice ==
  \A g \in Procs :
    /\ Range(pathInfos) \cap Range(paths[g]) = {}
    /\ \A h \in Procs \ {g} : Range(paths[g]) \cap Range(paths[h]) = {}

PathInv == PathTypes /\ Known /\ NoneLost /\ NoneTwice

LEMMA InitPaths == Init => PathInv
<1> SUFFICES ASSUME Init PROVE PathInv
  OBVIOUS
<1>1. /\ addedPaths = 0 /\ pathInfos = <<>>
      /\ paths = [g \in Procs |-> <<>>]
  BY DEF Init
<1>2. PathTypes
  BY <1>1, UploaderAssumption, EmptySeq DEF PathTypes
<1>3. Range(pathInfos) = {} /\ \A g \in Procs : Range(paths[g]) = {}
  BY <1>1, EmptyRange
<1> QED BY <1>1, <1>2, <1>3 DEF PathInv, Known, NoneLost, NoneTwice

(* A new path info goes to the queue.                                      *)
LEMMA AddKeeps == PathInv /\ AddPathInfo => PathInv'
<1> SUFFICES ASSUME PathInv, AddPathInfo PROVE PathInv'
  OBVIOUS
<1>1. /\ addedPaths \in Nat /\ addedPaths + 1 \in Paths
      /\ addedPaths' = addedPaths + 1 /\ addedPaths' \in 0..MaxPaths
      /\ pathInfos' = Append(pathInfos, addedPaths + 1)
      /\ paths' = paths /\ ackedPaths' = ackedPaths /\ trimmed' = trimmed
  BY UploaderAssumption
  DEF AddPathInfo, PathInv, PathTypes, Paths, batchVars
<1>2. /\ pathInfos' \in Seq(Paths)
      /\ Range(pathInfos') = Range(pathInfos) \cup {addedPaths + 1}
  BY <1>1, AppendRange DEF PathInv, PathTypes
<1>3. /\ 1..addedPaths' = (1..addedPaths) \cup {addedPaths + 1}
      /\ addedPaths + 1 \notin 1..addedPaths
  BY <1>1
<1>4. PathTypes'
  BY <1>1, <1>2 DEF PathInv, PathTypes
<1>5. Known'
  BY <1>1, <1>2, <1>3 DEF PathInv, Known
<1>6. NoneLost'
  BY <1>1, <1>2, <1>3 DEF PathInv, NoneLost
<1>7. NoneTwice'
  BY <1>1, <1>2, <1>3 DEF PathInv, Known, NoneTwice
<1> QED BY <1>4, <1>5, <1>6, <1>7 DEF PathInv

(* An upload takes the whole queue.                                        *)
LEMMA TakeKeeps ==
  ASSUME PathInv, NEW g \in Procs, TakeBatch(g), paths[g] = <<>>
  PROVE  PathInv'
<1>1. /\ paths' = [paths EXCEPT ![g] = pathInfos]
      /\ pathInfos' = <<>>
      /\ addedPaths' = addedPaths /\ ackedPaths' = ackedPaths
      /\ trimmed' = trimmed
  BY DEF TakeBatch, histVars
<1>2. PathTypes'
  BY <1>1, EmptySeq DEF PathInv, PathTypes
<1>3. /\ Range(pathInfos') = {} /\ Range(paths[g]) = {}
      /\ Range(paths'[g]) = Range(pathInfos)
      /\ \A h \in Procs \ {g} : Range(paths'[h]) = Range(paths[h])
  BY <1>1, EmptyRange DEF PathInv, PathTypes
<1>4. Known'
  BY <1>1, <1>3 DEF PathInv, Known
<1>5. NoneLost'
  BY <1>1, <1>3 DEF PathInv, NoneLost
<1>6. NoneTwice'
  BY <1>1, <1>3 DEF PathInv, NoneTwice
<1> QED BY <1>2, <1>4, <1>5, <1>6 DEF PathInv

(* The analyzer confirms an upload.                                        *)
LEMMA UploadedKeeps ==
  ASSUME PathInv, NEW g \in Procs, Uploaded(g)
  PROVE  PathInv'
<1>1. /\ paths' = [paths EXCEPT ![g] = <<>>]
      /\ pathInfos' = pathInfos /\ addedPaths' = addedPaths
      /\ ackedPaths' = ackedPaths \cup Range(paths[g])
      /\ trimmed' = trimmed
  BY DEF Uploaded, Release
<1>2. PathTypes'
  BY <1>1, EmptySeq DEF PathInv, PathTypes
<1>3. /\ Range(paths'[g]) = {}
      /\ \A h \in Procs \ {g} : Range(paths'[h]) = Range(paths[h])
  BY <1>1, EmptyRange DEF PathInv, PathTypes
<1>4. Known'
  BY <1>1, <1>3 DEF PathInv, Known
<1>5. NoneLost'
  BY <1>1, <1>3 DEF PathInv, NoneLost
<1>6. NoneTwice'
  BY <1>1, <1>3 DEF PathInv, NoneTwice
<1> QED BY <1>2, <1>4, <1>5, <1>6 DEF PathInv

(* A failed upload puts its path infos back in front of the queue.         *)
LEMMA RequeueKeeps ==
  ASSUME PathInv, NEW g \in Procs, Requeue(g)
  PROVE  PathInv'
<1> DEFINE all == paths[g] \o pathInfos
<1>1. /\ paths' = [paths EXCEPT ![g] = <<>>]
      /\ pathInfos' = Trim(all)
      /\ trimmed' = IF Len(all) <= MaxPathInfos THEN trimmed
                    ELSE trimmed \cup (Range(all) \ Range(Trim(all)))
      /\ addedPaths' = addedPaths /\ ackedPaths' = ackedPaths
  BY DEF Requeue, Release
<1>2. paths[g] \in Seq(Paths) /\ pathInfos \in Seq(Paths)
  BY DEF PathInv, PathTypes
<1>3. all \in Seq(Paths) /\ Range(all) = Range(paths[g]) \cup Range(pathInfos)
  BY <1>2, ConcatRange
<1> HIDE DEF all
<1>4. /\ pathInfos' \in Seq(Paths)
      /\ Range(pathInfos') \subseteq Range(all)
      /\ Len(all) <= MaxPathInfos => pathInfos' = all
  BY <1>1, <1>3, TrimRange
<1>5. Range(all) \subseteq Range(pathInfos') \cup trimmed'
      /\ trimmed \subseteq trimmed'
  BY <1>1, <1>4
<1>6. PathTypes'
  BY <1>1, <1>4, EmptySeq DEF PathInv, PathTypes
<1>7. /\ Range(paths'[g]) = {}
      /\ \A h \in Procs \ {g} : Range(paths'[h]) = Range(paths[h])
  BY <1>1, EmptyRange DEF PathInv, PathTypes
<1>8. Known'
  BY <1>1, <1>3, <1>4, <1>7 DEF PathInv, Known
<1>9. NoneLost'
  BY <1>1, <1>3, <1>5, <1>7 DEF PathInv, NoneLost
<1>10. NoneTwice'
  BY <1>1, <1>3, <1>4, <1>7 DEF PathInv, NoneTwice
<1> QED BY <1>6, <1>8, <1>9, <1>10 DEF PathInv

-----------------------------------------------------------------------------
(* Only an upload that is under way has path infos in its hands.           *)
Carrying == {"check", "connect", "send", "rpc", "noConnection", "rpcError",
             "refused"}
Idle ==
  /\ pc \in [Procs -> Pcs]
  /\ \A g \in Procs : pc[g] \notin Carrying => paths[g] = <<>>

LEMMA InitIdle == Init => Idle
  BY DEF Init, Idle, Pcs

(* What a step of one goroutine leaves alone.                              *)
LEMMA IdleStep ==
  ASSUME Idle, PathTypes, NEW g \in Procs, NEW v \in Pcs,
         pc' = [pc EXCEPT ![g] = v],
         \/ paths' = paths /\ (v \in Carrying \/ pc[g] \notin Carrying)
         \/ paths' = [paths EXCEPT ![g] = <<>>]
         \/ v \in Carrying /\ \A h \in Procs \ {g} : paths'[h] = paths[h]
  PROVE  Idle'
  BY DEF Idle, PathTypes

LEMMA ReturnPcs ==
  ASSUME NEW g \in Procs
  PROVE  Returned(g) \in Pcs /\ Failed(g) \in Pcs
  BY DEF Returned, Failed, Pcs

LEMMA NextIdle == Idle /\ PathTypes /\ [NextWithClose]_vars => Idle'
<1> SUFFICES ASSUME Idle, PathTypes, [NextWithClose]_vars PROVE Idle'
  OBVIOUS
<1>0. Loop \in Procs /\ Workers \subseteq Procs
  BY DEF Procs
<1>1. ASSUME AddProbeResult PROVE Idle'
  <2>1. paths' = paths
    BY <1>1 DEF AddProbeResult, batchVars
  <2>2. CASE pc' = pc
    BY <2>1, <2>2 DEF Idle
  <2>3. ASSUME NEW g \in Workers, pc[g] = "free", pc' = [pc EXCEPT ![g] = "ready"]
        PROVE  Idle'
    BY <1>0, <2>1, <2>3, IdleStep DEF Pcs, Carrying
  <2> QED BY <1>1, <2>2, <2>3 DEF AddProbeResult
<1>2. ASSUME AddPathInfo \/ Stop \/ StopReturn \/ UNCHANGED vars
      PROVE  Idle'
  BY <1>2 DEF AddPathInfo, Stop, StopReturn, vars, batchVars, Idle
<1>3. ASSUME Tick \/ SelectDone \/ LoopReset PROVE Idle'
  BY <1>0, <1>3, IdleStep DEF Tick, SelectDone, LoopReset, batchVars, Pcs, Carrying
<1>4. ASSUME NEW g \in Procs, NothingToUpload(g) PROVE Idle'
  BY <1>4, IdleStep, ReturnPcs DEF NothingToUpload, batchVars, Carrying
<1>5. ASSUME NEW g \in Procs, TakeBatch(g) PROVE Idle'
  <2>1. /\ pc' = [pc EXCEPT ![g] = "check"]
        /\ \A h \in Procs \ {g} : paths'[h] = paths[h]
    BY <1>5 DEF TakeBatch, PathTypes
  <2> QED BY <2>1, IdleStep DEF Pcs, Carrying
<1>6. ASSUME NEW g \in Procs, CheckClient(g) PROVE Idle'
  <2>1. CASE client
    BY <1>6, <2>1, IdleStep DEF CheckClient, batchVars, Pcs, Carrying
  <2>2. CASE ~client
    BY <1>6, <2>2, IdleStep DEF CheckClient, batchVars, Pcs, Carrying
  <2> QED BY <2>1, <2>2
<1>7. ASSUME NEW g \in Procs, Connect(g) \/ ConnectFails(g) PROVE Idle'
  BY <1>7, IdleStep DEF Connect, ConnectFails, batchVars, Pcs, Carrying
<1>8. ASSUME NEW g \in Procs, Send(g) PROVE Idle'
  <2>1. paths' = paths
    BY <1>8 DEF Send
  <2>2. CASE pc' = pc
    BY <2>1, <2>2 DEF Idle
  <2>3. CASE pc' = [pc EXCEPT ![g] = "rpc"]
    BY <2>1, <2>3, IdleStep DEF Pcs, Carrying
  <2> QED BY <1>8, <2>2, <2>3 DEF Send
<1>9. ASSUME NEW g \in Procs, Uploaded(g) PROVE Idle'
  BY <1>9, IdleStep, ReturnPcs DEF Uploaded, Release
<1>10. ASSUME NEW g \in Procs, UploadFails(g) PROVE Idle'
  <2>1. paths' = paths
    BY <1>10 DEF UploadFails, batchVars
  <2>2. PICK v \in {"rpcError", "refused"} : pc' = [pc EXCEPT ![g] = v]
    BY <1>10 DEF UploadFails
  <2> QED BY <2>1, <2>2, IdleStep DEF Pcs, Carrying
<1>11. ASSUME NEW g \in Procs, Requeue(g) PROVE Idle'
  <2>1. paths' = [paths EXCEPT ![g] = <<>>]
    BY <1>11 DEF Requeue, Release
  <2>2. pc' = [pc EXCEPT ![g] = IF @ = "rpcError" THEN "reset" ELSE Failed(g)]
    BY <1>11 DEF Requeue
  <2>3. CASE pc[g] = "rpcError"
    <3>1. pc' = [pc EXCEPT ![g] = "reset"]
      BY <2>2, <2>3
    <3> QED BY <2>1, <3>1, IdleStep DEF Pcs
  <2>4. CASE pc[g] # "rpcError"
    <3>1. pc' = [pc EXCEPT ![g] = Failed(g)]
      BY <2>2, <2>4
    <3> QED BY <2>1, <3>1, IdleStep, ReturnPcs
  <2> QED BY <2>3, <2>4
<1>12. ASSUME NEW g \in Procs, Reset(g) PROVE Idle'
  BY <1>12, IdleStep, ReturnPcs DEF Reset, batchVars, Carrying
<1> QED BY <1>1, <1>2, <1>3, <1>4, <1>5, <1>6, <1>7, <1>8, <1>9, <1>10, <1>11,
           <1>12 DEF NextWithClose, Next, Run, Upload

UploadInv == PathInv /\ Idle

LEMMA InitUpload == Init => UploadInv
  BY InitPaths, InitIdle DEF UploadInv

LEMMA NextUpload == UploadInv /\ [NextWithClose]_vars => UploadInv'
<1> SUFFICES ASSUME PathInv, Idle, [NextWithClose]_vars PROVE PathInv'
  BY NextIdle DEF UploadInv, PathInv
<1>1. CASE AddPathInfo
  BY <1>1, AddKeeps
<1>2. ASSUME NEW g \in Procs, TakeBatch(g) PROVE PathInv'
  <2>1. paths[g] = <<>>
    BY <1>2 DEF TakeBatch, Idle, Carrying
  <2> QED BY <1>2, <2>1, TakeKeeps
<1>3. ASSUME NEW g \in Procs, Uploaded(g) PROVE PathInv'
  BY <1>3, UploadedKeeps
<1>4. ASSUME NEW g \in Procs, Requeue(g) PROVE PathInv'
  BY <1>4, RequeueKeeps
<1>5. CASE UNCHANGED <<pathInfos, paths, addedPaths, ackedPaths, trimmed>>
  BY <1>5 DEF PathInv, PathTypes, Known, NoneLost, NoneTwice
<1>6. ASSUME NEW g \in Procs,
             NothingToUpload(g) \/ CheckClient(g) \/ Connect(g) \/ ConnectFails(g)
               \/ Send(g) \/ UploadFails(g) \/ Reset(g)
      PROVE  UNCHANGED <<pathInfos, paths, addedPaths, ackedPaths, trimmed>>
  BY <1>6 DEF NothingToUpload, CheckClient, Connect, ConnectFails, Send,
              UploadFails, Reset, queueVars, batchVars, histVars
<1>7. ASSUME AddProbeResult \/ Tick \/ LoopReset \/ Stop \/ SelectDone
               \/ StopReturn \/ UNCHANGED vars
      PROVE  UNCHANGED <<pathInfos, paths, addedPaths, ackedPaths, trimmed>>
  BY <1>7 DEF AddProbeResult, Tick, LoopReset, Stop, SelectDone, StopReturn,
              vars, queueVars, batchVars, histVars
<1> QED BY <1>1, <1>2, <1>3, <1>4, <1>5, <1>6, <1>7
  DEF NextWithClose, Next, Run, Upload

LEMMA UploadImplies == UploadInv => PathsConserved
  BY DEF UploadInv, PathInv, NoneLost, NoneTwice, PathsConserved

(* No path info is lost or in two hands, however many uploads run and      *)
(* fail, and whatever the limit after a failure (uploadData).              *)
THEOREM PathsAreConserved == Spec => []PathsConserved
<1>1. [Next]_vars => [NextWithClose]_vars
  BY DEF NextWithClose
<1> QED BY <1>1, InitUpload, NextUpload, UploadImplies, PTL DEF Spec

(* The same with Stop, the last upload and Close.                          *)
THEOREM PathsAreConservedToTheEnd == SpecWithClose => []PathsConserved
<1> QED BY InitUpload, NextUpload, UploadImplies, PTL DEF SpecWithClose
-----------------------------------------------------------------------------
(* The gap between the test of u.client and its use.                       *)

(* What a step does to an upload that is about to call the client.         *)
RivalReset(g) ==
  pc'[g] = "send" /\ ~client' =>
    /\ pc[g] = "send"
    /\ client => \E h \in Procs \ {g} :
                    /\ pc[h] \in {"reset", "loopReset"}
                    /\ pc'[h] # pc[h]

(* A step that leads no upload there and leaves the client alone.          *)
LEMMA NotThere ==
  ASSUME Idle, NEW g \in Procs, NEW h \in Procs, NEW v,
         pc' = [pc EXCEPT ![h] = v], v # "send", client' = client
  PROVE  RivalReset(g)
<1>1. pc'[g] = "send" => pc[g] = "send"
  BY DEF Idle
<1> QED BY <1>1 DEF RivalReset

LEMMA Returns ==
  ASSUME NEW g \in Procs
  PROVE  Returned(g) \in {"free", "exited", "idle"} /\
         Failed(g) \in {"free", "exited", "idle", "loopReset"}
  BY DEF Returned, Failed

(* uploadLoop and the uploads of a full queue share one client: a nil      *)
(* client is called only if one of them resets it while another stands     *)
(* between its test and its call.                                          *)
THEOREM RivalNeeded == Spec => NilClientNeedsRival
<1>1. Idle /\ [Next]_vars => [\A g \in Procs : RivalReset(g)]_vars
  <2> SUFFICES ASSUME Idle, Next, NEW g \in Procs PROVE RivalReset(g)
    OBVIOUS
  <2>0. Loop \in Procs /\ Workers \subseteq Procs
    BY DEF Procs
  <2>a. ASSUME pc' = pc, client' = client PROVE RivalReset(g)
    BY <2>a DEF RivalReset
  <2>1. ASSUME AddProbeResult PROVE RivalReset(g)
    <3>1. client' = client
      BY <2>1 DEF AddProbeResult
    <3>2. pc' = pc \/ \E h \in Workers : pc' = [pc EXCEPT ![h] = "ready"]
      BY <2>1 DEF AddProbeResult
    <3> QED BY <2>0, <2>a, <3>1, <3>2, NotThere
  <2>2. ASSUME AddPathInfo PROVE RivalReset(g)
    BY <2>2, <2>a DEF AddPathInfo
  <2>3. ASSUME Tick PROVE RivalReset(g)
    BY <2>0, <2>3, NotThere DEF Tick
  <2>4. ASSUME LoopReset PROVE RivalReset(g)
    <3>1. pc[Loop] = "loopReset" /\ pc' = [pc EXCEPT ![Loop] = "idle"]
      BY <2>4 DEF LoopReset
    <3>2. ASSUME pc'[g] = "send" PROVE pc[g] = "send" /\ Loop # g
      BY <2>0, <3>1, <3>2 DEF Idle
    <3>3. pc'[Loop] # pc[Loop]
      BY <2>0, <3>1 DEF Idle
    <3> QED BY <2>0, <3>1, <3>2, <3>3 DEF RivalReset
  <2>5. ASSUME NEW h \in Procs, NothingToUpload(h) PROVE RivalReset(g)
    BY <2>5, Returns, NotThere DEF NothingToUpload
  <2>6. ASSUME NEW h \in Procs, TakeBatch(h) PROVE RivalReset(g)
    BY <2>6, NotThere DEF TakeBatch
  <2>7. ASSUME NEW h \in Procs, CheckClient(h) PROVE RivalReset(g)
    <3>1. client' = client
      BY <2>7 DEF CheckClient
    <3>2. CASE client
      BY <3>1, <3>2 DEF RivalReset
    <3>3. CASE ~client
      <4>1. pc' = [pc EXCEPT ![h] = "connect"]
        BY <2>7, <3>3 DEF CheckClient
      <4> QED BY <3>1, <4>1, NotThere
    <3> QED BY <3>2, <3>3
  <2>8. ASSUME NEW h \in Procs, Connect(h) PROVE RivalReset(g)
    BY <2>8 DEF Connect, RivalReset
  <2>9. ASSUME NEW h \in Procs, ConnectFails(h) PROVE RivalReset(g)
    BY <2>9, NotThere DEF ConnectFails
  <2>10. ASSUME NEW h \in Procs, Send(h) PROVE RivalReset(g)
    <3>1. client' = client
      BY <2>10 DEF Send
    <3>2. pc' = pc \/ pc' = [pc EXCEPT ![h] = "rpc"]
      BY <2>10 DEF Send
    <3> QED BY <2>a, <3>1, <3>2, NotThere
  <2>11. ASSUME NEW h \in Procs, Uploaded(h) PROVE RivalReset(g)
    BY <2>11, Returns, NotThere DEF Uploaded
  <2>12. ASSUME NEW h \in Procs, UploadFails(h) PROVE RivalReset(g)
    <3>1. client' = client
      BY <2>12 DEF UploadFails
    <3>2. PICK v \in {"rpcError", "refused"} : pc' = [pc EXCEPT ![h] = v]
      BY <2>12 DEF UploadFails
    <3> QED BY <3>1, <3>2, NotThere
  <2>13. ASSUME NEW h \in Procs, Requeue(h) PROVE RivalReset(g)
    <3>1. client' = client
      BY <2>13 DEF Requeue
    <3>2. PICK v \in {"reset", Failed(h)} : pc' = [pc EXCEPT ![h] = v]
      BY <2>13 DEF Requeue
    <3>3. v # "send"
      BY <3>2, Returns
    <3> QED BY <3>1, <3>2, <3>3, NotThere
  <2>14. ASSUME NEW h \in Procs, Reset(h) PROVE RivalReset(g)
    <3>1. pc[h] = "reset" /\ pc' = [pc EXCEPT ![h] = Failed(h)]
      BY <2>14 DEF Reset
    <3>2. Failed(h) # "reset" /\ Failed(h) # "send"
      BY Returns
    <3>3. ASSUME pc'[g] = "send" PROVE pc[g] = "send" /\ h # g
      BY <3>1, <3>2, <3>3 DEF Idle
    <3>4. pc'[h] # pc[h]
      BY <3>1, <3>2 DEF Idle
    <3> QED BY <3>1, <3>3, <3>4 DEF RivalReset
  <2> QED BY <2>1, <2>2, <2>3, <2>4, <2>5, <2>6, <2>7, <2>8, <2>9, <2>10,
             <2>11, <2>12, <2>13, <2>14 DEF Next, Run, Upload
<1>2. UploadInv => Idle
  BY DEF UploadInv
<1>3. [Next]_vars => [NextWithClose]_vars
  BY DEF NextWithClose
<1> QED
  BY <1>1, <1>2, <1>3, InitUpload, NextUpload, PTL
     DEF Spec, NilClientNeedsRival, RivalReset
-----------------------------------------------------------------------------
(* Slices.  What a slice holds is a window of its array.                   *)
Window(q, lo, n) == {q[i] : i \in (lo + 1)..(lo + n)}
Content(h, s) == Window(h[s.arr], s.lo, s.len)

(* A slice within the bounds of its array, with results only.              *)
Fits(h, s) ==
  /\ s.arr \in Arrays
  /\ s.lo + s.len <= Len(h[s.arr])
  /\ Content(h, s) \subseteq Results

Memory == [Arrays -> Seq(Results \cup {Nil})]

(* A function on 1..n is a sequence.                                       *)
LEMMA FunSeq ==
  ASSUME NEW S, NEW n \in Nat, NEW f \in [1..n -> S]
  PROVE  f \in Seq(S) /\ Len(f) = n /\ DOMAIN f = 1..n
<1>1. f \in Seq(S)
  BY SeqDef
<1>2. DOMAIN f = 1..n
  OBVIOUS
<1>3. Len(f) \in Nat /\ DOMAIN f = 1..Len(f)
  BY <1>1, LenProperties
<1> QED BY <1>1, <1>2, <1>3

(* The elements of a slice, as a sequence.                                 *)
LEMMA SliceElems ==
  ASSUME NEW h \in Memory, NEW s \in Slices, Fits(h, s)
  PROVE  /\ Elems(h, s) \in Seq(Results)
         /\ Len(Elems(h, s)) = s.len
         /\ \A i \in 1..s.len : Elems(h, s)[i] = h[s.arr][s.lo + i]
         /\ Range(Elems(h, s)) = Content(h, s)
<1>1. s.lo \in Nat /\ s.len \in Nat
  BY DEF Slices
<1>2. \A i \in 1..s.len : s.lo + i \in (s.lo + 1)..(s.lo + s.len)
  BY <1>1
<1>3. \A i \in 1..s.len : h[s.arr][s.lo + i] \in Results
  BY <1>2 DEF Fits, Content, Window
<1>4. Elems(h, s) \in [1..s.len -> Results]
  BY <1>3 DEF Elems
<1>5. Elems(h, s) \in Seq(Results) /\ Len(Elems(h, s)) = s.len
  BY <1>1, <1>4, FunSeq
<1>6. \A i \in 1..s.len : Elems(h, s)[i] = h[s.arr][s.lo + i]
  BY DEF Elems
<1>7. Range(Elems(h, s)) = {Elems(h, s)[i] : i \in 1..s.len}
  BY <1>5, RangeFacts
<1>8. {h[s.arr][s.lo + i] : i \in 1..s.len} = Content(h, s)
  <2>1. \A j \in (s.lo + 1)..(s.lo + s.len) : j - s.lo \in 1..s.len /\ s.lo + (j - s.lo) = j
    BY <1>1
  <2> QED BY <1>2, <2>1 DEF Content, Window
<1> QED BY <1>5, <1>6, <1>7, <1>8

(* No slice, no elements.                                                  *)
LEMMA NoElems == \A h : Range(Elems(h, NoSlice)) = {}
<1>1. \A h : DOMAIN Elems(h, NoSlice) = 1..0
  BY DEF Elems, NoSlice
<1> QED BY <1>1 DEF Range

(* There is always an array for a new slice: the slices are one more than  *)
(* the goroutines, the arrays two more.                                    *)
LEMMA UnusedFresh ==
  ASSUME batch \in [Procs -> Slices]
  PROVE  /\ Unused \in Arrays
         /\ Unused # probeResults.arr
         /\ \A g \in Procs : Unused # batch[g].arr
<1>1. IsFiniteSet(Procs) /\ Cardinality(Procs) \in Nat
  BY UploaderAssumption, FS_AddElement, FS_CardinalityType DEF Procs
<1>2. IsFiniteSet(Arrays) /\ Cardinality(Arrays) = Cardinality(Procs) + 2
  BY <1>1, FS_Interval DEF Arrays
<1>3. PICK rest : rest = Arrays \ {probeResults.arr}
  OBVIOUS
<1>4. IsFiniteSet(rest) /\ Cardinality(Procs) < Cardinality(rest)
  BY <1>1, <1>2, <1>3, FS_RemoveElement
<1>5. \E a \in rest : \A g \in Procs : a # batch[g].arr
  <2> SUFFICES ASSUME \A a \in rest : \E g \in Procs : a = batch[g].arr
               PROVE  FALSE
    OBVIOUS
  <2> DEFINE f == [a \in rest |-> CHOOSE g \in Procs : a = batch[g].arr]
  <2>1. \A a \in rest : f[a] \in Procs /\ a = batch[f[a]].arr
    OBVIOUS
  <2>2. f \in [rest -> Procs]
    BY <2>1
  <2>3. \E a, b \in rest : a # b /\ f[a] = f[b]
    <3> HIDE DEF f
    <3> QED BY <1>1, <1>4, <2>2, FS_PigeonHole
  <2> HIDE DEF f
  <2> QED BY <2>1, <2>3
<1> QED BY <1>3, <1>5 DEF Unused

(* The two ways of append.                                                 *)
LEMMA AppendInPlace ==
  ASSUME NEW h \in Memory, NEW s \in Slices, Fits(h, s), NEW xs \in Seq(Results),
         s.len + Len(xs) <= Cap(h, s)
  PROVE  /\ AppendTo(h, s, xs).slice = [s EXCEPT !.len = s.len + Len(xs)]
         /\ \E q \in Seq(Results \cup {Nil}) :
              /\ AppendTo(h, s, xs).heap = [h EXCEPT ![s.arr] = q]
              /\ Len(q) = Len(h[s.arr])
              /\ \A i \in 1..Len(q) :
                   q[i] = IF i \in (s.lo + s.len + 1)..(s.lo + s.len + Len(xs))
                          THEN xs[i - (s.lo + s.len)] ELSE h[s.arr][i]
<1> DEFINE at == s.lo + s.len
           q  == [i \in 1..Len(h[s.arr]) |->
                    IF i \in (at + 1)..(at + Len(xs)) THEN xs[i - at] ELSE h[s.arr][i]]
<1>1. /\ AppendTo(h, s, xs).slice = [s EXCEPT !.len = s.len + Len(xs)]
      /\ AppendTo(h, s, xs).heap = [h EXCEPT ![s.arr] = q]
  BY DEF AppendTo
<1>2. s.lo \in Nat /\ s.len \in Nat /\ at \in Nat /\ Len(xs) \in Nat
  BY LenProperties DEF Slices
<1>3. h[s.arr] \in Seq(Results \cup {Nil}) /\ Len(h[s.arr]) \in Nat
  BY LenProperties DEF Memory, Fits
<1> HIDE DEF at
<1>4. \A i \in (at + 1)..(at + Len(xs)) : i - at \in 1..Len(xs)
  BY <1>2
<1>5. \A i \in 1..Len(xs) : xs[i] \in Results
  BY ElementOfSeq
<1>6. \A i \in 1..Len(h[s.arr]) : h[s.arr][i] \in Results \cup {Nil}
  BY <1>3, ElementOfSeq
<1>7. q \in [1..Len(h[s.arr]) -> Results \cup {Nil}]
  BY <1>4, <1>5, <1>6
<1>8. \A i \in 1..Len(h[s.arr]) :
        q[i] = IF i \in (at + 1)..(at + Len(xs)) THEN xs[i - at] ELSE h[s.arr][i]
  OBVIOUS
<1> HIDE DEF q
<1>9. q \in Seq(Results \cup {Nil}) /\ Len(q) = Len(h[s.arr])
  BY <1>3, <1>7, FunSeq
<1> QED BY <1>1, <1>8, <1>9 DEF at

LEMMA AppendGrows ==
  ASSUME NEW h \in Memory, NEW s \in Slices, Fits(h, s), NEW xs \in Seq(Results),
         ~(s.len + Len(xs) <= Cap(h, s))
  PROVE  /\ AppendTo(h, s, xs).slice =
              [arr |-> Unused, lo |-> 0, len |-> s.len + Len(xs)]
         /\ \E q \in Seq(Results \cup {Nil}) :
              /\ AppendTo(h, s, xs).heap = [h EXCEPT ![Unused] = q]
              /\ s.len + Len(xs) <= Len(q)
              /\ \A i \in 1..s.len : q[i] = h[s.arr][s.lo + i]
              /\ \A i \in 1..Len(xs) : q[s.len + i] = xs[i]
<1>1. PICK l \in Nat, m \in Nat, k \in Int :
        l = s.len /\ m = Len(xs) /\ k = Cap(h, s)
  <2>1. Len(h[s.arr]) \in Nat
    BY LenProperties DEF Memory, Fits
  <2> QED BY <2>1, LenProperties DEF Slices, Cap
<1>2. PICK n \in Nat, c \in Nat :
        n = l + m /\ c = (IF n > 2 * k THEN n ELSE 2 * k) /\ c - n \in Nat
  OBVIOUS
<1>3. PICK nils \in Seq(Results \cup {Nil}) : nils = Nils(c - n) /\ Len(nils) = c - n
  <2>1. Nils(c - n) \in [1..(c - n) -> Results \cup {Nil}]
    BY DEF Nils
  <2> QED BY <1>2, <2>1, FunSeq
<1>4. PICK e \in Seq(Results \cup {Nil}) :
        /\ e = Elems(h, s) /\ Len(e) = l
        /\ \A i \in 1..l : e[i] = h[s.arr][s.lo + i]
  BY <1>1, SliceElems, SeqMonotonic
<1>5. xs \in Seq(Results \cup {Nil})
  BY SeqMonotonic
<1>6. PICK p \in Seq(Results \cup {Nil}) :
        /\ p = e \o xs /\ Len(p) = n
        /\ \A i \in 1..n : p[i] = IF i <= l THEN e[i] ELSE xs[i - l]
  <2>1. /\ e \o xs \in Seq(Results \cup {Nil})
        /\ Len(e \o xs) = Len(e) + Len(xs)
        /\ \A i \in 1..(Len(e) + Len(xs)) :
             (e \o xs)[i] = IF i <= Len(e) THEN e[i] ELSE xs[i - Len(e)]
    BY <1>5, ConcatProperties
  <2>2. PICK p : p = e \o xs
    OBVIOUS
  <2>3. Len(e) = l /\ Len(xs) = m /\ n = l + m
    BY <1>1, <1>2, <1>4
  <2>4. /\ p \in Seq(Results \cup {Nil}) /\ Len(p) = n
        /\ \A i \in 1..n : p[i] = IF i <= l THEN e[i] ELSE xs[i - l]
    BY Zenon, <2>1, <2>2, <2>3
  <2> QED BY <2>2, <2>4
<1>7. PICK q \in Seq(Results \cup {Nil}) :
        /\ q = p \o nils /\ Len(q) = n + (c - n)
        /\ \A i \in 1..(n + (c - n)) : q[i] = IF i <= n THEN p[i] ELSE nils[i - n]
  <2>1. /\ p \o nils \in Seq(Results \cup {Nil})
        /\ Len(p \o nils) = Len(p) + Len(nils)
        /\ \A i \in 1..(Len(p) + Len(nils)) :
             (p \o nils)[i] = IF i <= Len(p) THEN p[i] ELSE nils[i - Len(p)]
    BY ConcatProperties
  <2>2. PICK q : q = p \o nils
    OBVIOUS
  <2>3. /\ q \in Seq(Results \cup {Nil}) /\ Len(q) = n + (c - n)
        /\ \A i \in 1..(n + (c - n)) : q[i] = IF i <= n THEN p[i] ELSE nils[i - n]
    BY Zenon, <1>3, <1>6, <2>1, <2>2
  <2> QED BY <2>2, <2>3
<1>8. /\ AppendTo(h, s, xs).slice = [arr |-> Unused, lo |-> 0, len |-> n]
      /\ AppendTo(h, s, xs).heap = [h EXCEPT ![Unused] = q]
  BY <1>1, <1>2, <1>3, <1>4, <1>6, <1>7 DEF AppendTo
<1>9. n <= Len(q)
  BY <1>2, <1>7
<1>10. ASSUME NEW i \in 1..l PROVE q[i] = h[s.arr][s.lo + i]
  <2>1. i \in 1..n /\ i \in 1..(n + (c - n)) /\ i <= n /\ i <= l
    BY <1>2
  <2> QED BY <1>4, <1>6, <1>7, <2>1
<1>11. ASSUME NEW i \in 1..m PROVE q[l + i] = xs[i]
  <2>1. /\ l + i \in 1..n /\ l + i \in 1..(n + (c - n)) /\ l + i <= n
        /\ ~(l + i <= l) /\ (l + i) - l = i
    BY <1>2
  <2> QED BY <1>6, <1>7, <2>1
<1> QED BY <1>1, <1>2, <1>8, <1>9, <1>10, <1>11

(* From lo on, q repeats l elements of p and goes on with xs.              *)
Joins(q, lo, p, lp, l, xs) ==
  /\ \A i \in 1..l : q[lo + i] = p[lp + i]
  /\ \A i \in 1..Len(xs) : q[lo + l + i] = xs[i]

(* A window made of another one and of a sequence behind it.               *)
LEMMA WindowJoin ==
  ASSUME NEW q, NEW p, NEW xs \in Seq(Results),
         NEW lo \in Nat, NEW lp \in Nat, NEW l \in Nat,
         Joins(q, lo, p, lp, l, xs)
  PROVE  Window(q, lo, l + Len(xs)) = Window(p, lp, l) \cup Range(xs)
<1> USE DEF Joins
<1>1. PICK m \in Nat : m = Len(xs)
  BY LenProperties
<1>2. Range(xs) = {xs[i] : i \in 1..m}
  BY <1>1, RangeFacts
<1>3. ASSUME NEW x \in Window(q, lo, l + m)
      PROVE  x \in Window(p, lp, l) \cup Range(xs)
  <2>1. PICK j \in (lo + 1)..(lo + (l + m)) : x = q[j]
    BY DEF Window
  <2>2. CASE j <= lo + l
    <3>1. PICK i \in 1..l : j = lo + i
      <4>1. j - lo \in 1..l /\ j = lo + (j - lo)
        BY <2>2
      <4> QED BY <4>1
    <3>2. lp + i \in (lp + 1)..(lp + l)
      OBVIOUS
    <3> QED BY <2>1, <3>1, <3>2 DEF Window
  <2>3. CASE ~(j <= lo + l)
    <3>1. PICK i \in 1..m : j = lo + l + i
      <4>1. j - (lo + l) \in 1..m /\ j = lo + l + (j - (lo + l))
        BY <2>3
      <4> QED BY <4>1
    <3> QED BY <1>1, <1>2, <2>1, <3>1
  <2> QED BY <2>2, <2>3
<1>4. ASSUME NEW x \in Window(p, lp, l) PROVE x \in Window(q, lo, l + m)
  <2>1. PICK j \in (lp + 1)..(lp + l) : x = p[j]
    BY <1>4 DEF Window
  <2>2. PICK i \in 1..l : j = lp + i
    <3>1. j - lp \in 1..l /\ j = lp + (j - lp)
      OBVIOUS
    <3> QED BY <3>1
  <2>3. lo + i \in (lo + 1)..(lo + (l + m))
    OBVIOUS
  <2> QED BY <2>1, <2>2, <2>3 DEF Window
<1>5. ASSUME NEW x \in Range(xs) PROVE x \in Window(q, lo, l + m)
  <2>1. PICK i \in 1..m : x = xs[i]
    BY <1>2
  <2>2. lo + l + i \in (lo + 1)..(lo + (l + m))
    OBVIOUS
  <2> QED BY <1>1, <2>1, <2>2 DEF Window
<1> QED BY <1>1, <1>3, <1>4, <1>5

(* The heap k is h but for the array that append took and the places after *)
(* the end of s.                                                           *)
WrittenPast(h, k, s) ==
  \A b \in Arrays \ {Unused} :
    /\ Len(k[b]) = Len(h[b])
    /\ \A i \in 1..Len(h[b]) :
         \/ k[b][i] = h[b][i]
         \/ b = s.arr /\ i > s.lo + s.len /\ k[b][i] \in Results

(* What append returns and what it writes.                                 *)
LEMMA Appended ==
  ASSUME NEW h \in Memory, NEW s \in Slices, Fits(h, s), NEW xs \in Seq(Results),
         Unused \in Arrays, Unused # s.arr
  PROVE  /\ AppendTo(h, s, xs).slice \in Slices
         /\ AppendTo(h, s, xs).heap \in Memory
         /\ Fits(AppendTo(h, s, xs).heap, AppendTo(h, s, xs).slice)
         /\ Content(AppendTo(h, s, xs).heap, AppendTo(h, s, xs).slice) =
              Content(h, s) \cup Range(xs)
         /\ \/ /\ AppendTo(h, s, xs).slice.arr = s.arr
               /\ AppendTo(h, s, xs).slice.lo = s.lo
            \/ AppendTo(h, s, xs).slice.arr = Unused
         /\ WrittenPast(h, AppendTo(h, s, xs).heap, s)
<1>1. PICK a : a = AppendTo(h, s, xs)
  OBVIOUS
<1>2. /\ s.arr \in Arrays /\ s.lo \in Nat /\ s.len \in Nat
      /\ Len(xs) \in Nat /\ Len(h[s.arr]) \in Nat
      /\ s.lo + s.len <= Len(h[s.arr])
      /\ h[s.arr] \in Seq(Results \cup {Nil})
  BY LenProperties DEF Slices, Fits, Memory
<1>3. Content(h, s) \subseteq Results /\ Range(xs) \subseteq Results
  BY RangeFacts DEF Fits
<1>4. CASE s.len + Len(xs) <= Cap(h, s)
  <2>1. PICK q \in Seq(Results \cup {Nil}) :
          /\ a.heap = [h EXCEPT ![s.arr] = q]
          /\ Len(q) = Len(h[s.arr])
          /\ \A i \in 1..Len(q) :
               q[i] = IF i \in (s.lo + s.len + 1)..(s.lo + s.len + Len(xs))
                      THEN xs[i - (s.lo + s.len)] ELSE h[s.arr][i]
    <3>1. \E q \in Seq(Results \cup {Nil}) :
            /\ AppendTo(h, s, xs).heap = [h EXCEPT ![s.arr] = q]
            /\ Len(q) = Len(h[s.arr])
            /\ \A i \in 1..Len(q) :
                 q[i] = IF i \in (s.lo + s.len + 1)..(s.lo + s.len + Len(xs))
                        THEN xs[i - (s.lo + s.len)] ELSE h[s.arr][i]
      BY Zenon, <1>4, AppendInPlace
    <3> QED BY Zenon, <1>1, <3>1
  <2>2. /\ a.slice \in Slices /\ a.slice.arr = s.arr /\ a.slice.lo = s.lo
        /\ a.slice.len = s.len + Len(xs)
    <3>1. a.slice = [s EXCEPT !.len = s.len + Len(xs)]
      BY <1>1, <1>4, AppendInPlace
    <3> QED BY <1>2, <3>1 DEF Slices
  <2>3. a.heap \in Memory /\ a.heap[s.arr] = q
    BY <1>2, <2>1 DEF Memory
  <2>4. s.lo + (s.len + Len(xs)) <= Len(q)
    BY <1>2, <1>4, <2>1 DEF Cap
  <2>5. ASSUME NEW i \in 1..s.len PROVE q[s.lo + i] = h[s.arr][s.lo + i]
    <3>1. /\ s.lo + i \in 1..Len(q)
          /\ s.lo + i \notin (s.lo + s.len + 1)..(s.lo + s.len + Len(xs))
      BY <1>2, <2>1
    <3> QED BY <2>1, <3>1
  <2>6. ASSUME NEW i \in 1..Len(xs) PROVE q[s.lo + s.len + i] = xs[i]
    <3>1. /\ s.lo + s.len + i \in 1..Len(q)
          /\ s.lo + s.len + i \in (s.lo + s.len + 1)..(s.lo + s.len + Len(xs))
          /\ (s.lo + s.len + i) - (s.lo + s.len) = i
      BY <1>2, <2>4
    <3> QED BY <2>1, <3>1
  <2>7. Window(q, s.lo, s.len + Len(xs)) = Content(h, s) \cup Range(xs)
    <3>1. \A i \in 1..s.len : q[s.lo + i] = h[s.arr][s.lo + i]
      BY <2>5
    <3>2. \A i \in 1..Len(xs) : q[s.lo + s.len + i] = xs[i]
      BY <2>6
    <3>3. PICK lo \in Nat, l \in Nat : lo = s.lo /\ l = s.len
      BY <1>2
    <3>4. Joins(q, lo, h[s.arr], lo, l, xs)
      BY <3>1, <3>2, <3>3 DEF Joins
    <3>5. Window(q, lo, l + Len(xs)) = Window(h[s.arr], lo, l) \cup Range(xs)
      BY <3>4, WindowJoin
    <3> QED BY <3>3, <3>5 DEF Content
  <2>8. Content(a.heap, a.slice) = Content(h, s) \cup Range(xs)
    BY <2>2, <2>3, <2>7 DEF Content
  <2>9. Fits(a.heap, a.slice)
    BY <1>2, <1>3, <2>2, <2>3, <2>4, <2>8 DEF Fits
  <2>10. WrittenPast(h, a.heap, s)
    <3>1. ASSUME NEW i \in 1..Len(h[s.arr])
          PROVE  q[i] = h[s.arr][i] \/ (i > s.lo + s.len /\ q[i] \in Results)
      <4>1. CASE i \in (s.lo + s.len + 1)..(s.lo + s.len + Len(xs))
        <5>1. i - (s.lo + s.len) \in 1..Len(xs) /\ i > s.lo + s.len
          BY <1>2, <4>1
        <5>2. q[i] = xs[i - (s.lo + s.len)]
          BY <2>1, <4>1
        <5> QED BY <5>1, <5>2, ElementOfSeq
      <4> QED BY <2>1, <4>1
    <3> QED BY <1>2, <2>1, <3>1 DEF WrittenPast, Memory
  <2> QED BY <1>1, <2>2, <2>3, <2>8, <2>9, <2>10
<1>5. CASE ~(s.len + Len(xs) <= Cap(h, s))
  <2>1. PICK q \in Seq(Results \cup {Nil}) :
          /\ a.heap = [h EXCEPT ![Unused] = q]
          /\ s.len + Len(xs) <= Len(q)
          /\ \A i \in 1..s.len : q[i] = h[s.arr][s.lo + i]
          /\ \A i \in 1..Len(xs) : q[s.len + i] = xs[i]
    <3>1. \E q \in Seq(Results \cup {Nil}) :
            /\ AppendTo(h, s, xs).heap = [h EXCEPT ![Unused] = q]
            /\ s.len + Len(xs) <= Len(q)
            /\ \A i \in 1..s.len : q[i] = h[s.arr][s.lo + i]
            /\ \A i \in 1..Len(xs) : q[s.len + i] = xs[i]
      BY Zenon, <1>5, AppendGrows
    <3> QED BY Zenon, <1>1, <3>1
  <2>2. /\ a.slice \in Slices /\ a.slice.arr = Unused /\ a.slice.lo = 0
        /\ a.slice.len = s.len + Len(xs)
    <3>1. a.slice = [arr |-> Unused, lo |-> 0, len |-> s.len + Len(xs)]
      BY <1>1, <1>5, AppendGrows
    <3> QED BY <1>2, <3>1 DEF Slices
  <2>3. a.heap \in Memory /\ a.heap[Unused] = q
    BY <2>1 DEF Memory
  <2>4. Window(q, 0, s.len + Len(xs)) = Content(h, s) \cup Range(xs)
    <3>1. \A i \in 1..s.len : q[0 + i] = h[s.arr][s.lo + i]
      BY <1>2, <2>1
    <3>2. \A i \in 1..Len(xs) : q[0 + s.len + i] = xs[i]
      BY <1>2, <2>1
    <3>3. Joins(q, 0, h[s.arr], s.lo, s.len, xs)
      BY <3>1, <3>2 DEF Joins
    <3> QED BY <1>2, <3>3, WindowJoin DEF Content
  <2>5. Content(a.heap, a.slice) = Content(h, s) \cup Range(xs)
    BY Zenon, <2>2, <2>3, <2>4 DEF Content
  <2>6. Fits(a.heap, a.slice)
    <3>1. a.slice.lo + a.slice.len = s.len + Len(xs)
      BY <1>2, <2>2
    <3>2. a.slice.lo + a.slice.len <= Len(a.heap[a.slice.arr])
      BY <2>1, <2>2, <2>3, <3>1
    <3> QED BY <1>3, <2>2, <2>5, <3>2 DEF Fits
  <2>7. WrittenPast(h, a.heap, s)
    BY <2>1 DEF WrittenPast, Memory
  <2> QED BY <1>1, <2>2, <2>3, <2>5, <2>6, <2>7
<1> QED BY <1>4, <1>5

(* Another slice survives the append, with its content if it ends where s  *)
(* ends or before, or is in another array.                                 *)
LEMMA SliceSurvives ==
  ASSUME NEW h \in Memory, NEW k \in Memory, NEW s \in Slices, NEW t \in Slices,
         WrittenPast(h, k, s), Fits(h, t), t.arr # Unused
  PROVE  /\ Fits(k, t)
         /\ t.arr # s.arr \/ t.lo + t.len <= s.lo + s.len => Content(k, t) = Content(h, t)
<1>1. /\ t.arr \in Arrays \ {Unused} /\ t.lo \in Nat /\ t.len \in Nat
      /\ s.lo \in Nat /\ s.len \in Nat
      /\ Len(h[t.arr]) \in Nat /\ t.lo + t.len <= Len(h[t.arr])
  BY LenProperties DEF Slices, Fits, Memory
<1>2. Len(k[t.arr]) = Len(h[t.arr])
  BY <1>1 DEF WrittenPast
<1>3. \A i \in (t.lo + 1)..(t.lo + t.len) : i \in 1..Len(h[t.arr])
  BY <1>1
<1>4. \A i \in (t.lo + 1)..(t.lo + t.len) :
        \/ k[t.arr][i] = h[t.arr][i]
        \/ t.arr = s.arr /\ i > s.lo + s.len /\ k[t.arr][i] \in Results
  BY <1>1, <1>3 DEF WrittenPast
<1>5. Content(k, t) \subseteq Results
  BY <1>4 DEF Fits, Content, Window
<1>6. Fits(k, t)
  BY <1>1, <1>2, <1>5 DEF Fits
<1>7. ASSUME t.arr # s.arr \/ t.lo + t.len <= s.lo + s.len
      PROVE  Content(k, t) = Content(h, t)
  <2>1. \A i \in (t.lo + 1)..(t.lo + t.len) : k[t.arr][i] = h[t.arr][i]
    BY <1>1, <1>4, <1>7
  <2> QED BY <2>1 DEF Content, Window
<1> QED BY <1>6, <1>7

(* The garbage collector takes nothing from the slices it is told of.      *)
LEMMA LiveKeeps ==
  ASSUME NEW h \in Memory, NEW ss
  PROVE  /\ Live(h, ss) \in Memory
         /\ \A t \in ss : t.arr \in Arrays => Live(h, ss)[t.arr] = h[t.arr]
  BY EmptySeq DEF Live, Memory

(* A slice depends on its own array only.                                  *)
LEMMA SameArray ==
  ASSUME NEW h, NEW k, NEW t, h[t.arr] = k[t.arr]
  PROVE  (Fits(h, t) <=> Fits(k, t)) /\ Content(h, t) = Content(k, t)
  BY DEF Fits, Content

(* An append of xs to s returns n and leaves the heap k, when the          *)
(* goroutines in G go on with their batches.                               *)
AppendYields(s, xs, G, n, k) ==
  /\ n = AppendTo(heap, s, xs).slice
  /\ k = Live(AppendTo(heap, s, xs).heap, {n} \cup {batch[g] : g \in G})

(* The batches of G still fit in k, and hold what they held if they end    *)
(* where s ends or before, or are in another array.                        *)
Survive(s, G, k) ==
  \A g \in G : Fits(heap, batch[g]) /\ batch[g].arr # Unused =>
    /\ Fits(k, batch[g])
    /\ batch[g].arr # s.arr \/ batch[g].lo + batch[g].len <= s.lo + s.len
         => Content(k, batch[g]) = Content(heap, batch[g])

(* The append and the garbage collection after it, as G sees them.         *)
LEMMA AfterAppend ==
  ASSUME heap \in Memory, batch \in [Procs -> Slices], NEW G \in SUBSET Procs,
         NEW s \in Slices, Fits(heap, s), NEW xs \in Seq(Results),
         Unused \in Arrays, Unused # s.arr,
         NEW n, NEW k, AppendYields(s, xs, G, n, k)
  PROVE  /\ k \in Memory /\ n \in Slices /\ Fits(k, n)
         /\ Content(k, n) = Content(heap, s) \cup Range(xs)
         /\ (n.arr = s.arr /\ n.lo = s.lo) \/ n.arr = Unused
         /\ Survive(s, G, k)
<1> USE DEF AppendYields
<1>1. PICK m \in Memory :
        /\ m = AppendTo(heap, s, xs).heap
        /\ n \in Slices /\ Fits(m, n)
        /\ Content(m, n) = Content(heap, s) \cup Range(xs)
        /\ (n.arr = s.arr /\ n.lo = s.lo) \/ n.arr = Unused
        /\ WrittenPast(heap, m, s)
  <2>1. PICK m : m = AppendTo(heap, s, xs).heap
    OBVIOUS
  <2>2. /\ m \in Memory /\ n \in Slices /\ Fits(m, n)
        /\ Content(m, n) = Content(heap, s) \cup Range(xs)
        /\ (n.arr = s.arr /\ n.lo = s.lo) \/ n.arr = Unused
        /\ WrittenPast(heap, m, s)
    BY Zenon, <2>1, Appended
  <2> QED BY Zenon, <2>1, <2>2
<1>2. PICK ss : ss = {n} \cup {batch[g] : g \in G}
  OBVIOUS
<1>3. k = Live(m, ss)
  BY <1>1, <1>2
<1>4. k \in Memory /\ \A t \in ss : t.arr \in Arrays => k[t.arr] = m[t.arr]
  <2>1. /\ Live(m, ss) \in Memory
        /\ \A t \in ss : t.arr \in Arrays => Live(m, ss)[t.arr] = m[t.arr]
    BY LiveKeeps
  <2> QED BY <1>3, <2>1
<1>5. \A t \in ss : t.arr \in Arrays =>
        (Fits(m, t) <=> Fits(k, t)) /\ Content(m, t) = Content(k, t)
  BY <1>4, SameArray
<1>6. n \in ss /\ n.arr \in Arrays
  BY <1>1, <1>2 DEF Fits
<1>7. ASSUME NEW g \in G, Fits(heap, batch[g]), batch[g].arr # Unused
      PROVE  /\ Fits(k, batch[g])
             /\ batch[g].arr # s.arr \/ batch[g].lo + batch[g].len <= s.lo + s.len
                  => Content(k, batch[g]) = Content(heap, batch[g])
  <2>1. PICK t \in ss : t = batch[g] /\ t \in Slices
    BY <1>2
  <2>2. t.arr \in Arrays
    BY <1>7, <2>1 DEF Fits
  <2>3. /\ Fits(m, t)
        /\ t.arr # s.arr \/ t.lo + t.len <= s.lo + s.len
             => Content(m, t) = Content(heap, t)
    BY <1>1, <1>7, <2>1, SliceSurvives
  <2> QED BY <1>5, <2>1, <2>2, <2>3
<1> QED BY <1>1, <1>4, <1>5, <1>6, <1>7 DEF Survive

-----------------------------------------------------------------------------
(* The invariant of the results.  An upload has a slice exactly as long as *)
(* it is under way.  As long as no batch was put back into an array that   *)
(* another upload was reading, an upload holds a part of the queue's array *)
(* only in front of the queue, so that append does not write there, and    *)
(* what the analyzer confirms is what the batch still holds.               *)
SliceTypes ==
  /\ heap \in Memory
  /\ probeResults \in Slices /\ Fits(heap, probeResults)
  /\ batch \in [Procs -> Slices]
  /\ \A g \in Procs : pc[g] \in Carrying => Fits(heap, batch[g])
  /\ \A g \in Procs : pc[g] \notin Carrying => batch[g] = NoSlice
  /\ sent \in [Procs -> SUBSET Results]
  /\ added \in 0..MaxResults

Apart ==
  \A g \in Procs :
    batch[g].arr = probeResults.arr =>
      batch[g].lo + batch[g].len <= probeResults.lo

SentExact ==
  \A g \in Procs : pc[g] = "rpc" => sent[g] = Content(heap, batch[g])

Accounted ==
  \A r \in 1..added :
    \/ r \in Content(heap, probeResults)
    \/ \E g \in Procs : r \in Content(heap, batch[g])
    \/ r \in acked \cup dropped

SliceInv == SliceTypes /\ (~shared => Apart /\ SentExact /\ Accounted)

(* No slice holds nothing.                                                 *)
LEMMA NoContent == \A h : Content(h, NoSlice) = {}
<1>1. NoSlice.lo = 0 /\ NoSlice.len = 0 /\ (0 + 1)..(0 + 0) = {}
  BY DEF NoSlice
<1> QED BY <1>1 DEF Content, Window

(* What a batch holds, as a sequence and as a window.                      *)
LEMMA BatchElems ==
  ASSUME SliceTypes, NEW g \in Procs
  PROVE  /\ Range(Elems(heap, batch[g])) = Content(heap, batch[g])
         /\ Content(heap, batch[g]) \subseteq Results
<1>1. CASE pc[g] \in Carrying
  BY <1>1, SliceElems DEF SliceTypes, Fits
<1>2. CASE pc[g] \notin Carrying
  BY <1>2, NoElems, NoContent DEF SliceTypes
<1> QED BY <1>1, <1>2

LEMMA SliceImplies == SliceInv => ResultsConserved
<1> SUFFICES ASSUME SliceInv, ~shared, NEW r \in 1..added
             PROVE  \/ r \in Range(Elems(heap, probeResults))
                    \/ \E g \in Procs : r \in Range(Elems(heap, batch[g]))
                    \/ r \in acked \cup dropped
  BY DEF ResultsConserved
<1>1. Range(Elems(heap, probeResults)) = Content(heap, probeResults)
  BY SliceElems DEF SliceInv, SliceTypes
<1>2. \A g \in Procs : Range(Elems(heap, batch[g])) = Content(heap, batch[g])
  BY BatchElems DEF SliceInv
<1> QED BY <1>1, <1>2 DEF SliceInv, Accounted

(* A new array holds no results.                                           *)
LEMMA NewArray ==
  /\ Nils(MaxQueueSize) \in Seq(Results \cup {Nil})
  /\ Len(Nils(MaxQueueSize)) = MaxQueueSize
<1>1. Nils(MaxQueueSize) \in [1..MaxQueueSize -> Results \cup {Nil}]
  BY DEF Nils
<1>2. MaxQueueSize \in Nat
  BY UploaderAssumption
<1> QED BY <1>1, <1>2, FunSeq

(* A slice of no elements at the front of an array fits.                   *)
LEMMA EmptyFits ==
  ASSUME NEW h \in Memory, NEW a \in Arrays
  PROVE  /\ [arr |-> a, lo |-> 0, len |-> 0] \in Slices
         /\ Fits(h, [arr |-> a, lo |-> 0, len |-> 0])
         /\ Content(h, [arr |-> a, lo |-> 0, len |-> 0]) = {}
<1>1. Len(h[a]) \in Nat
  BY LenProperties DEF Memory
<1>2. (0 + 1)..(0 + 0) = {}
  OBVIOUS
<1>3. Content(h, [arr |-> a, lo |-> 0, len |-> 0]) = {}
  BY <1>2 DEF Content, Window
<1> QED BY <1>1, <1>3 DEF Fits, Slices

(* The queue is empty at the start.                                        *)
LEMMA InitSlices == Init => SliceInv
<1> SUFFICES ASSUME Init PROVE SliceInv
  OBVIOUS
<1>1. 1 \in Arrays /\ 0 \notin Arrays
  <2>1. IsFiniteSet(Procs)
    BY UploaderAssumption, FS_AddElement DEF Procs
  <2>2. Cardinality(Procs) \in Nat
    BY <2>1, FS_CardinalityType
  <2> QED BY <2>2 DEF Arrays
<1>2. heap \in Memory
  BY NewArray, EmptySeq DEF Init, Memory
<1>3. /\ probeResults \in Slices /\ Fits(heap, probeResults)
      /\ probeResults.arr = 1
  BY <1>1, <1>2, EmptyFits DEF Init
<1>4. NoSlice \in Slices /\ NoSlice.arr = 0
  BY DEF NoSlice, Slices
<1>5. \A g \in Procs : pc[g] \notin Carrying /\ pc[g] # "rpc" /\ batch[g] = NoSlice
  BY DEF Init, Carrying
<1>6. SliceTypes
  BY <1>2, <1>3, <1>4, <1>5, UploaderAssumption DEF Init, SliceTypes
<1>7. Apart /\ SentExact
  BY <1>3, <1>4, <1>5 DEF Apart, SentExact
<1>8. Accounted
  BY DEF Init, Accounted
<1> QED BY <1>6, <1>7, <1>8 DEF SliceInv

(* A step that leaves the slices and their arrays alone.                   *)
LEMMA SliceQuiet ==
  ASSUME SliceInv, UNCHANGED <<heap, probeResults, batch, added, acked, dropped, shared>>,
         \A g \in Procs : pc'[g] \in Carrying <=> pc[g] \in Carrying,
         sent' \in [Procs -> SUBSET Results],
         \A g \in Procs : pc'[g] = "rpc" =>
           sent'[g] = Content(heap, batch[g]) \/ (pc[g] = "rpc" /\ sent'[g] = sent[g])
  PROVE  SliceInv'
<1>1. SliceTypes'
  BY DEF SliceInv, SliceTypes
<1>2. Apart => Apart'
  BY DEF Apart
<1>3. SentExact => SentExact'
  BY DEF SentExact
<1>4. Accounted => Accounted'
  BY DEF Accounted
<1> QED BY Zenon, <1>1, <1>2, <1>3, <1>4 DEF SliceInv

(* A result is added to the queue, in place or in a larger array.          *)
LEMMA AddResultKeeps == SliceInv /\ Idle /\ AddProbeResult => SliceInv'
<1> SUFFICES ASSUME SliceInv, Idle, AddProbeResult PROVE SliceInv'
  OBVIOUS
<1>0. /\ heap \in Memory /\ batch \in [Procs -> Slices]
      /\ probeResults \in Slices /\ Fits(heap, probeResults)
      /\ added \in Nat /\ added + 1 \in Results /\ added + 1 \in 0..MaxResults
  BY UploaderAssumption DEF SliceInv, SliceTypes, AddProbeResult, Results
<1>1. /\ Unused \in Arrays /\ Unused # probeResults.arr
      /\ \A g \in Procs : Unused # batch[g].arr
  BY <1>0, UnusedFresh
<1>2. PICK xs \in Seq(Results) : xs = <<added + 1>> /\ Range(xs) = {added + 1}
  <2>1. <<added + 1>> \in Seq(Results) /\ Len(<<added + 1>>) = 1
    BY <1>0
  <2>2. Range(<<added + 1>>) = {<<added + 1>>[i] : i \in 1..1}
    BY <2>1, RangeFacts
  <2>3. 1..1 = {1} /\ <<added + 1>>[1] = added + 1
    OBVIOUS
  <2>4. Range(<<added + 1>>) = {added + 1}
    BY <2>2, <2>3
  <2> QED BY <2>1, <2>4
<1>3. /\ probeResults' = AppendTo(heap, probeResults, xs).slice
      /\ heap' = Live(AppendTo(heap, probeResults, xs).heap,
                      {probeResults'} \cup {batch[g] : g \in Procs})
      /\ added' = added + 1
      /\ UNCHANGED <<batch, sent, acked, dropped, shared>>
  BY <1>2 DEF AddProbeResult, batchVars
<1>4. /\ heap' \in Memory /\ probeResults' \in Slices /\ Fits(heap', probeResults')
      /\ Content(heap', probeResults') = Content(heap, probeResults) \cup {added + 1}
      /\ \/ probeResults'.arr = probeResults.arr /\ probeResults'.lo = probeResults.lo
         \/ probeResults'.arr = Unused
      /\ \A g \in Procs : Fits(heap, batch[g]) /\ batch[g].arr # Unused =>
           /\ Fits(heap', batch[g])
           /\ \/ batch[g].arr # probeResults.arr
              \/ batch[g].lo + batch[g].len <= probeResults.lo + probeResults.len
              => Content(heap', batch[g]) = Content(heap, batch[g])
  <2>1. PICK n, k : n = probeResults' /\ k = heap'
    OBVIOUS
  <2>2. AppendYields(probeResults, xs, Procs, n, k) /\ Procs \in SUBSET Procs
    BY <1>3, <2>1 DEF AppendYields
  <2>3. /\ k \in Memory /\ n \in Slices /\ Fits(k, n)
        /\ Content(k, n) = Content(heap, probeResults) \cup Range(xs)
        /\ (n.arr = probeResults.arr /\ n.lo = probeResults.lo) \/ n.arr = Unused
        /\ Survive(probeResults, Procs, k)
    BY <1>0, <1>1, <2>2, AfterAppend
  <2> QED BY <1>2, <2>1, <2>3 DEF Survive
<1>5. \A g \in Procs : /\ pc'[g] \in Carrying <=> pc[g] \in Carrying
                       /\ pc'[g] = "rpc" => pc[g] = "rpc"
  BY DEF AddProbeResult, Idle, Carrying, Procs
<1>6. \A g \in Procs : pc[g] \in Carrying => Fits(heap', batch[g])
  BY <1>1, <1>4 DEF SliceInv, SliceTypes
<1>7. SliceTypes'
  BY <1>0, <1>3, <1>4, <1>5, <1>6 DEF SliceInv, SliceTypes
<1>8. ASSUME Apart PROVE \A g \in Procs : Content(heap', batch[g]) = Content(heap, batch[g])
  <2> SUFFICES ASSUME NEW g \in Procs PROVE Content(heap', batch[g]) = Content(heap, batch[g])
    OBVIOUS
  <2>1. CASE pc[g] \in Carrying
    <3>1. Fits(heap, batch[g]) /\ batch[g].arr # Unused
      BY <1>1, <2>1 DEF SliceInv, SliceTypes
    <3>2. /\ probeResults.lo \in Nat /\ probeResults.len \in Nat
          /\ batch[g].lo \in Nat /\ batch[g].len \in Nat
      BY <1>0 DEF Slices
    <3>3. \/ batch[g].arr # probeResults.arr
          \/ batch[g].lo + batch[g].len <= probeResults.lo + probeResults.len
      BY <1>8, <3>2 DEF Apart
    <3> QED BY <1>4, <3>1, <3>3
  <2>2. CASE pc[g] \notin Carrying
    BY <2>2, NoContent DEF SliceInv, SliceTypes
  <2> QED BY <2>1, <2>2
<1>9. Apart => Apart'
  BY <1>1, <1>3, <1>4 DEF Apart
<1>10. Apart /\ SentExact => SentExact'
  BY <1>3, <1>5, <1>8 DEF SentExact
<1>11. Apart /\ Accounted => Accounted'
  <2>1. 1..added' = (1..added) \cup {added + 1}
    BY <1>0, <1>3
  <2> QED BY <1>3, <1>4, <1>8, <2>1 DEF Accounted
<1>12. UNCHANGED shared
  BY <1>3
<1> QED BY Zenon, <1>7, <1>9, <1>10, <1>11, <1>12 DEF SliceInv

(* A window cut in two.                                                    *)
LEMMA WindowCut ==
  ASSUME NEW q, NEW lo \in Nat, NEW b \in Nat, NEW r \in Nat
  PROVE  Window(q, lo, b + r) = Window(q, lo, b) \cup Window(q, lo + b, r)
<1>1. (lo + 1)..(lo + (b + r)) = ((lo + 1)..(lo + b)) \cup ((lo + b + 1)..(lo + b + r))
  OBVIOUS
<1> QED BY <1>1 DEF Window

(* The slice s cut in two behind its first b elements.                     *)
CutAt(s, b, s1, s2) ==
  /\ s1 = [s EXCEPT !.len = b]
  /\ s2 = [s EXCEPT !.lo = @ + b, !.len = @ - b]

(* The parts fit as well as the whole and share its content.               *)
LEMMA SliceCut ==
  ASSUME NEW h \in Memory, NEW s \in Slices, Fits(h, s), NEW b \in Nat, b <= s.len,
         NEW s1, NEW s2, CutAt(s, b, s1, s2)
  PROVE  /\ s1 \in Slices /\ Fits(h, s1) /\ s2 \in Slices /\ Fits(h, s2)
         /\ Content(h, s) = Content(h, s1) \cup Content(h, s2)
<1>1. PICK a \in Arrays, lo \in Nat, r \in Nat :
        a = s.arr /\ lo = s.lo /\ r = s.len - b /\ s.len = b + r
  BY DEF Slices, Fits
<1>2. Len(h[a]) \in Nat /\ lo + (b + r) <= Len(h[a])
  BY <1>1, LenProperties DEF Memory, Fits
<1>5. s1 \in Slices /\ s1.arr = a /\ s1.lo = lo /\ s1.len = b
  BY <1>1 DEF Slices, CutAt
<1>6. s2 \in Slices /\ s2.arr = a /\ s2.lo = lo + b /\ s2.len = r
  <2>1. s2 = [arr |-> s.arr, lo |-> s.lo + b, len |-> s.len - b]
    BY DEF Slices, CutAt
  <2>2. s2 = [arr |-> a, lo |-> lo + b, len |-> r]
    BY <1>1, <2>1
  <2> QED BY <2>2 DEF Slices
<1>7. Window(h[a], lo, b + r) = Window(h[a], lo, b) \cup Window(h[a], lo + b, r)
  BY WindowCut
<1>8. Content(h, s) = Content(h, s1) \cup Content(h, s2)
  BY Zenon, <1>1, <1>5, <1>6, <1>7 DEF Content
<1>9. Content(h, s1) \subseteq Results /\ Content(h, s2) \subseteq Results
  BY <1>8 DEF Fits
<1>10. s1.lo + s1.len <= Len(h[a]) /\ s2.lo + s2.len <= Len(h[a])
  BY <1>2, <1>5, <1>6
<1> QED BY <1>5, <1>6, <1>8, <1>9, <1>10 DEF Fits

(* An upload takes the front of the queue, or all of it and leaves a new   *)
(* array to the queue.                                                     *)
LEMMA TakeResultsKeeps ==
  ASSUME SliceInv, Idle, NEW g \in Procs, TakeBatch(g)
  PROVE  SliceInv'
<1>0. /\ heap \in Memory /\ batch \in [Procs -> Slices]
      /\ probeResults \in Slices /\ Fits(heap, probeResults)
      /\ probeResults.arr \in Arrays /\ probeResults.lo \in Nat
      /\ probeResults.len \in Nat /\ BatchSize \in Nat
  BY UploaderAssumption DEF SliceInv, SliceTypes, Fits, Slices
<1>1. /\ Unused \in Arrays /\ Unused # probeResults.arr
      /\ \A h \in Procs : Unused # batch[h].arr
  BY <1>0, UnusedFresh
<1>2. /\ pc[g] = "ready" /\ pc' = [pc EXCEPT ![g] = "check"]
      /\ batch' = [batch EXCEPT ![g] = Batch]
      /\ probeResults' = RestOfQueue
      /\ heap' = IF RestOfQueue.arr = probeResults.arr THEN heap
                 ELSE [heap EXCEPT ![RestOfQueue.arr] = Nils(MaxQueueSize)]
      /\ UNCHANGED <<sent, added, acked, dropped, shared>>
  BY DEF TakeBatch, histVars
<1>3. /\ \A h \in Procs : h # g => pc'[h] = pc[h] /\ batch'[h] = batch[h]
      /\ pc'[g] = "check" /\ batch'[g] = Batch
      /\ "check" \in Carrying /\ "check" # "rpc" /\ "ready" \notin Carrying
  BY <1>0, <1>2 DEF Idle, Carrying
<1>4. batch[g] = NoSlice
  BY <1>2, <1>3 DEF SliceInv, SliceTypes
<1>5. /\ heap' \in Memory
      /\ \A a \in Arrays : a # Unused => heap'[a] = heap[a]
      /\ Batch \in Slices /\ Fits(heap, Batch) /\ Batch.arr = probeResults.arr
      /\ RestOfQueue \in Slices /\ Fits(heap', RestOfQueue)
      /\ Content(heap, probeResults) = Content(heap, Batch) \cup Content(heap', RestOfQueue)
      /\ \/ /\ RestOfQueue.arr = probeResults.arr
            /\ RestOfQueue.lo = Batch.lo + Batch.len
            /\ probeResults.lo <= RestOfQueue.lo
         \/ RestOfQueue.arr = Unused
  <2>1. CASE probeResults.len > BatchSize
    <3>1. CutAt(probeResults, BatchSize, Batch, RestOfQueue)
      BY <2>1 DEF Batch, RestOfQueue, CutAt
    <3>2. BatchSize <= probeResults.len
      BY <1>0, <2>1
    <3>3. /\ Batch \in Slices /\ Fits(heap, Batch)
          /\ RestOfQueue \in Slices /\ Fits(heap, RestOfQueue)
          /\ Content(heap, probeResults) = Content(heap, Batch) \cup Content(heap, RestOfQueue)
      BY <1>0, <3>1, <3>2, SliceCut
    <3>4. /\ Batch.arr = probeResults.arr /\ RestOfQueue.arr = probeResults.arr
          /\ Batch.lo = probeResults.lo /\ Batch.len = BatchSize
          /\ RestOfQueue.lo = probeResults.lo + BatchSize
      BY <1>0, <3>1 DEF Slices, CutAt
    <3>5. heap' = heap
      BY <1>2, <3>4
    <3>6. probeResults.lo <= probeResults.lo + BatchSize
      BY <1>0
    <3> QED BY <1>0, <3>3, <3>4, <3>5, <3>6
  <2>2. CASE ~(probeResults.len > BatchSize)
    <3>1. Batch = probeResults /\ RestOfQueue = [arr |-> Unused, lo |-> 0, len |-> 0]
      BY <2>2 DEF Batch, RestOfQueue
    <3>2. heap' = [heap EXCEPT ![Unused] = Nils(MaxQueueSize)]
      BY <1>1, <1>2, <3>1
    <3>3. heap' \in Memory
      BY <1>0, <1>1, <3>2, NewArray DEF Memory
    <3>4. /\ RestOfQueue \in Slices /\ Fits(heap', RestOfQueue)
          /\ Content(heap', RestOfQueue) = {}
      BY <1>1, <3>1, <3>3, EmptyFits
    <3>5. \A a \in Arrays : a # Unused => heap'[a] = heap[a]
      BY <1>0, <3>2 DEF Memory
    <3> QED BY <1>0, <3>1, <3>3, <3>4, <3>5
  <2> QED BY <2>1, <2>2
<1>6. Fits(heap', Batch) /\ Content(heap', Batch) = Content(heap, Batch)
  BY <1>0, <1>1, <1>5, SameArray
<1>7. \A h \in Procs : h # g => Content(heap', batch[h]) = Content(heap, batch[h])
  <2> SUFFICES ASSUME NEW h \in Procs PROVE Content(heap', batch[h]) = Content(heap, batch[h])
    OBVIOUS
  <2>1. CASE pc[h] \in Carrying
    <3>1. batch[h].arr \in Arrays
      BY <2>1 DEF SliceInv, SliceTypes, Fits
    <3> QED BY <1>1, <1>5, <3>1, SameArray
  <2>2. CASE pc[h] \notin Carrying
    BY <2>2, NoContent DEF SliceInv, SliceTypes
  <2> QED BY <2>1, <2>2
<1>8. \A h \in Procs : pc[h] \in Carrying => Fits(heap', batch[h])
  <2> SUFFICES ASSUME NEW h \in Procs, pc[h] \in Carrying PROVE Fits(heap', batch[h])
    OBVIOUS
  <2>1. Fits(heap, batch[h]) /\ batch[h].arr \in Arrays
    BY DEF SliceInv, SliceTypes, Fits
  <2> QED BY <1>1, <1>5, <2>1, SameArray
<1>9. SliceTypes'
  <2>1. batch' \in [Procs -> Slices]
    BY <1>0, <1>2, <1>5
  <2>2. \A h \in Procs : pc'[h] \in Carrying => Fits(heap', batch'[h])
    BY <1>3, <1>6, <1>8
  <2>3. \A h \in Procs : pc'[h] \notin Carrying => batch'[h] = NoSlice
    BY <1>3 DEF SliceInv, SliceTypes
  <2> QED BY <1>2, <1>5, <2>1, <2>2, <2>3 DEF SliceInv, SliceTypes
<1>10. ASSUME Apart PROVE Apart'
  <2> SUFFICES ASSUME NEW h \in Procs, batch'[h].arr = RestOfQueue.arr
               PROVE  batch'[h].lo + batch'[h].len <= RestOfQueue.lo
    BY <1>2 DEF Apart
  <2>1. CASE h = g
    <3>1. RestOfQueue.lo \in Nat
      BY <1>5 DEF Slices
    <3> QED BY <1>1, <1>3, <1>5, <2>1, <3>1
  <2>2. CASE h # g
    <3>1. batch[h].arr = RestOfQueue.arr /\ batch'[h] = batch[h]
      BY <1>3, <2>2
    <3>2. RestOfQueue.arr = probeResults.arr /\ probeResults.lo <= RestOfQueue.lo
      BY <1>1, <1>5, <3>1
    <3>3. batch[h].lo + batch[h].len <= probeResults.lo
      BY <1>10, <3>1, <3>2 DEF Apart
    <3>4. batch[h].lo + batch[h].len \in Nat /\ RestOfQueue.lo \in Nat
      BY <1>0, <1>5 DEF Slices
    <3> QED BY <1>0, <3>1, <3>2, <3>3, <3>4
  <2> QED BY <2>1, <2>2
<1>11. SentExact => SentExact'
  BY <1>2, <1>3, <1>7 DEF SentExact
<1>12. Accounted => Accounted'
  <2> SUFFICES ASSUME Accounted, NEW r \in 1..added
               PROVE  \/ r \in Content(heap', probeResults')
                      \/ \E h \in Procs : r \in Content(heap', batch'[h])
                      \/ r \in acked \cup dropped
    BY <1>2 DEF Accounted
  <2>1. CASE r \in Content(heap, probeResults)
    BY <1>2, <1>3, <1>5, <1>6, <2>1
  <2>2. ASSUME NEW h \in Procs, r \in Content(heap, batch[h])
        PROVE  \E j \in Procs : r \in Content(heap', batch'[j])
    BY <1>3, <1>4, <1>7, <2>2, NoContent
  <2> QED BY <2>1, <2>2 DEF Accounted
<1>13. UNCHANGED shared
  BY <1>2
<1> QED BY Zenon, <1>9, <1>10, <1>11, <1>12, <1>13 DEF SliceInv

(* The batch of an upload that is over is let go: its goroutine holds      *)
(* nothing, and the others what they held.                                 *)
LEMMA UploadedResultsKeeps ==
  ASSUME SliceInv, Idle, NEW g \in Procs, Uploaded(g)
  PROVE  SliceInv'
<1>0. /\ heap \in Memory /\ batch \in [Procs -> Slices]
      /\ probeResults \in Slices /\ Fits(heap, probeResults)
      /\ probeResults.arr \in Arrays
  BY DEF SliceInv, SliceTypes, Fits
<1>1. /\ pc[g] = "rpc" /\ pc' = [pc EXCEPT ![g] = Returned(g)]
      /\ batch' = [batch EXCEPT ![g] = NoSlice]
      /\ sent' = [sent EXCEPT ![g] = {}]
      /\ acked' = acked \cup sent[g]
      /\ heap' = Live(heap, {probeResults} \cup {batch[h] : h \in Procs \ {g}})
      /\ UNCHANGED <<probeResults, added, dropped, shared>>
  BY DEF Uploaded, Release
<1>2. Returned(g) \notin Carrying /\ Returned(g) # "rpc"
  BY Returns DEF Carrying
<1>3. /\ \A h \in Procs : h # g => /\ pc'[h] = pc[h] /\ batch'[h] = batch[h]
                                   /\ sent'[h] = sent[h]
      /\ pc'[g] = Returned(g) /\ batch'[g] = NoSlice
  BY <1>0, <1>1 DEF Idle, SliceInv, SliceTypes
<1>4. PICK ss : ss = {probeResults} \cup {batch[h] : h \in Procs \ {g}}
  OBVIOUS
<1>5. heap' \in Memory /\ \A t \in ss : t.arr \in Arrays => heap'[t.arr] = heap[t.arr]
  <2>1. /\ Live(heap, ss) \in Memory
        /\ \A t \in ss : t.arr \in Arrays => Live(heap, ss)[t.arr] = heap[t.arr]
    BY <1>0, LiveKeeps
  <2> QED BY <1>1, <1>4, <2>1
<1>6. Fits(heap', probeResults) /\ Content(heap', probeResults) = Content(heap, probeResults)
  BY <1>0, <1>4, <1>5, SameArray
<1>7. \A h \in Procs : h # g =>
        /\ pc[h] \in Carrying => Fits(heap', batch[h])
        /\ Content(heap', batch[h]) = Content(heap, batch[h])
  <2> SUFFICES ASSUME NEW h \in Procs, h # g
               PROVE  /\ pc[h] \in Carrying => Fits(heap', batch[h])
                      /\ Content(heap', batch[h]) = Content(heap, batch[h])
    OBVIOUS
  <2>1. CASE pc[h] \in Carrying
    <3>1. Fits(heap, batch[h]) /\ batch[h].arr \in Arrays
      BY <2>1 DEF SliceInv, SliceTypes, Fits
    <3>2. batch[h] \in ss
      BY <1>4
    <3> QED BY <1>5, <3>1, <3>2, SameArray
  <2>2. CASE pc[h] \notin Carrying
    BY <2>2, NoContent DEF SliceInv, SliceTypes
  <2> QED BY <2>1, <2>2
<1>8. NoSlice \in Slices /\ NoSlice.arr # probeResults.arr
  BY <1>0 DEF NoSlice, Slices, Arrays
<1>9. SliceTypes'
  <2>1. batch' \in [Procs -> Slices] /\ sent' \in [Procs -> SUBSET Results]
    BY <1>0, <1>1, <1>8 DEF SliceInv, SliceTypes
  <2>2. \A h \in Procs : pc'[h] \in Carrying => Fits(heap', batch'[h])
    BY <1>2, <1>3, <1>7
  <2>3. \A h \in Procs : pc'[h] \notin Carrying => batch'[h] = NoSlice
    BY <1>3 DEF SliceInv, SliceTypes
  <2> QED BY <1>1, <1>5, <1>6, <2>1, <2>2, <2>3 DEF SliceInv, SliceTypes
<1>10. Apart => Apart'
  BY <1>1, <1>3, <1>8 DEF Apart
<1>11. SentExact => SentExact'
  BY <1>2, <1>3, <1>7 DEF SentExact
<1>12. ASSUME SentExact, Accounted PROVE Accounted'
  <2> SUFFICES ASSUME NEW r \in 1..added
               PROVE  \/ r \in Content(heap', probeResults)
                      \/ \E h \in Procs : r \in Content(heap', batch'[h])
                      \/ r \in acked' \cup dropped
    BY <1>1 DEF Accounted
  <2>1. ASSUME NEW h \in Procs, r \in Content(heap, batch[h])
        PROVE  (\E j \in Procs : r \in Content(heap', batch'[j])) \/ r \in acked'
    <3>1. CASE h = g
      BY <1>1, <1>12, <2>1, <3>1 DEF SentExact
    <3>2. CASE h # g
      BY <1>3, <1>7, <2>1, <3>2
    <3> QED BY <3>1, <3>2
  <2> QED BY <1>1, <1>6, <1>12, <2>1 DEF Accounted
<1>13. UNCHANGED shared
  BY <1>1
<1> QED BY Zenon, <1>9, <1>10, <1>11, <1>12, <1>13 DEF SliceInv

(* What is left of the queue for a batch of n results is a part of it.     *)
LEMMA KeptFits ==
  ASSUME heap \in Memory, probeResults \in Slices, Fits(heap, probeResults),
         NEW n \in Nat
  PROVE  /\ KeptQueue(n) \in Slices /\ Fits(heap, KeptQueue(n))
         /\ n + probeResults.len <= MaxQueueSize => KeptQueue(n) = probeResults
<1>1. PICK lo \in Nat, l \in Nat, keep \in Int :
        lo = probeResults.lo /\ l = probeResults.len /\ keep = MaxQueueSize - n
  BY UploaderAssumption DEF Slices
<1>2. CASE n + l <= MaxQueueSize
  <2>1. n + probeResults.len <= MaxQueueSize /\ ~(n + probeResults.len > MaxQueueSize)
    BY <1>1, <1>2, UploaderAssumption
  <2>2. KeptQueue(n) = probeResults
    BY Zenon, <2>1 DEF KeptQueue
  <2> QED BY <2>2
<1>3. CASE ~(n + l <= MaxQueueSize) /\ keep > 0
  <2>1. n + l > MaxQueueSize /\ l - keep \in Nat /\ l - keep <= l
    BY <1>1, <1>3, UploaderAssumption
  <2>2. KeptQueue(n) = [probeResults EXCEPT !.lo = @ + l - keep, !.len = keep]
    BY <1>1, <1>3, <2>1 DEF KeptQueue
  <2>3. (lo + l) - keep = lo + (l - keep) /\ l - (l - keep) = keep
    BY <1>1
  <2>4. KeptQueue(n) = [probeResults EXCEPT !.lo = @ + (l - keep), !.len = @ - (l - keep)]
    BY <1>1, <2>2, <2>3 DEF Slices
  <2>5. CutAt(probeResults, l - keep,
              [probeResults EXCEPT !.len = l - keep], KeptQueue(n))
    BY <2>4 DEF CutAt
  <2> QED BY <1>1, <1>3, <2>1, <2>5, SliceCut
<1>4. CASE ~(n + l <= MaxQueueSize) /\ ~(keep > 0)
  <2>1. KeptQueue(n) = [probeResults EXCEPT !.len = 0]
    BY <1>1, <1>4 DEF KeptQueue
  <2>2. CutAt(probeResults, 0, KeptQueue(n),
              [probeResults EXCEPT !.lo = @ + 0, !.len = @ - 0])
    BY <2>1 DEF CutAt
  <2>3. 0 \in Nat /\ 0 <= probeResults.len
    BY <1>1
  <2> QED BY <1>1, <1>4, <2>2, <2>3, SliceCut
<1> QED BY <1>2, <1>3, <1>4

(* A failed upload puts its batch back in front of the queue.              *)
LEMMA RequeueResultsKeeps ==
  ASSUME SliceInv, Idle, NEW g \in Procs, Requeue(g)
  PROVE  SliceInv'
<1>0. /\ heap \in Memory /\ batch \in [Procs -> Slices] /\ batch[g] \in Slices
      /\ probeResults \in Slices /\ Fits(heap, probeResults)
      /\ batch[g].len \in Nat /\ batch[g].lo \in Nat
  BY DEF SliceInv, SliceTypes, Slices
<1>1. /\ Unused \in Arrays /\ \A h \in Procs : Unused # batch[h].arr
  BY <1>0, UnusedFresh
<1>2. PICK kept : kept = KeptQueue(batch[g].len)
  OBVIOUS
<1>3. /\ kept \in Slices /\ Fits(heap, kept)
      /\ batch[g].len + probeResults.len <= MaxQueueSize => kept = probeResults
  BY <1>0, <1>2, KeptFits
<1>4. PICK xs \in Seq(Results) : xs = Elems(heap, kept) /\ Range(xs) = Content(heap, kept)
  BY <1>0, <1>3, SliceElems
<1>5. /\ pc[g] \in {"noConnection", "rpcError", "refused"}
      /\ pc' = [pc EXCEPT ![g] = IF @ = "rpcError" THEN "reset" ELSE Failed(g)]
      /\ batch' = [batch EXCEPT ![g] = NoSlice]
      /\ sent' = [sent EXCEPT ![g] = {}]
      /\ probeResults' = AppendTo(heap, batch[g], xs).slice
      /\ heap' = Live(AppendTo(heap, batch[g], xs).heap,
                      {probeResults'} \cup {batch[h] : h \in Procs \ {g}})
      /\ UNCHANGED <<added, acked>>
  BY <1>2, <1>4 DEF Requeue, Release
<1>6. /\ dropped \subseteq dropped'
      /\ Content(heap, probeResults) \subseteq Content(heap, kept) \cup dropped'
  <2>1. dropped' = IF batch[g].len + probeResults.len <= MaxQueueSize
                   THEN dropped
                   ELSE dropped \cup (Range(Elems(heap, probeResults)) \ Range(xs))
    BY <1>2, <1>4 DEF Requeue
  <2>2. Range(Elems(heap, probeResults)) = Content(heap, probeResults)
    BY <1>0, SliceElems
  <2> QED BY <1>3, <1>4, <2>1, <2>2
<1>7. shared' = (shared \/ \E h \in Procs \ {g} : batch[h].arr = batch[g].arr)
  BY DEF Requeue
<1>8. pc[g] \in Carrying /\ pc'[g] \notin Carrying /\ pc'[g] # "rpc"
  <2>1. pc'[g] \in {"reset", Failed(g)}
    BY <1>5 DEF Idle
  <2> QED BY <1>5, <2>1, Returns DEF Carrying
<1>9. /\ \A h \in Procs : h # g => /\ pc'[h] = pc[h] /\ batch'[h] = batch[h]
                                   /\ sent'[h] = sent[h]
      /\ batch'[g] = NoSlice
  BY <1>0, <1>5 DEF Idle, SliceInv, SliceTypes
<1>10. Fits(heap, batch[g])
  BY <1>8 DEF SliceInv, SliceTypes
<1>11. /\ heap' \in Memory /\ probeResults' \in Slices /\ Fits(heap', probeResults')
       /\ Content(heap', probeResults') = Content(heap, batch[g]) \cup Content(heap, kept)
       /\ probeResults'.arr = batch[g].arr \/ probeResults'.arr = Unused
       /\ \A h \in Procs : h # g /\ Fits(heap, batch[h]) =>
            /\ Fits(heap', batch[h])
            /\ batch[h].arr # batch[g].arr => Content(heap', batch[h]) = Content(heap, batch[h])
  <2>1. PICK n, k : n = probeResults' /\ k = heap'
    OBVIOUS
  <2>2. PICK G \in SUBSET Procs : G = Procs \ {g}
    OBVIOUS
  <2>3. AppendYields(batch[g], xs, G, n, k)
    BY <1>5, <2>1, <2>2 DEF AppendYields
  <2>4. /\ k \in Memory /\ n \in Slices /\ Fits(k, n)
        /\ Content(k, n) = Content(heap, batch[g]) \cup Range(xs)
        /\ (n.arr = batch[g].arr /\ n.lo = batch[g].lo) \/ n.arr = Unused
        /\ Survive(batch[g], G, k)
    BY <1>0, <1>1, <1>10, <2>3, AfterAppend
  <2>5. ASSUME NEW h \in Procs, h # g, Fits(heap, batch[h])
        PROVE  /\ Fits(k, batch[h])
               /\ batch[h].arr # batch[g].arr => Content(k, batch[h]) = Content(heap, batch[h])
    BY <1>1, <2>2, <2>4, <2>5 DEF Survive
  <2> QED BY <1>4, <2>1, <2>4, <2>5
<1>12. NoSlice \in Slices /\ NoSlice.arr # probeResults'.arr
  BY <1>11 DEF NoSlice, Slices, Arrays, Fits
<1>13. SliceTypes'
  <2>1. batch' \in [Procs -> Slices] /\ sent' \in [Procs -> SUBSET Results]
    BY <1>0, <1>5, <1>12 DEF SliceInv, SliceTypes
  <2>2. \A h \in Procs : pc'[h] \in Carrying => Fits(heap', batch'[h])
    BY <1>8, <1>9, <1>11 DEF SliceInv, SliceTypes
  <2>3. \A h \in Procs : pc'[h] \notin Carrying => batch'[h] = NoSlice
    BY <1>9 DEF SliceInv, SliceTypes
  <2> QED BY <1>5, <1>11, <2>1, <2>2, <2>3 DEF SliceInv, SliceTypes
<1>14. ASSUME Apart, SentExact, Accounted,
              \A h \in Procs \ {g} : batch[h].arr # batch[g].arr
       PROVE  Apart' /\ SentExact' /\ Accounted'
  <2>1. \A h \in Procs : h # g => Content(heap', batch[h]) = Content(heap, batch[h])
    <3> SUFFICES ASSUME NEW h \in Procs, h # g
                 PROVE  Content(heap', batch[h]) = Content(heap, batch[h])
      OBVIOUS
    <3>1. CASE pc[h] \in Carrying
      BY <1>11, <1>14, <3>1 DEF SliceInv, SliceTypes
    <3>2. CASE pc[h] \notin Carrying
      BY <3>2, NoContent DEF SliceInv, SliceTypes
    <3> QED BY <3>1, <3>2
  <2>2. Apart'
    <3> SUFFICES ASSUME NEW h \in Procs PROVE batch'[h].arr # probeResults'.arr
      BY DEF Apart
    <3>1. CASE h = g
      BY <1>9, <1>12, <3>1
    <3>2. CASE h # g
      BY <1>1, <1>9, <1>11, <1>14, <3>2
    <3> QED BY <3>1, <3>2
  <2>3. SentExact'
    BY <1>8, <1>9, <1>14, <2>1 DEF SentExact
  <2>4. Accounted'
    <3> SUFFICES ASSUME NEW r \in 1..added
                 PROVE  \/ r \in Content(heap', probeResults')
                        \/ \E h \in Procs : r \in Content(heap', batch'[h])
                        \/ r \in acked \cup dropped'
      BY <1>5 DEF Accounted
    <3>1. ASSUME NEW h \in Procs, r \in Content(heap, batch[h])
          PROVE  \/ r \in Content(heap', probeResults')
                 \/ \E j \in Procs : r \in Content(heap', batch'[j])
      <4>1. CASE h = g
        BY <1>11, <3>1, <4>1
      <4>2. CASE h # g
        BY <1>9, <2>1, <3>1, <4>2
      <4> QED BY <4>1, <4>2
    <3>2. r \in Content(heap, probeResults) =>
            r \in Content(heap', probeResults') \cup dropped'
      BY <1>6, <1>11
    <3> QED BY <1>6, <1>14, <3>1, <3>2 DEF Accounted
  <2> QED BY <2>2, <2>3, <2>4
<1>15. ~shared' => ~shared /\ \A h \in Procs \ {g} : batch[h].arr # batch[g].arr
  BY Zenon, <1>7
<1> QED BY Zenon, <1>13, <1>14, <1>15 DEF SliceInv

(* A goroutine moves on with the batch it holds, or with none.             *)
LEMMA SliceMove ==
  ASSUME SliceInv, Idle, NEW g \in Procs, NEW v \in Pcs \ {"rpc"},
         pc' = [pc EXCEPT ![g] = v], v \in Carrying <=> pc[g] \in Carrying,
         UNCHANGED <<heap, probeResults, batch, sent, added, acked, dropped, shared>>
  PROVE  SliceInv'
<1>1. \A h \in Procs : pc'[h] = IF h = g THEN v ELSE pc[h]
  BY DEF Idle
<1>2. /\ \A h \in Procs : pc'[h] \in Carrying <=> pc[h] \in Carrying
      /\ sent' \in [Procs -> SUBSET Results]
      /\ \A h \in Procs : pc'[h] = "rpc" => pc[h] = "rpc" /\ sent'[h] = sent[h]
  BY <1>1 DEF SliceInv, SliceTypes
<1> QED BY <1>2, SliceQuiet

(* The request of an upload holds what its batch holds in memory.          *)
LEMMA SendKeeps ==
  ASSUME SliceInv, Idle, NEW g \in Procs, Send(g)
  PROVE  SliceInv'
<1>0. UNCHANGED <<heap, probeResults, batch, added, acked, dropped, shared>>
  BY DEF Send, queueVars, histVars
<1>1. CASE UNCHANGED <<sent, pc>>
  BY <1>0, <1>1, SliceQuiet DEF SliceInv, SliceTypes
<1>2. CASE /\ sent' = [sent EXCEPT ![g] = Range(Elems(heap, batch[g]))]
           /\ pc' = [pc EXCEPT ![g] = "rpc"]
  <2>1. /\ Range(Elems(heap, batch[g])) = Content(heap, batch[g])
        /\ Content(heap, batch[g]) \subseteq Results
    BY BatchElems DEF SliceInv
  <2>2. /\ \A h \in Procs : pc'[h] = IF h = g THEN "rpc" ELSE pc[h]
        /\ pc[g] = "send"
    BY <1>2 DEF Idle, Send
  <2>3. /\ sent' \in [Procs -> SUBSET Results]
        /\ \A h \in Procs : sent'[h] = IF h = g THEN Content(heap, batch[g]) ELSE sent[h]
    BY <1>2, <2>1 DEF SliceInv, SliceTypes
  <2>4. \A h \in Procs : pc'[h] \in Carrying <=> pc[h] \in Carrying
    BY <2>2 DEF Carrying
  <2> QED BY <1>0, <2>2, <2>3, <2>4, SliceQuiet
<1> QED BY <1>1, <1>2 DEF Send

LEMMA NextSlices == SliceInv /\ Idle /\ [NextWithClose]_vars => SliceInv'
<1> SUFFICES ASSUME SliceInv, Idle, [NextWithClose]_vars PROVE SliceInv'
  OBVIOUS
<1>0. Loop \in Procs
  BY DEF Procs
<1>1. CASE AddProbeResult
  BY <1>1, AddResultKeeps
<1>2. ASSUME NEW g \in Procs, TakeBatch(g) PROVE SliceInv'
  BY <1>2, TakeResultsKeeps
<1>3. ASSUME NEW g \in Procs, Uploaded(g) PROVE SliceInv'
  BY <1>3, UploadedResultsKeeps
<1>4. ASSUME NEW g \in Procs, Requeue(g) PROVE SliceInv'
  BY <1>4, RequeueResultsKeeps
<1>5. ASSUME NEW g \in Procs, Send(g) PROVE SliceInv'
  BY <1>5, SendKeeps
<1>6. ASSUME AddPathInfo \/ Stop \/ StopReturn \/ UNCHANGED vars
      PROVE  SliceInv'
  <2>1. UNCHANGED <<heap, probeResults, batch, sent, added, acked, dropped, shared, pc>>
    BY <1>6 DEF AddPathInfo, Stop, StopReturn, vars, queueVars, batchVars, histVars
  <2> QED BY <2>1, SliceQuiet DEF SliceInv, SliceTypes
<1>7. ASSUME NEW g \in Procs,
             NothingToUpload(g) \/ CheckClient(g) \/ Connect(g) \/ ConnectFails(g)
               \/ UploadFails(g) \/ Reset(g)
      PROVE  SliceInv'
  <2>1. UNCHANGED <<heap, probeResults, batch, sent, added, acked, dropped, shared>>
    BY <1>7 DEF NothingToUpload, CheckClient, Connect, ConnectFails,
                UploadFails, Reset, queueVars, batchVars, histVars
  <2>2. PICK v \in Pcs \ {"rpc"} :
          pc' = [pc EXCEPT ![g] = v] /\ (v \in Carrying <=> pc[g] \in Carrying)
    <3>1. CASE NothingToUpload(g)
      <4>1. pc[g] = "ready" /\ pc' = [pc EXCEPT ![g] = Returned(g)]
        BY <3>1 DEF NothingToUpload
      <4> QED BY <4>1, Returns, ReturnPcs DEF Carrying
    <3>2. CASE CheckClient(g)
      <4>1. pc[g] = "check" /\ pc' = [pc EXCEPT ![g] = IF client THEN "send" ELSE "connect"]
        BY <3>2 DEF CheckClient
      <4>2. PICK v \in {"send", "connect"} : pc' = [pc EXCEPT ![g] = v]
        BY Zenon, <4>1
      <4> QED BY <4>1, <4>2 DEF Carrying, Pcs
    <3>3. CASE Connect(g)
      BY <3>3 DEF Connect, Carrying, Pcs
    <3>4. CASE ConnectFails(g)
      BY <3>4 DEF ConnectFails, Carrying, Pcs
    <3>5. CASE UploadFails(g)
      BY <3>5 DEF UploadFails, Carrying, Pcs
    <3>6. CASE Reset(g)
      <4>1. pc[g] = "reset" /\ pc' = [pc EXCEPT ![g] = Failed(g)]
        BY <3>6 DEF Reset
      <4> QED BY <4>1, Returns, ReturnPcs DEF Carrying
    <3> QED BY <1>7, <3>1, <3>2, <3>3, <3>4, <3>5, <3>6
  <2> QED BY <2>1, <2>2, SliceMove
<1>8. ASSUME Tick \/ SelectDone \/ LoopReset PROVE SliceInv'
  <2>1. UNCHANGED <<heap, probeResults, batch, sent, added, acked, dropped, shared>>
    BY <1>8 DEF Tick, SelectDone, LoopReset, queueVars, batchVars, histVars
  <2>2. PICK v \in Pcs \ {"rpc"} :
          pc' = [pc EXCEPT ![Loop] = v] /\ (v \in Carrying <=> pc[Loop] \in Carrying)
    BY <1>8 DEF Tick, SelectDone, LoopReset, Carrying, Pcs
  <2> QED BY <1>0, <2>1, <2>2, SliceMove
<1> QED BY <1>1, <1>2, <1>3, <1>4, <1>5, <1>6, <1>7, <1>8
  DEF NextWithClose, Next, Run, Upload

LEMMA NextIsWithClose == [Next]_vars => [NextWithClose]_vars
  BY DEF NextWithClose

(* Every result that was added is in the queue, in a batch on its way, or  *)
(* was confirmed or dropped for the size limit, through every interleaving *)
(* of additions with any number of uploads, as long as no batch was put    *)
(* back into an array that another upload was reading (uploadData).        *)
THEOREM ResultsAreConserved == Spec => []ResultsConserved
<1>1. [Next]_vars => [NextWithClose]_vars
  BY NextIsWithClose
<1>2. Init => UploadInv /\ SliceInv
  BY InitUpload, InitSlices
<1>3. UploadInv /\ SliceInv /\ [NextWithClose]_vars => (UploadInv /\ SliceInv)'
  BY NextUpload, NextSlices DEF UploadInv
<1>4. SliceInv => ResultsConserved
  BY SliceImplies
<1> QED BY <1>1, <1>2, <1>3, <1>4, PTL DEF Spec

(* The same with the shutdown: Stop and the last upload lose no result.    *)
THEOREM ResultsAreConservedToTheEnd == SpecWithClose => []ResultsConserved
<1>1. Init => UploadInv /\ SliceInv
  BY InitUpload, InitSlices
<1>2. UploadInv /\ SliceInv /\ [NextWithClose]_vars => (UploadInv /\ SliceInv)'
  BY NextUpload, NextSlices DEF UploadInv
<1>3. SliceInv => ResultsConserved
  BY SliceImplies
<1> QED BY <1>1, <1>2, <1>3, PTL DEF SpecWithClose

-----------------------------------------------------------------------------
(* The types of the variables that the other invariants do not speak of.   *)
Switches ==
  /\ client \in BOOLEAN /\ final \in BOOLEAN /\ crashed \in BOOLEAN
  /\ shared \in BOOLEAN
  /\ stopping \in {"no", "waiting", "done"}
Ends ==
  /\ acked \subseteq Results /\ dropped \subseteq Results
  /\ ackedPaths \subseteq Paths /\ trimmed \subseteq Paths

LEMMA NextSwitches == Switches /\ [NextWithClose]_vars => Switches'
<1> SUFFICES ASSUME Switches, [NextWithClose]_vars PROVE Switches'
  OBVIOUS
<1>1. UNCHANGED <<client, final, crashed, shared, stopping>> => Switches'
  BY Zenon DEF Switches
<1>2. ASSUME AddProbeResult \/ AddPathInfo \/ Tick \/ UNCHANGED vars
      PROVE  UNCHANGED <<client, final, crashed, shared, stopping>>
  BY <1>2 DEF AddProbeResult, AddPathInfo, Tick, vars, histVars
<1>3. ASSUME NEW g \in Procs,
             NothingToUpload(g) \/ TakeBatch(g) \/ CheckClient(g) \/ ConnectFails(g)
               \/ Uploaded(g) \/ UploadFails(g)
      PROVE  UNCHANGED <<client, final, crashed, shared, stopping>>
  BY <1>3 DEF NothingToUpload, TakeBatch, CheckClient, ConnectFails, Uploaded,
              UploadFails, histVars
<1>4. ASSUME NEW g \in Procs, Connect(g) \/ Reset(g) PROVE Switches'
  BY Zenon, <1>4 DEF Connect, Reset, histVars, Switches
<1>5. ASSUME NEW g \in Procs, Send(g) PROVE Switches'
  BY Zenon, <1>5 DEF Send, histVars, Switches
<1>6. ASSUME NEW g \in Procs, Requeue(g) PROVE Switches'
  BY Zenon, <1>6 DEF Requeue, Switches
<1>7. ASSUME LoopReset \/ SelectDone PROVE Switches'
  BY Zenon, <1>7 DEF LoopReset, SelectDone, histVars, Switches
<1>8. ASSUME Stop \/ StopReturn PROVE Switches'
  BY Zenon, <1>8 DEF Stop, StopReturn, histVars, Switches
<1> QED BY <1>1, <1>2, <1>3, <1>4, <1>5, <1>6, <1>7, <1>8
  DEF NextWithClose, Next, Run, Upload

LEMMA NextEnds ==
  Ends /\ SliceInv /\ PathTypes /\ [NextWithClose]_vars => Ends'
<1> SUFFICES ASSUME Ends, SliceInv, PathTypes, [NextWithClose]_vars PROVE Ends'
  OBVIOUS
<1>1. UNCHANGED <<acked, dropped, ackedPaths, trimmed>> => Ends'
  BY DEF Ends
<1>2. ASSUME AddProbeResult \/ AddPathInfo \/ Tick \/ LoopReset \/ Stop
               \/ SelectDone \/ StopReturn \/ UNCHANGED vars
      PROVE  UNCHANGED <<acked, dropped, ackedPaths, trimmed>>
  BY <1>2 DEF AddProbeResult, AddPathInfo, Tick, LoopReset, Stop, SelectDone,
              StopReturn, vars, histVars
<1>3. ASSUME NEW g \in Procs,
             NothingToUpload(g) \/ TakeBatch(g) \/ CheckClient(g) \/ Connect(g)
               \/ ConnectFails(g) \/ Send(g) \/ UploadFails(g) \/ Reset(g)
      PROVE  UNCHANGED <<acked, dropped, ackedPaths, trimmed>>
  BY <1>3 DEF NothingToUpload, TakeBatch, CheckClient, Connect, ConnectFails,
              Send, UploadFails, Reset, histVars
<1>4. ASSUME NEW g \in Procs, Uploaded(g) PROVE Ends'
  <2>1. /\ acked' = acked \cup sent[g] /\ dropped' = dropped
        /\ ackedPaths' = ackedPaths \cup Range(paths[g]) /\ trimmed' = trimmed
    BY <1>4 DEF Uploaded
  <2>2. sent[g] \subseteq Results /\ paths[g] \in Seq(Paths)
    BY DEF SliceInv, SliceTypes, PathTypes
  <2>3. Range(paths[g]) \subseteq Paths
    BY <2>2, RangeFacts
  <2> QED BY <2>1, <2>2, <2>3 DEF Ends
<1>5. ASSUME NEW g \in Procs, Requeue(g) PROVE Ends'
  <2>1. dropped' \subseteq dropped \cup Range(Elems(heap, probeResults))
    BY <1>5 DEF Requeue
  <2>2. Range(Elems(heap, probeResults)) \subseteq Results
    BY SliceElems DEF SliceInv, SliceTypes, Fits
  <2>3. trimmed' \subseteq trimmed \cup Range(paths[g] \o pathInfos)
    BY <1>5 DEF Requeue
  <2>4. /\ paths[g] \in Seq(Paths) /\ pathInfos \in Seq(Paths)
        /\ paths[g] \o pathInfos \in Seq(Paths)
    BY ConcatProperties DEF PathTypes
  <2>5. Range(paths[g] \o pathInfos) \subseteq Paths
    BY <2>4, RangeFacts
  <2>6. acked' = acked /\ ackedPaths' = ackedPaths
    BY <1>5 DEF Requeue
  <2> QED BY <2>1, <2>2, <2>3, <2>5, <2>6 DEF Ends
<1> QED BY <1>1, <1>2, <1>3, <1>4, <1>5 DEF NextWithClose, Next, Run, Upload

(* A batch or the queue lies within its array and holds results.           *)
LEMMA SlicesOK == SliceInv => SliceOK(probeResults) /\ \A g \in Procs : SliceOK(batch[g])
<1> SUFFICES ASSUME SliceInv
             PROVE  SliceOK(probeResults) /\ \A g \in Procs : SliceOK(batch[g])
  OBVIOUS
<1>1. SliceOK(probeResults)
  <2>1. Range(Elems(heap, probeResults)) \subseteq Results
    BY SliceElems DEF SliceInv, SliceTypes, Fits
  <2> QED BY <2>1 DEF SliceInv, SliceTypes, Fits, SliceOK
<1>2. ASSUME NEW g \in Procs PROVE SliceOK(batch[g])
  <2>1. CASE pc[g] \notin Carrying
    BY <2>1 DEF SliceInv, SliceTypes, SliceOK
  <2>2. CASE pc[g] \in Carrying
    <3>1. Range(Elems(heap, batch[g])) \subseteq Results
      BY BatchElems DEF SliceInv
    <3> QED BY <2>2, <3>1 DEF SliceInv, SliceTypes, Fits, SliceOK
  <2> QED BY <2>1, <2>2
<1> QED BY <1>1, <1>2

UploaderInv == UploadInv /\ SliceInv /\ Switches /\ Ends

LEMMA UploaderInvImplies == UploaderInv => TypeOK
<1> SUFFICES ASSUME UploaderInv PROVE TypeOK
  OBVIOUS
<1>1. /\ probeResults \in Slices /\ SliceOK(probeResults)
      /\ heap \in [Arrays -> Seq(Results \cup {Nil})]
      /\ batch \in [Procs -> Slices] /\ \A g \in Procs : SliceOK(batch[g])
      /\ sent \in [Procs -> SUBSET Results] /\ added \in 0..MaxResults
  BY SlicesOK DEF UploaderInv, SliceInv, SliceTypes, Memory
<1>2. /\ pathInfos \in Seq(Paths) /\ paths \in [Procs -> Seq(Paths)]
      /\ addedPaths \in 0..MaxPaths /\ pc \in [Procs -> Pcs]
  BY DEF UploaderInv, UploadInv, PathInv, PathTypes, Idle
<1> QED BY Zenon, <1>1, <1>2 DEF UploaderInv, Switches, Ends, TypeOK

LEMMA InitUploader == Init => UploaderInv
<1> SUFFICES ASSUME Init PROVE UploaderInv
  OBVIOUS
<1>1. UploadInv /\ SliceInv
  BY InitUpload, InitSlices
<1>2. Switches
  BY Zenon DEF Init, Switches
<1>3. Ends
  BY DEF Init, Ends
<1> QED BY <1>1, <1>2, <1>3 DEF UploaderInv

LEMMA NextUploader == UploaderInv /\ [NextWithClose]_vars => UploaderInv'
  BY NextUpload, NextSlices, NextSwitches, NextEnds
  DEF UploaderInv, UploadInv, PathInv

(* Slices stay within the bounds of their arrays and hold results only,    *)
(* through all the slicing and appending of AddProbeResult and uploadData, *)
(* whatever the sizes; every other variable has its type.                  *)
THEOREM UploaderTypes == Spec => []TypeOK
<1> QED BY NextIsWithClose, InitUploader, NextUploader, UploaderInvImplies, PTL
  DEF Spec

(* The same through the shutdown.                                          *)
THEOREM UploaderTypesToTheEnd == SpecWithClose => []TypeOK
<1> QED BY InitUploader, NextUploader, UploaderInvImplies, PTL DEF SpecWithClose

=============================================================================
