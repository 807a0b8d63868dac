------------------------------ MODULE Uploader ------------------------------
(***************************************************************************)
(* The uploader of an agent (internal/upload/uploader.go): the queues of   *)
(* probe results and path infos that the result handler fills, the upload  *)
(* loop and the extra uploads that a full queue starts, the connection to  *)
(* the analyzer they share, and Stop.                                      *)
(*                                                                         *)
(* A result or path info is its number in the order of the additions.      *)
(* Batches of results are Go slices: an upload in flight and the queue may *)
(* share an array, which `append` overwrites in place while there is room. *)
(* Path infos are always taken as a whole, so that no two holders share an *)
(* array, and plain sequences describe them.                               *)
(*                                                                         *)
(* A critical section is one step.  Only Stop keeps u.mutex for longer: it *)
(* waits for the upload loop while it holds it.                            *)
(***************************************************************************)
EXTENDS Integers, Sequences, FiniteSets, Functions

CONSTANTS
  Loop,          \* the goroutine of uploadLoop
  Workers,       \* bound: goroutines that AddProbeResult may have started
  BatchSize,     \* UploaderBatchSize
  MaxQueueSize,  \* UploaderMaxQueueSize
  MaxPathInfos,  \* the limit of 100 path infos after a failed upload
  MaxResults,    \* bound: calls of AddProbeResult
  MaxPaths       \* bound: calls of AddPathInfo

ASSUME UploaderAssumption ==
  /\ Loop \notin Workers
  /\ IsFiniteSet(Workers)
  /\ BatchSize \in Nat \ {0}
  /\ MaxQueueSize \in Nat \ {0}
  /\ MaxPathInfos \in Nat \ {0}
  /\ MaxResults \in Nat
  /\ MaxPaths \in Nat

VARIABLES
  probeResults,  \* Uploader.probeResults, a slice
  heap,          \* the arrays behind the slices
  pathInfos,     \* Uploader.pathInfos
  client,        \* Uploader.client (and conn) is not nil
  pc,            \* where each goroutine stands in uploadData
  batch,         \* results of each upload in flight, a slice
  paths,         \* pathInfos of each upload in flight
  sent,          \* the results encoded into the request of each upload
  final,         \* the loop has seen ctx.Done
  stopping,      \* progress of Stop: no, waiting with the mutex, done
  added,         \* history: how many results were added
  addedPaths,    \* history: how many path infos were added
  acked,         \* history: results whose upload the analyzer confirmed
  ackedPaths,    \* history: path infos whose upload it confirmed
  dropped,       \* history: results dropped for the size limit
  trimmed,       \* history: path infos trimmed for the size limit
  shared,        \* history: a batch was put back while another upload held
                 \* a part of its array
  crashed        \* a nil client was called

queueVars == <<probeResults, heap, pathInfos>>
batchVars == <<batch, paths, sent>>
histVars  == <<added, addedPaths, acked, ackedPaths, dropped, trimmed,
               shared>>
vars == <<queueVars, batchVars, histVars, client, pc, final, stopping,
          crashed>>

Procs   == Workers \cup {Loop}
Results == 1..MaxResults
Paths   == 1..MaxPaths
Nil     == 0

-----------------------------------------------------------------------------
(* Slices. *)

Arrays  == 1..(Cardinality(Procs) + 2)
NoSlice == [arr |-> 0, lo |-> 0, len |-> 0]

(* cap(s) and the elements of s *)
Cap(h, s)   == Len(h[s.arr]) - s.lo
Elems(h, s) == [i \in 1..s.len |-> h[s.arr][s.lo + i]]

(* An array that no slice refers to. *)
Unused == CHOOSE a \in Arrays :
            a # probeResults.arr /\ \A g \in Procs : a # batch[g].arr

(* The garbage collector: only the arrays of the slices ss are kept. *)
Live(h, ss) ==
  [a \in Arrays |-> IF \E s \in ss : s.arr = a THEN h[a] ELSE <<>>]

Nils(n) == [i \in 1..n |-> Nil]

(* append(s, xs...): in place while the capacity of s suffices, into a     *)
(* new array of at least twice the capacity otherwise.                     *)
AppendTo(h, s, xs) ==
  LET n == s.len + Len(xs)
      c == IF n > 2 * Cap(h, s) THEN n ELSE 2 * Cap(h, s)
      at == s.lo + s.len
  IN  IF n <= Cap(h, s)
      THEN [heap  |-> [h EXCEPT ![s.arr] =
                        [i \in 1..Len(h[s.arr]) |->
                           IF i \in (at + 1)..(at + Len(xs))
                           THEN xs[i - at] ELSE h[s.arr][i]]],
            slice |-> [s EXCEPT !.len = n]]
      ELSE [heap  |-> [h EXCEPT ![Unused] =
                        Elems(h, s) \o xs \o Nils(c - n)],
            slice |-> [arr |-> Unused, lo |-> 0, len |-> n]]

-----------------------------------------------------------------------------
(* NewUploader and Start: the first connection may fail. *)
Init ==
  /\ probeResults = [arr |-> 1, lo |-> 0, len |-> 0]
  /\ heap = [a \in Arrays |-> IF a = 1 THEN Nils(MaxQueueSize) ELSE <<>>]
  /\ pathInfos = <<>>
  /\ client \in BOOLEAN
  /\ pc = [g \in Procs |-> IF g = Loop THEN "idle" ELSE "free"]
  /\ batch = [g \in Procs |-> NoSlice]
  /\ paths = [g \in Procs |-> <<>>]
  /\ sent = [g \in Procs |-> {}]
  /\ final = FALSE
  /\ stopping = "no"
  /\ added = 0 /\ addedPaths = 0
  /\ acked = {} /\ ackedPaths = {}
  /\ dropped = {} /\ trimmed = {}
  /\ shared = FALSE
  /\ crashed = FALSE

Unlocked == stopping # "waiting"

(* AddProbeResult: a full queue starts an upload in a goroutine of its own. *)
AddProbeResult ==
  LET a == AppendTo(heap, probeResults, <<added + 1>>)
  IN  /\ Unlocked
      /\ added < MaxResults
      /\ added' = added + 1
      /\ probeResults' = a.slice
      /\ heap' = Live(a.heap, {a.slice} \cup {batch[g] : g \in Procs})
      /\ IF a.slice.len >= MaxQueueSize
         THEN \E g \in Workers :
                /\ pc[g] = "free"
                /\ pc' = [pc EXCEPT ![g] = "ready"]
         ELSE UNCHANGED pc
      /\ UNCHANGED <<pathInfos, client, batchVars, final, stopping,
                     addedPaths, acked, ackedPaths, dropped, trimmed,
                     shared, crashed>>

AddPathInfo ==
  /\ Unlocked
  /\ addedPaths < MaxPaths
  /\ addedPaths' = addedPaths + 1
  /\ pathInfos' = Append(pathInfos, addedPaths + 1)
  /\ UNCHANGED <<probeResults, heap, client, pc, batchVars, final,
                 stopping, added, acked, ackedPaths, dropped, trimmed,
                 shared, crashed>>

(* uploadLoop: the ticker fires. *)
Tick ==
  /\ pc[Loop] = "idle"
  /\ pc' = [pc EXCEPT ![Loop] = "ready"]
  /\ UNCHANGED <<queueVars, batchVars, histVars, client, final, stopping,
                 crashed>>

(* uploadLoop: the context was cancelled; a last upload, then the return. *)
SelectDone ==
  /\ pc[Loop] = "idle"
  /\ stopping # "no"
  /\ final' = TRUE
  /\ pc' = [pc EXCEPT ![Loop] = "ready"]
  /\ UNCHANGED <<queueVars, batchVars, histVars, client, stopping, crashed>>

(* Where uploadData returns to, without and with an error. *)
Returned(g) ==
  CASE g # Loop           -> "free"
    [] g = Loop /\ final  -> "exited"
    [] g = Loop /\ ~final -> "idle"
Failed(g) == IF g = Loop /\ ~final THEN "loopReset" ELSE Returned(g)

-----------------------------------------------------------------------------
(* uploadData *)

(* Mutant: path infos alone are no reason for an upload. *)
NoResultsToUpload == probeResults.len = 0

NoData == probeResults.len = 0 /\ pathInfos = <<>>

NothingToUpload(g) ==
  /\ pc[g] = "ready"
  /\ Unlocked
  /\ NoData
  /\ pc' = [pc EXCEPT ![g] = Returned(g)]
  /\ UNCHANGED <<queueVars, batchVars, histVars, client, final, stopping,
                 crashed>>

(* The first BatchSize results, or all of them and a new array. *)
Batch ==
  IF probeResults.len > BatchSize
  THEN [probeResults EXCEPT !.len = BatchSize]
  ELSE probeResults

(* Mutant: the rest of the queue begins one too late. *)
RestOffByOne ==
  IF probeResults.len > BatchSize
  THEN [probeResults EXCEPT !.lo = @ + BatchSize + 1]
  ELSE [arr |-> Unused, lo |-> 0, len |-> 0]

RestOfQueue ==
  IF probeResults.len > BatchSize
  THEN [probeResults EXCEPT !.lo = @ + BatchSize, !.len = @ - BatchSize]
  ELSE [arr |-> Unused, lo |-> 0, len |-> 0]

TakeBatch(g) ==
  /\ pc[g] = "ready"
  /\ Unlocked
  /\ ~NoData
  /\ batch' = [batch EXCEPT ![g] = Batch]
  /\ probeResults' = RestOfQueue
  /\ heap' = IF RestOfQueue.arr = probeResults.arr THEN heap
             ELSE [heap EXCEPT ![RestOfQueue.arr] = Nils(MaxQueueSize)]
  /\ paths' = [paths EXCEPT ![g] = pathInfos]
  /\ pathInfos' = <<>>
  /\ pc' = [pc EXCEPT ![g] = "check"]
  /\ UNCHANGED <<sent, histVars, client, final, stopping, crashed>>

(* Mutant: the connection is only made by Start. *)
CheckNothing(g) ==
  /\ pc[g] = "check"
  /\ pc' = [pc EXCEPT ![g] = "send"]
  /\ UNCHANGED <<queueVars, batchVars, histVars, client, final, stopping,
                 crashed>>

(* The unlocked test of u.client. *)
CheckClient(g) ==
  /\ pc[g] = "check"
  /\ pc' = [pc EXCEPT ![g] = IF client THEN "send" ELSE "connect"]
  /\ UNCHANGED <<queueVars, batchVars, histVars, client, final, stopping,
                 crashed>>

(* Connect: returns at once if another goroutine has connected already. *)
Connect(g) ==
  /\ pc[g] = "connect"
  /\ Unlocked
  /\ client' = TRUE
  /\ pc' = [pc EXCEPT ![g] = "send"]
  /\ UNCHANGED <<queueVars, batchVars, histVars, final, stopping, crashed>>

ConnectFails(g) ==
  /\ pc[g] = "connect"
  /\ Unlocked
  /\ ~client
  /\ pc' = [pc EXCEPT ![g] = "noConnection"]
  /\ UNCHANGED <<queueVars, batchVars, histVars, client, final, stopping,
                 crashed>>

(* u.client.UploadData encodes the batch as it is in memory now.  The      *)
(* client is read without the mutex; another goroutine may have reset it.  *)
Send(g) ==
  /\ pc[g] = "send"
  /\ IF client
     THEN /\ sent' = [sent EXCEPT ![g] = Range(Elems(heap, batch[g]))]
          /\ pc' = [pc EXCEPT ![g] = "rpc"]
          /\ UNCHANGED crashed
     ELSE crashed' = TRUE /\ UNCHANGED <<sent, pc>>
  /\ UNCHANGED <<queueVars, batch, paths, histVars, client, final, stopping>>

(* The batch of g is let go. *)
Release(g) ==
  /\ batch' = [batch EXCEPT ![g] = NoSlice]
  /\ paths' = [paths EXCEPT ![g] = <<>>]
  /\ sent' = [sent EXCEPT ![g] = {}]

(* The analyzer has acked the batch and its answer arrives. *)
Uploaded(g) ==
  /\ pc[g] = "rpc"
  /\ acked' = acked \cup sent[g]
  /\ ackedPaths' = ackedPaths \cup Range(paths[g])
  /\ Release(g)
  /\ heap' = Live(heap, {probeResults} \cup
                        {batch[h] : h \in Procs \ {g}})
  /\ pc' = [pc EXCEPT ![g] = Returned(g)]
  /\ UNCHANGED <<probeResults, pathInfos, added, addedPaths, dropped,
                 trimmed, shared, client, final, stopping, crashed>>

(* The call fails or is refused.  Whether the analyzer has acked the      *)
(* batch nevertheless and only its answer is late makes no difference.     *)
UploadFails(g) ==
  /\ pc[g] = "rpc"
  /\ pc' \in {[pc EXCEPT ![g] = r] : r \in {"rpcError", "refused"}}
  /\ UNCHANGED <<queueVars, batchVars, histVars, client, final, stopping,
                 crashed>>

(* Mutant: the batch replaces the queue. *)
KeptNothing(n) == [probeResults EXCEPT !.len = 0]

(* What is left of the queue when a batch of n results is put back. *)
KeptQueue(n) ==
  LET toKeep == MaxQueueSize - n
  IN  CASE n + probeResults.len <= MaxQueueSize -> probeResults
        [] n + probeResults.len > MaxQueueSize /\ toKeep > 0 ->
             [probeResults EXCEPT !.lo = @ + probeResults.len - toKeep,
                                  !.len = toKeep]
        [] OTHER -> [probeResults EXCEPT !.len = 0]

(* Mutant: one path info too many is cut off. *)
TrimShort(s) == SubSeq(s, 1, IF Len(s) >= MaxPathInfos
                             THEN MaxPathInfos - 1 ELSE Len(s))

Trim(s) == SubSeq(s, 1, IF Len(s) > MaxPathInfos THEN MaxPathInfos
                        ELSE Len(s))

(* The batch is put back in front of the queue (the three failure paths).  *)
Requeue(g) ==
  LET kept == KeptQueue(batch[g].len)
      a    == AppendTo(heap, batch[g], Elems(heap, kept))
      all  == paths[g] \o pathInfos
  IN  /\ pc[g] \in {"noConnection", "rpcError", "refused"}
      /\ Unlocked
      /\ probeResults' = a.slice
      /\ heap' = Live(a.heap, {a.slice} \cup
                              {batch[h] : h \in Procs \ {g}})
      /\ dropped' = IF batch[g].len + probeResults.len <= MaxQueueSize
                    THEN dropped
                    ELSE dropped \cup (Range(Elems(heap, probeResults))
                                         \ Range(Elems(heap, kept)))
      /\ pathInfos' = Trim(all)
      /\ trimmed' = IF Len(all) <= MaxPathInfos THEN trimmed
                    ELSE trimmed \cup (Range(all) \ Range(Trim(all)))
      /\ shared' = (shared \/ \E h \in Procs \ {g} :
                                 batch[h].arr = batch[g].arr)
      /\ Release(g)
      /\ pc' = [pc EXCEPT ![g] = IF @ = "rpcError" THEN "reset"
                                 ELSE Failed(g)]
      /\ UNCHANGED <<added, addedPaths, acked, ackedPaths, client, final,
                     stopping, crashed>>

(* After a failed call: the connection is reset. *)
Reset(g) ==
  /\ pc[g] = "reset"
  /\ Unlocked
  /\ client' = FALSE
  /\ pc' = [pc EXCEPT ![g] = Failed(g)]
  /\ UNCHANGED <<queueVars, batchVars, histVars, final, stopping, crashed>>

(* uploadLoop resets it once more after any failed upload. *)
LoopReset ==
  /\ pc[Loop] = "loopReset"
  /\ Unlocked
  /\ client' = FALSE
  /\ pc' = [pc EXCEPT ![Loop] = "idle"]
  /\ UNCHANGED <<queueVars, batchVars, histVars, final, stopping, crashed>>

-----------------------------------------------------------------------------
(* Stop locks the mutex, cancels the context and waits for the loop. *)
Stop ==
  /\ stopping = "no"
  /\ stopping' = "waiting"
  /\ UNCHANGED <<queueVars, batchVars, histVars, client, pc, final, crashed>>

(* The loop has returned: Stop unlocks, and Close closes the connection.   *)
(* No behaviour gets here, which is what LoopExits is about.               *)
StopReturn ==
  /\ stopping = "waiting"
  /\ pc[Loop] = "exited"
  /\ stopping' = "done"
  /\ client' = FALSE
  /\ UNCHANGED <<queueVars, batchVars, histVars, pc, final, crashed>>

(* The steps of uploadData after its first critical section. *)
Upload(g) ==
  \/ CheckClient(g)
  \/ Connect(g)
  \/ ConnectFails(g)
  \/ Send(g)
  \/ Uploaded(g)
  \/ UploadFails(g)
  \/ Requeue(g)
  \/ Reset(g)

(* A step of goroutine g. *)
Run(g) ==
  \/ NothingToUpload(g) \/ TakeBatch(g) \/ Upload(g)
  \/ g = Loop /\ (Tick \/ LoopReset)

Next == ~crashed /\ (AddProbeResult \/ AddPathInfo \/ \E g \in Procs : Run(g))

(* With the shutdown. *)
NextWithClose ==
  Next \/ (~crashed /\ (Stop \/ SelectDone \/ StopReturn))

(* The goroutines are scheduled, the ticker fires, and an analyzer that    *)
(* the loop asks again and again is at last reachable and answers.         *)
Fairness ==
  /\ \A g \in Procs : WF_vars(~crashed /\ Run(g))
  /\ SF_vars(~crashed /\ Connect(Loop))
  /\ SF_vars(~crashed /\ Uploaded(Loop))

Spec == Init /\ [][Next]_vars /\ Fairness

SpecWithClose ==
  Init /\ [][NextWithClose]_vars /\ Fairness
       /\ WF_vars(~crashed /\ (SelectDone \/ StopReturn))

-----------------------------------------------------------------------------
Pcs == {"free", "idle", "ready", "check", "connect", "send", "rpc",
        "noConnection", "rpcError", "refused", "reset", "loopReset",
        "exited"}
Slices == [arr : Arrays \cup {0}, lo : Nat, len : Nat]

(* A slice lies within its array and holds results only. *)
SliceOK(s) ==
  s = NoSlice \/ /\ s.arr \in Arrays
                 /\ s.lo + s.len <= Len(heap[s.arr])
                 /\ Range(Elems(heap, s)) \subseteq Results

(* Every variable has its type; slices stay within the bounds of their     *)
(* arrays, through all the slicing and appending of uploadData.            *)
TypeOK ==
  /\ probeResults \in Slices /\ SliceOK(probeResults)
  /\ heap \in [Arrays -> Seq(Results \cup {Nil})]
  /\ pathInfos \in Seq(Paths)
  /\ client \in BOOLEAN /\ final \in BOOLEAN /\ crashed \in BOOLEAN
  /\ pc \in [Procs -> Pcs]
  /\ batch \in [Procs -> Slices] /\ \A g \in Procs : SliceOK(batch[g])
  /\ paths \in [Procs -> Seq(Paths)]
  /\ sent \in [Procs -> SUBSET Results]
  /\ stopping \in {"no", "waiting", "done"}
  /\ added \in 0..MaxResults /\ addedPaths \in 0..MaxPaths
  /\ acked \subseteq Results /\ dropped \subseteq Results
  /\ ackedPaths \subseteq Paths /\ trimmed \subseteq Paths
  /\ shared \in BOOLEAN

(* A failed upload puts its path infos back: each one added is queued, in  *)
(* the hands of exactly one upload, confirmed by the analyzer, or was cut  *)
(* off for the limit; however many uploads run, none is lost or taken      *)
(* twice (uploadData).                                                     *)
PathsConserved ==
  /\ \A p \in 1..addedPaths :
       \/ p \in Range(pathInfos)
       \/ \E g \in Procs : p \in Range(paths[g])
       \/ p \in ackedPaths \cup trimmed
  /\ \A g \in Procs :
       /\ Range(pathInfos) \cap Range(paths[g]) = {}
       /\ \A h \in Procs \ {g} : Range(paths[g]) \cap Range(paths[h]) = {}

(* No probe result is lost but for the queue limit, as long as no upload   *)
(* has put its batch back while another held a part of the same array;     *)
(* after that, append has overwritten the other batch.                     *)
ResultsConserved ==
  ~shared => \A r \in 1..added :
               \/ r \in Range(Elems(heap, probeResults))
               \/ \E g \in Procs : r \in Range(Elems(heap, batch[g]))
               \/ r \in acked \cup dropped

(* Every path info reaches the analyzer in the end, or is cut off for the  *)
(* limit, unless the process panics.                                       *)
EveryPathEnds ==
  \A p \in Paths :
    p <= addedPaths ~> p \in ackedPaths \cup trimmed \/ crashed

(* uploadData tests u.client and uses it later, without the mutex in       *)
(* between.  A nil client is called only when another upload resets the    *)
(* connection in that gap: a lone upload never panics.                     *)
NilClientNeedsRival ==
  [][\A g \in Procs :
       pc'[g] = "send" /\ ~client' =>
         /\ pc[g] = "send"
         /\ client => \E h \in Procs \ {g} :
                         /\ pc[h] \in {"reset", "loopReset"}
                         /\ pc'[h] # pc[h]]_vars

(* "Upload any remaining data before exiting": once Stop has cancelled the *)
(* context, the upload loop uploads and returns.                           *)
LoopExits == stopping = "waiting" ~> pc[Loop] = "exited" \/ crashed

=============================================================================
