---------------------------- MODULE EventIndexer ----------------------------
(***************************************************************************)
(* The event indexer (backend/event-indexer/cmd/main.go): one listener     *)
(* goroutine per configured chain polls its RPC endpoint for the logs of   *)
(* new blocks and applies them to the Redis cache.                         *)
(*                                                                         *)
(* A step of a listener is the code up to and including one call of the    *)
(* RPC endpoint or of Redis.  lastBlock lives in memory only, so a restart *)
(* of the process begins again at the head of the chain (or at             *)
(* BackfillFromBlock).  An entry of the cache is one the indexer wrote:    *)
(* its revoked flag is always false, and a revocation deletes it.          *)
(*                                                                         *)
(* What the Qdrant call of handleConsentRevoked writes is left out: it     *)
(* marks the points that carry the on-chain consent id, and the only       *)
(* writer of points, the gateway's CreateConsent, gives them ids of its    *)
(* own making.  That it may never return is not: it is made under the      *)
(* mutex that all listeners share (HangInQdrant).                          *)
(***************************************************************************)
EXTENDS Naturals, Sequences, SequencesExt

CONSTANTS
  Chain, Consent,
  Watched,            \* the topics of the listener's filter query
  Emitted,            \* kind of event -> the topic of the registry's log
  BackfillFrom,       \* values of BackfillFromBlock a start may find in its environment; 0 is none
  BatchSize, BackfillBatchSize,  \* blocks per FilterLogs call (1000; 5000 in backfill mode)
  Failures,           \* what may go wrong: "dial", "blockNumber", "filterLogs", "redis", "hang", "stop"
  MaxBlock,           \* bound: chain -> its height
  MaxStarts           \* bound: times the process is started

Kind == {"ConsentRegistered", "ConsentRevoked"}

ASSUME IndexerAssumption ==
  /\ BackfillFrom \subseteq Nat /\ MaxBlock \in [Chain -> Nat] /\ MaxStarts \in Nat
  /\ BatchSize \in Nat \ {0} /\ BackfillBatchSize \in Nat \ {0}
  /\ DOMAIN Emitted = Kind
  /\ Failures \subseteq {"dial", "blockNumber", "filterLogs", "redis", "hang", "stop"}

Log == [event : Kind, id : Consent]

VARIABLES
  chain,     \* the blocks of each chain, a block being the sequence of the registry's logs
  up,        \* the process runs
  starts,    \* times it was started
  backfill,  \* cfg.BackfillFromBlock of this run
  redis,     \* the process has a Redis client (it goes on without one)
  pc,        \* listener -> "off", "connect", "poll", "filter", "process", "gone", "hung", "stuck"
  lastBlock, from, toBlock, logs,  \* the locals of startEventListener
  cache,     \* chain -> consents with an entry in Redis
  start,     \* history: the listener's first lastBlock of this run
  processed, \* history: the logs it applied in this run, in order
  lost,      \* history: the blocks of this run whose FilterLogs failed
  failed     \* history: chains with a failed Redis call in this run

locals == <<lastBlock, from, toBlock, logs>>
history == <<start, processed, lost, failed>>
vars == <<chain, up, starts, backfill, redis, pc, locals, cache, history>>

-----------------------------------------------------------------------------
(* The chain.  The registry registers an id once and revokes it once.        *)

LogsOf(ch) == FlattenSeq(chain[ch])

Happened(ch, kind, c) == Contains(LogsOf(ch), [event |-> kind, id |-> c])

\* The logs a transaction sequence can leave in one block.
Blocks(ch) ==
  {<< >>}
  \cup {<<[event |-> "ConsentRegistered", id |-> c]>> :
          c \in {x \in Consent : ~Happened(ch, "ConsentRegistered", x)}}
  \cup {<<[event |-> "ConsentRegistered", id |-> c], [event |-> "ConsentRevoked", id |-> c]>> :
          c \in {x \in Consent : ~Happened(ch, "ConsentRegistered", x)}}
  \cup {<<[event |-> "ConsentRevoked", id |-> c]>> :
          c \in {x \in Consent : /\ Happened(ch, "ConsentRegistered", x)
                                 /\ ~Happened(ch, "ConsentRevoked", x)}}

Mine(ch) ==
  /\ Len(chain[ch]) < MaxBlock[ch]
  /\ \E b \in Blocks(ch) : chain' = [chain EXCEPT ![ch] = Append(@, b)]
  /\ UNCHANGED <<up, starts, backfill, redis, pc, locals, cache, history>>

\* The logs of a block that the query matches.
matching(block) ==
  FlattenSeq([i \in DOMAIN block |->
                IF Emitted[block[i].event] \in Watched THEN <<block[i]>> ELSE << >>])

\* What FilterLogs returns for blocks first to last.
FilterLogs(ch, first, last) ==
  LET blocks == SubSeq(chain[ch], first, IF last < Len(chain[ch]) THEN last ELSE Len(chain[ch]))
  IN  FlattenSeq([b \in DOMAIN blocks |-> matching(blocks[b])])

(* Redis drops an entry at the end of its TTL (24 hours). *)
Expire(ch) ==
  /\ \E c \in cache[ch] : cache' = [cache EXCEPT ![ch] = @ \ {c}]
  /\ UNCHANGED <<chain, up, starts, backfill, redis, pc, locals, history>>

-----------------------------------------------------------------------------
Init ==
  /\ chain = [ch \in Chain |-> << >>]
  /\ up = FALSE /\ starts = 0 /\ backfill = 0 /\ redis = FALSE
  /\ pc = [ch \in Chain |-> "off"]
  /\ lastBlock = [ch \in Chain |-> 0]
  /\ from = [ch \in Chain |-> 0]
  /\ toBlock = [ch \in Chain |-> 0]
  /\ logs = [ch \in Chain |-> << >>]
  /\ cache = [ch \in Chain |-> {}]
  /\ start = [ch \in Chain |-> 0]
  /\ processed = [ch \in Chain |-> << >>]
  /\ lost = [ch \in Chain |-> {}]
  /\ failed = {}

(* main: the clients, then one goroutine per configured chain. *)
Start ==
  /\ ~up /\ starts < MaxStarts
  /\ up' = TRUE /\ starts' = starts + 1
  /\ backfill' \in BackfillFrom
  /\ redis' \in (IF "redis" \in Failures THEN BOOLEAN ELSE {TRUE})
  /\ pc' = [ch \in Chain |-> "connect"]
  /\ UNCHANGED <<chain, locals, cache, history>>

\* All that the process keeps is in its memory.
Forget ==
  /\ backfill' = 0 /\ redis' = FALSE
  /\ lastBlock' = [ch \in Chain |-> 0]
  /\ from' = [ch \in Chain |-> 0]
  /\ toBlock' = [ch \in Chain |-> 0]
  /\ logs' = [ch \in Chain |-> << >>]
  /\ start' = [ch \in Chain |-> 0]
  /\ processed' = [ch \in Chain |-> << >>]
  /\ lost' = [ch \in Chain |-> {}]
  /\ failed' = {}

(* The end of main, or of the process.  The cancelled context fails every    *)
(* call a listener still makes or waits for, so its batch is abandoned.      *)
Stop ==
  /\ up /\ "stop" \in Failures
  /\ up' = FALSE
  /\ pc' = [ch \in Chain |-> "off"]
  /\ Forget
  /\ UNCHANGED <<chain, starts, cache>>

(* listenChain, up to the loop of startEventListener: a failed dial ends the *)
(* listener for good; a failed BlockNumber starts it at block 0.             *)
listenChain(ch) ==
  /\ pc[ch] = "connect"
  /\ \/ /\ "dial" \in Failures
        /\ pc' = [pc EXCEPT ![ch] = "gone"]
        /\ UNCHANGED <<lastBlock, start>>
     \/ \E b \in IF backfill > 0 THEN {backfill}
                 ELSE {Len(chain[ch])} \cup (IF "blockNumber" \in Failures THEN {0} ELSE {}) :
          /\ lastBlock' = [lastBlock EXCEPT ![ch] = b]
          /\ start' = [start EXCEPT ![ch] = b]
          /\ pc' = [pc EXCEPT ![ch] = "poll"]
  /\ UNCHANGED <<chain, up, starts, backfill, redis, from, toBlock, logs, cache, processed, lost, failed>>

(* One tick of the poll loop that finds new blocks.  A failed BlockNumber, or *)
(* no new block, changes nothing.                                             *)
Poll(ch) ==
  /\ pc[ch] = "poll"
  /\ Len(chain[ch]) > lastBlock[ch]
  /\ from' = [from EXCEPT ![ch] = lastBlock[ch] + 1]
  /\ toBlock' = [toBlock EXCEPT ![ch] = Len(chain[ch])]
  /\ pc' = [pc EXCEPT ![ch] = "filter"]
  /\ UNCHANGED <<chain, up, starts, backfill, redis, lastBlock, logs, cache, history>>

batchSize == IF backfill > 0 THEN BackfillBatchSize ELSE BatchSize

\* The last block of the batch that begins at from.
To(ch) == IF from[ch] + batchSize - 1 > toBlock[ch] THEN toBlock[ch] ELSE from[ch] + batchSize - 1

\* The end of the batch loop's body: the next batch, or lastBlock = toBlock.
FaultNextBatch(ch) ==
  LET next == from[ch] + batchSize IN
  IF next < toBlock[ch]
  THEN /\ from' = [from EXCEPT ![ch] = next]
       /\ pc' = [pc EXCEPT ![ch] = "filter"]
       /\ UNCHANGED lastBlock
  ELSE /\ lastBlock' = [lastBlock EXCEPT ![ch] = toBlock[ch]]
       /\ pc' = [pc EXCEPT ![ch] = "poll"]
       /\ UNCHANGED from

FaultNextBatchOver(ch) ==
  LET next == from[ch] + batchSize IN
  IF next <= toBlock[ch] + 1
  THEN /\ from' = [from EXCEPT ![ch] = next]
       /\ pc' = [pc EXCEPT ![ch] = "filter"]
       /\ UNCHANGED lastBlock
  ELSE /\ lastBlock' = [lastBlock EXCEPT ![ch] = toBlock[ch]]
       /\ pc' = [pc EXCEPT ![ch] = "poll"]
       /\ UNCHANGED from

FaultNextBatchRereads(ch) ==
  LET next == from[ch] + batchSize IN
  IF next <= toBlock[ch]
  THEN /\ from' = [from EXCEPT ![ch] = next]
       /\ pc' = [pc EXCEPT ![ch] = "filter"]
       /\ UNCHANGED lastBlock
  ELSE /\ pc' = [pc EXCEPT ![ch] = "poll"]
       /\ UNCHANGED <<from, lastBlock>>

NextBatch(ch) ==
  LET next == from[ch] + batchSize IN
  IF next <= toBlock[ch]
  THEN /\ from' = [from EXCEPT ![ch] = next]
       /\ pc' = [pc EXCEPT ![ch] = "filter"]
       /\ UNCHANGED lastBlock
  ELSE /\ lastBlock' = [lastBlock EXCEPT ![ch] = toBlock[ch]]
       /\ pc' = [pc EXCEPT ![ch] = "poll"]
       /\ UNCHANGED from

FilterSucceeds(ch) ==
  LET ls == FilterLogs(ch, from[ch], To(ch)) IN
  /\ pc[ch] = "filter"
  /\ logs' = [logs EXCEPT ![ch] = ls]
  /\ IF ls = << >>
     THEN NextBatch(ch)
     ELSE pc' = [pc EXCEPT ![ch] = "process"] /\ UNCHANGED <<from, lastBlock>>
  /\ UNCHANGED <<chain, up, starts, backfill, redis, toBlock, cache, history>>

(* The error is logged and the loop continues with the next batch; lastBlock *)
(* moves past the failed one all the same.                                   *)
FilterFails(ch) ==
  /\ pc[ch] = "filter" /\ "filterLogs" \in Failures
  /\ lost' = [lost EXCEPT ![ch] = @ \cup from[ch] .. To(ch)]
  /\ NextBatch(ch)
  /\ UNCHANGED <<chain, up, starts, backfill, redis, toBlock, logs, cache, start, processed, failed>>

FaultHandleRevoked(ch, c) == UNCHANGED cache

handleConsentRegistered(ch, c) == cache' = [cache EXCEPT ![ch] = @ \cup {c}]

handleConsentRevoked(ch, c) == cache' = [cache EXCEPT ![ch] = @ \ {c}]

\* No listener waits for Qdrant with the handler's mutex held.
MutexFree == \A ch \in Chain : pc[ch] # "stuck"

(* processEventLog, under the handler's mutex: one Redis call on a key of     *)
(* this chain, whose failure is logged and forgotten.                         *)
processEventLog(ch) ==
  LET l == Head(logs[ch]) IN
  /\ pc[ch] = "process" /\ MutexFree
  /\ \/ /\ redis
        /\ IF l.event = "ConsentRegistered"
           THEN handleConsentRegistered(ch, l.id)
           ELSE handleConsentRevoked(ch, l.id)
        /\ UNCHANGED failed
     \/ /\ "redis" \in Failures
        /\ failed' = failed \cup {ch}
        /\ UNCHANGED cache
  /\ processed' = [processed EXCEPT ![ch] = Append(@, l)]
  /\ logs' = [logs EXCEPT ![ch] = Tail(@)]
  /\ IF Len(logs[ch]) = 1 THEN NextBatch(ch) ELSE UNCHANGED <<from, lastBlock, pc>>
  /\ UNCHANGED <<chain, up, starts, backfill, redis, toBlock, start, lost>>

Hang(ch, pcs, there) ==
  /\ "hang" \in Failures /\ pc[ch] \in pcs
  /\ pc' = [pc EXCEPT ![ch] = there]
  /\ UNCHANGED <<chain, up, starts, backfill, redis, locals, cache, history>>

(* The calls of the RPC endpoint have no deadline: one that never returns ends *)
(* the listener's work until the process stops, and so does an endpoint whose  *)
(* BlockNumber fails at every tick from here on.                               *)
HangInRPC(ch) == Hang(ch, {"connect", "poll", "filter"}, "hung")

(* Nor has the Qdrant call of handleConsentRevoked, which holds the mutex.     *)
HangInQdrant(ch) ==
  /\ Hang(ch, {"process"}, "stuck")
  /\ MutexFree /\ Head(logs[ch]).event = "ConsentRevoked"

Listener(ch) ==
  \/ listenChain(ch) \/ Poll(ch) \/ FilterSucceeds(ch) \/ FilterFails(ch) \/ processEventLog(ch)

Next ==
  \/ Start \/ Stop
  \/ \E ch \in Chain : Listener(ch) \/ HangInRPC(ch) \/ HangInQdrant(ch) \/ Mine(ch) \/ Expire(ch)

Spec == Init /\ [][Next]_vars

(* main is started, and a listener whose calls return keeps being scheduled   *)
(* and its ticker fires again.  Nothing is assumed of the calls: each may fail *)
(* if Failures names it, and with "hang" each may also never return, which no  *)
(* fairness excludes.                                                          *)
FairSpec == Spec /\ WF_vars(Start) /\ \A ch \in Chain : WF_vars(Listener(ch))

-----------------------------------------------------------------------------
(* Every variable has its type, and a batch lies in the range being read.    *)
TypeOK ==
  /\ \A ch \in Chain : \A i \in 1..Len(chain[ch]) : chain[ch][i] \in Seq(Log)
  /\ up \in BOOLEAN /\ redis \in BOOLEAN
  /\ starts \in 0..MaxStarts /\ backfill \in Nat
  /\ pc \in [Chain -> {"off", "connect", "poll", "filter", "process", "gone", "hung", "stuck"}]
  /\ cache \in [Chain -> SUBSET Consent]
  /\ \A ch \in Chain :
       /\ (pc[ch] \in {"filter", "process"}) =>
            lastBlock[ch] < from[ch] /\ from[ch] <= To(ch) /\ toBlock[ch] <= Len(chain[ch])
       /\ (pc[ch] = "process") => up /\ logs[ch] # << >>

\* The last block whose logs were fetched, or given up, in this run.
Reached(ch) ==
  CASE pc[ch] = "poll" -> lastBlock[ch]
    [] pc[ch] = "filter" -> from[ch] - 1
    [] pc[ch] = "process" -> To(ch)
    [] OTHER -> start[ch]

Listening(ch) == pc[ch] \in {"poll", "filter", "process"}

(* A run reads every block above its start once and in order: the logs it    *)
(* applied, followed by those it fetched and has yet to apply, are the       *)
(* matching logs of the blocks from start + 1 to where it is, without the    *)
(* blocks whose FilterLogs failed.  The blocks in start and below it are not *)
(* read, BackfillFromBlock itself included (startEventListener).             *)
ReadsInOrder ==
  \A ch \in Chain : Listening(ch) =>
    LET read == [b \in 1..Len(chain[ch]) |->
                   IF b > start[ch] /\ b <= Reached(ch) /\ b \notin lost[ch]
                   THEN FilterLogs(ch, b, b) ELSE << >>]
    IN  processed[ch] \o (IF pc[ch] = "process" THEN logs[ch] ELSE << >>) = FlattenSeq(read)

\* c was revoked on ch in a block that the run has read.
RevocationRead(ch, c) ==
  \E b \in 1..Len(chain[ch]) :
     /\ b > start[ch] /\ b <= lastBlock[ch]
     /\ Contains(chain[ch][b], [event |-> "ConsentRevoked", id |-> c])

(* A listener between two ticks, in a run in which neither FilterLogs nor    *)
(* Redis failed, leaves no entry for a consent whose revocation lies in the  *)
(* blocks of this run, even when a backfill has written that entry again.    *)
NoRevokedEntry ==
  \A ch \in Chain :
    (pc[ch] = "poll" /\ redis /\ lost[ch] = {} /\ ch \notin failed) =>
       \A c \in cache[ch] : ~RevocationRead(ch, c)

\* It has a log to apply, and another listener waits for Qdrant with the mutex held.
Blocked(ch) == pc[ch] = "process" /\ ~MutexFree

(* A listener gets past every block, however often FilterLogs and Redis fail, *)
(* unless the process stops, one of its own calls never returns (or           *)
(* BlockNumber fails from then on), or the Qdrant call of another listener    *)
(* keeps the mutex: no failed batch is tried for ever, no range is read again *)
(* and no other listener's RPC call holds it up (startEventListener).         *)
EveryBlockPassed ==
  \A ch \in Chain : \A b \in 1..MaxBlock[ch] :
    (Listening(ch) /\ Len(chain[ch]) >= b) ~> (~Listening(ch) \/ Blocked(ch) \/ lastBlock[ch] >= b)

(* docs/ARCHITECTURE.md: the indexer parses the ConsentRegistry events of    *)
(* all configured chains.  A listener that is past a block, in a run without *)
(* failures, has applied the registry's logs of that block.                  *)
RegistryEventsParsed ==
  \A ch \in Chain :
    (pc[ch] = "poll" /\ lost[ch] = {}) =>
       \A b \in 1..Len(chain[ch]) : b > start[ch] /\ b <= lastBlock[ch] =>
          \A i \in 1..Len(chain[ch][b]) : Contains(processed[ch], chain[ch][b][i])
=============================================================================
