-------------------------- MODULE ZkServiceProofs --------------------------
(***************************************************************************)
(* Proofs about ZkService for any circuits, inputs, requests and failures. *)
(*                                                                         *)
(* A request that is alone in its directory finds there what it wrote      *)
(* itself: Own says what that is at each piece of its work, and Apart that *)
(* nobody else can have written since.                                     *)
(***************************************************************************)
EXTENDS ZkService, TLAPS

TasksOf(op) ==
  IF op = "generate"
  THEN {"write toml", "fill toml", "execute", "prove", "empty proof", "store proof", "read proof"}
  ELSE {"write proof", "fill proof", "verify"}

AnyRequest ==
  [op : Op \cup {None}, circuit : Circuit \cup {None}, input : Input \cup {None},
   pc : {"new", "await", "done", "failed", "gone"}, shared : BOOLEAN, hit : BOOLEAN,
   answer : Input \cup {Empty, None} \cup BOOLEAN]

AnyWork ==
  [task : TasksOf("generate") \cup TasksOf("verify") \cup {"none"}, seen : Input \cup {Empty, None}]

Types ==
  /\ proverToml \in [Circuit -> Input \cup {Empty}]
  /\ proofFile \in [Op \X Circuit -> Input \cup {Empty}]
  /\ req \in [Request -> AnyRequest]
  /\ work \in [Request -> AnyWork]

\* A handler waits for work of its own kind; without a handler that waits or
\* was dropped there is none.
Waits(r) ==
  /\ req[r].pc = "new" => req[r].input = None
  /\ req[r].pc = "await" => work[r].task # "none"
  /\ req[r].pc \in {"new", "done", "failed"} => work[r].task = "none"
  /\ work[r].task # "none" =>
       /\ req[r].op \in Op /\ req[r].circuit \in Circuit /\ req[r].input \in Input
       /\ work[r].task \in TasksOf(req[r].op)
  /\ work[r].task \in {"empty proof", "store proof"} => work[r].seen \in Satisfying

\* Work in one directory for two requests is known to both.
Apart ==
  \A q, r \in Request :
    (q # r /\ work[q].task # "none" /\ work[r].task # "none" /\ Dir(q) = Dir(r)) =>
       req[q].shared

\* The answer a request had, or why it failed.
Ends(x) ==
  /\ (x.op = "generate" /\ x.pc = "done") => (x.answer = x.input /\ x.input \in Satisfying)
  /\ (x.op = "verify" /\ x.pc = "done" /\ x.answer) => x.input \in Accepted
  /\ (x.op = "generate" /\ x.pc = "failed" /\ ~x.hit) => x.input \notin Satisfying

\* What a request that is alone has found or will find in its directory.
Own(r) ==
  Alone(r) =>
    /\ work[r].task \in {"execute", "prove"} => proverToml[req[r].circuit] = req[r].input
    /\ work[r].task \in {"prove", "empty proof", "store proof", "read proof"} =>
         req[r].input \in Satisfying
    /\ work[r].task \in {"empty proof", "store proof"} => work[r].seen = req[r].input
    /\ work[r].task \in {"read proof", "verify"} => proofFile[Dir(r)] = req[r].input
    /\ Ends(req[r])

ServiceInv ==
  /\ Types
  /\ \A r \in Request : Waits(r)
  /\ Apart
  /\ \A r \in Request : Own(r)

-----------------------------------------------------------------------------
SameRequest(r) ==
  /\ req'[r].op = req[r].op /\ req'[r].circuit = req[r].circuit
  /\ req'[r].input = req[r].input /\ req'[r].shared = req[r].shared

\* What every step of a request's work leaves as it was.
Stays(r) ==
  /\ req' \in [Request -> AnyRequest] /\ work' \in [Request -> AnyWork]
  /\ \A q \in Request \ {r} : req'[q] = req[q] /\ work'[q] = work[q]
  /\ SameRequest(r)

\* A step writes at most in the request's own directory.
WritesOwn(r) ==
  /\ proverToml' \in [Circuit -> Input \cup {Empty}]
  /\ proofFile' \in [Op \X Circuit -> Input \cup {Empty}]
  /\ \A c \in Circuit : proverToml'[c] # proverToml[c] =>
       work[r].task # "none" /\ Dir(r) = <<"generate", c>>
  /\ \A d \in Op \X Circuit : proofFile'[d] # proofFile[d] => work[r].task # "none" /\ d = Dir(r)

\* A step of one request does not disturb the others that are alone.
LEMMA OthersKept ==
  ASSUME ServiceInv, NEW r \in Request, Stays(r), WritesOwn(r),
         work'[r].task # "none" => work[r].task # "none",
         Waits(r)', Own(r)'
  PROVE  ServiceInv'
<1>1. Types'
  BY DEF Stays, SameRequest, WritesOwn, Types
<1>2. \A q \in Request : Dir(q)' = Dir(q) /\ req'[q].shared = req[q].shared
  BY DEF Stays, SameRequest, Dir
<1>3. \A q \in Request : work'[q].task # "none" => work[q].task # "none"
  BY DEF Stays, SameRequest
<1>4. Apart'
  BY <1>2, <1>3 DEF ServiceInv, Apart
<1>5. \A q \in Request : Waits(q)'
  BY DEF ServiceInv, Stays, SameRequest, Waits
<1>6. ASSUME NEW q \in Request, q # r PROVE Own(q)'
  <2>1. req'[q] = req[q] /\ work'[q] = work[q]
    BY <1>6 DEF Stays, SameRequest
  <2> SUFFICES ASSUME Alone(q) PROVE Own(q)'
    BY <2>1 DEF Own, Alone
  <2>2. work[r].task # "none" /\ work[q].task # "none" => Dir(q) # Dir(r)
    BY <1>6 DEF ServiceInv, Apart, Alone
  <2>3. ASSUME work[q].task \in {"execute", "prove"}
        PROVE  proverToml'[req[q].circuit] = proverToml[req[q].circuit]
    <3>1. req[q].op = "generate" /\ req[q].circuit \in Circuit
      BY <2>3 DEF ServiceInv, Waits, TasksOf, Op
    <3> QED BY <2>2, <2>3, <3>1 DEF WritesOwn, Dir
  <2>4. ASSUME work[q].task \in {"read proof", "verify"}
        PROVE  proofFile'[Dir(q)] = proofFile[Dir(q)]
    <3>1. Dir(q) \in Op \X Circuit
      BY <2>4 DEF ServiceInv, Waits, Dir
    <3> QED BY <2>2, <2>4, <3>1 DEF WritesOwn
  <2>5. Own(q)
    BY DEF ServiceInv
  <2> QED BY <1>2, <2>1, <2>3, <2>4, <2>5 DEF Own, Alone
<1> QED BY <1>1, <1>4, <1>5, <1>6 DEF ServiceInv

\* The four ways in which a piece of work ends.
LEMMA Continues ==
  ASSUME Types, NEW r \in Request, NEW next, NEW x, [task |-> next, seen |-> x] \in AnyWork,
         Continue(r, next, x)
  PROVE  Stays(r) /\ req'[r] = req[r] /\ work'[r].task = next /\ work'[r].seen = x
BY DEF Continue, Stays, SameRequest, Types

LEMMA Endings ==
  ASSUME Types, NEW r \in Request, NEW ok, NEW next, [task |-> next, seen |-> None] \in AnyWork,
         Ended(r, ok, next)
  PROVE  /\ Stays(r)
         /\ \/ req[r].pc = "await" /\ ok /\ work'[r].task = next /\ req'[r] = req[r]
            \/ req[r].pc = "await" /\ ~ok /\ work'[r].task = "none"
               /\ req'[r].pc = "failed" /\ req'[r].hit = req[r].hit
            \/ req[r].pc # "await" /\ work'[r].task = "none" /\ req'[r] = req[r]
<1>1. NoWork \in AnyWork /\ NoWork.task = "none"
  BY DEF NoWork, AnyWork
<1>2. [req[r] EXCEPT !.pc = "failed"] \in AnyRequest
  BY DEF Types, AnyRequest
<1>3. req[r] \in AnyRequest
  BY DEF Types
<1>4. CASE req[r].pc = "await" /\ ok
  BY <1>4 DEF Ended, Stays, SameRequest, Types
<1>5. CASE ~(req[r].pc = "await" /\ ok)
  <2>1. work' = [work EXCEPT ![r] = NoWork]
        /\ req' = [req EXCEPT ![r].pc = IF @ = "await" THEN "failed" ELSE @]
    BY <1>5 DEF Ended
  <2>2. CASE req[r].pc = "await"
    BY <1>1, <1>2, <1>5, <2>1, <2>2 DEF Stays, SameRequest, Types, AnyRequest
  <2>3. CASE req[r].pc # "await"
    BY <1>1, <1>3, <2>1, <2>3 DEF Stays, SameRequest, Types, AnyRequest
  <2> QED BY <2>2, <2>3
<1> QED BY <1>4, <1>5

LEMMA Failing ==
  ASSUME Types, NEW r \in Request, Fails(r)
  PROVE  /\ Stays(r) /\ work'[r] = NoWork
         /\ \/ req[r].pc = "await" /\ req'[r].pc = "failed" /\ req'[r].hit
            \/ req[r].pc # "await" /\ req'[r] = req[r]
<1>1. NoWork \in AnyWork /\ req[r] \in AnyRequest
  BY DEF NoWork, AnyWork, Types
<1>2. [req[r] EXCEPT !.pc = "failed", !.hit = TRUE] \in AnyRequest
  BY <1>1 DEF AnyRequest
<1>3. work' = [work EXCEPT ![r] = NoWork]
  BY DEF Fails
<1>4. req' = [req EXCEPT ![r] = IF req[r].pc = "await"
                                THEN [req[r] EXCEPT !.pc = "failed", !.hit = TRUE] ELSE req[r]]
  BY DEF Fails
<1> QED BY <1>1, <1>2, <1>3, <1>4 DEF Stays, SameRequest, Types, AnyRequest

LEMMA Answering ==
  ASSUME Types, NEW r \in Request, NEW a \in Input \cup {Empty, None} \cup BOOLEAN, Answer(r, a)
  PROVE  /\ Stays(r) /\ work'[r] = NoWork
         /\ \/ req[r].pc = "await" /\ req'[r].pc = "done" /\ req'[r].answer = a
            \/ req[r].pc # "await" /\ req'[r] = req[r]
<1>1. NoWork \in AnyWork /\ req[r] \in AnyRequest
  BY DEF NoWork, AnyWork, Types
<1>2. [req[r] EXCEPT !.pc = "done", !.answer = a] \in AnyRequest
  BY <1>1 DEF AnyRequest
<1>3. work' = [work EXCEPT ![r] = NoWork]
  BY DEF Answer
<1>4. req' = [req EXCEPT ![r] = IF req[r].pc = "await"
                                THEN [req[r] EXCEPT !.pc = "done", !.answer = a] ELSE req[r]]
  BY DEF Answer
<1> QED BY <1>1, <1>2, <1>3, <1>4 DEF Stays, SameRequest, Types, AnyRequest

\* What is known of a request while a piece of work is done for it.
LEMMA Working ==
  ASSUME ServiceInv, NEW r \in Request, work[r].task # "none"
  PROVE  /\ req[r].pc \in {"await", "gone"} /\ req[r].input \in Input
         /\ req[r].circuit \in Circuit /\ Dir(r) \in Op \X Circuit
         /\ req[r].op \in Op /\ work[r].task \in TasksOf(req[r].op)
         /\ req[r].op = "generate" <=> work[r].task \in TasksOf("generate")
         /\ work[r].seen \in Input \cup {Empty, None}
<1>1. Waits(r) /\ req[r] \in AnyRequest /\ work[r] \in AnyWork
  BY DEF ServiceInv, Types
<1> QED BY <1>1 DEF Waits, AnyRequest, AnyWork, Dir, TasksOf, Op

\* A failure ends the request, whatever it had done so far.
LEMMA FailsStep ==
  ASSUME ServiceInv, NEW r \in Request, work[r].task # "none", Fails(r),
         UNCHANGED <<proverToml, proofFile>>
  PROVE  ServiceInv'
<1>1. Types
  BY DEF ServiceInv
<1>2. /\ Stays(r) /\ work'[r] = NoWork
      /\ \/ req[r].pc = "await" /\ req'[r].pc = "failed" /\ req'[r].hit
         \/ req[r].pc # "await" /\ req'[r] = req[r]
  BY <1>1, Failing
<1>3. Own(r) /\ req[r].pc \in {"await", "gone"} /\ req[r] \in AnyRequest
  BY <1>1, Working DEF ServiceInv, Types
<1>4. SameRequest(r) /\ work'[r].task = "none"
  BY <1>2 DEF Stays, SameRequest, NoWork
<1>5. Waits(r)'
  BY <1>2, <1>3, <1>4 DEF Waits
<1>7. Own(r)'
  <2> SUFFICES ASSUME Alone(r), Ends(req[r]) PROVE Ends(req'[r])
    BY <1>3, <1>4 DEF Own, Alone, SameRequest
  <2> QED BY <1>2, <1>3, <1>4 DEF Ends, SameRequest
<1>6. WritesOwn(r)
  BY <1>1 DEF WritesOwn, Types
<1> QED BY <1>2, <1>4, <1>5, <1>6, <1>7, OthersKept

\* The handler's next piece of work, with what the last one left for it.
LEMMA EndedStep ==
  ASSUME ServiceInv, NEW r \in Request, work[r].task # "none", NEW ok, NEW next,
         Ended(r, ok, next), WritesOwn(r),
         next \in TasksOf(req[r].op) \ {"empty proof", "store proof"},
         Alone(r) /\ ok =>
           /\ next \in {"execute", "prove"} => proverToml'[req[r].circuit] = req[r].input
           /\ next \in {"prove", "read proof"} => req[r].input \in Satisfying
           /\ next \in {"read proof", "verify"} => proofFile'[Dir(r)] = req[r].input,
         Alone(r) /\ ~ok => req[r].input \notin Satisfying
  PROVE  ServiceInv'
<1>1. Types
  BY DEF ServiceInv
<1>2. /\ req[r].pc \in {"await", "gone"} /\ req[r].input \in Input /\ req[r].circuit \in Circuit
      /\ req[r].op \in Op /\ req[r] \in AnyRequest /\ Own(r)
  BY <1>1, Working DEF ServiceInv, Types
<1>3. next \in TasksOf("generate") \cup TasksOf("verify") /\ next # "none"
  BY <1>2 DEF TasksOf, Op
<1>4. [task |-> next, seen |-> None] \in AnyWork
  BY <1>3 DEF AnyWork
<1>5. /\ Stays(r)
      /\ \/ req[r].pc = "await" /\ ok /\ work'[r].task = next /\ req'[r] = req[r]
         \/ req[r].pc = "await" /\ ~ok /\ work'[r].task = "none"
            /\ req'[r].pc = "failed" /\ req'[r].hit = req[r].hit
         \/ req[r].pc # "await" /\ work'[r].task = "none" /\ req'[r] = req[r]
  BY <1>1, <1>4, Endings
<1>8. SameRequest(r)
  BY <1>5 DEF Stays
<1>6. Waits(r)'
  <2>1. work'[r].task # "none" => work'[r].task \in TasksOf(req'[r].op)
    BY <1>8, <1>5 DEF SameRequest
  <2>2. work'[r].task \notin {"empty proof", "store proof"}
    BY <1>5
  <2> QED BY <1>2, <1>3, <1>8, <1>5, <2>1, <2>2 DEF Waits, SameRequest
<1>7. Own(r)'
  <2>1. Dir(r)' = Dir(r) /\ (Alone(r)' <=> Alone(r))
    BY <1>8 DEF SameRequest, Dir, Alone
  <2> SUFFICES ASSUME Alone(r) PROVE Own(r)'
    BY <2>1 DEF Own
  <2>2. Ends(req[r])
    BY <1>2 DEF Own
  <2>3. Ends(req'[r])
    BY <1>2, <1>5, <1>8, <2>2 DEF Ends, SameRequest
  <2> QED BY <1>2, <1>5, <1>8, <2>1, <2>3 DEF Own, SameRequest
<1> QED BY <1>5, <1>6, <1>7, OthersKept

\* The same piece of work goes on, whether a handler waits for it or not.
LEMMA ContinueStep ==
  ASSUME ServiceInv, NEW r \in Request, work[r].task # "none", NEW next, NEW x,
         Continue(r, next, x), WritesOwn(r),
         next \in TasksOf(req[r].op) \ {"execute", "prove", "read proof", "verify"},
         x \in Input \cup {Empty, None},
         next \in {"empty proof", "store proof"} =>
           x \in Satisfying /\ (Alone(r) => x = req[r].input /\ req[r].input \in Satisfying)
  PROVE  ServiceInv'
<1>1. Types
  BY DEF ServiceInv
<1>2. /\ req[r].pc \in {"await", "gone"} /\ req[r].input \in Input /\ req[r].circuit \in Circuit
      /\ req[r].op \in Op /\ Own(r)
  BY <1>1, Working DEF ServiceInv
<1>3. next \in TasksOf("generate") \cup TasksOf("verify") /\ next # "none"
  BY <1>2 DEF TasksOf, Op
<1>4. [task |-> next, seen |-> x] \in AnyWork
  BY <1>3 DEF AnyWork
<1>5. Stays(r) /\ req'[r] = req[r] /\ work'[r].task = next /\ work'[r].seen = x
  BY <1>1, <1>4, Continues
<1>6. Waits(r)'
  BY <1>2, <1>3, <1>5 DEF Waits
<1>7. Own(r)'
  BY <1>2, <1>5 DEF Own, Alone
<1> QED BY <1>5, <1>6, <1>7, OthersKept

\* The last piece of work gives the answer, if the handler still waits.
LEMMA AnswerStep ==
  ASSUME ServiceInv, NEW r \in Request, work[r].task # "none",
         NEW a \in Input \cup {Empty, None} \cup BOOLEAN, Answer(r, a),
         UNCHANGED <<proverToml, proofFile>>,
         Alone(r) /\ req[r].op = "generate" => a = req[r].input /\ req[r].input \in Satisfying,
         Alone(r) /\ req[r].op = "verify" /\ a => req[r].input \in Accepted
  PROVE  ServiceInv'
<1>1. Types
  BY DEF ServiceInv
<1>2. /\ Stays(r) /\ work'[r] = NoWork
      /\ \/ req[r].pc = "await" /\ req'[r].pc = "done" /\ req'[r].answer = a
         \/ req[r].pc # "await" /\ req'[r] = req[r]
  BY <1>1, Answering
<1>3. Own(r) /\ req[r].pc \in {"await", "gone"}
  BY <1>1, Working DEF ServiceInv
<1>4. SameRequest(r) /\ work'[r].task = "none"
  BY <1>2 DEF Stays, NoWork
<1>5. Waits(r)'
  BY <1>2, <1>3, <1>4 DEF Waits
<1>6. Own(r)'
  <2> SUFFICES ASSUME Alone(r), Ends(req[r]) PROVE Ends(req'[r])
    BY <1>3, <1>4 DEF Own, Alone, SameRequest
  <2> QED BY <1>2, <1>3, <1>4 DEF Ends, SameRequest
<1>7. WritesOwn(r)
  BY <1>1 DEF WritesOwn, Types
<1> QED BY <1>2, <1>4, <1>5, <1>6, <1>7, OthersKept

\* Refuse and Disconnect: the request ends, its work, if any, goes on.
LEMMA LeavesStep ==
  ASSUME ServiceInv, NEW r \in Request, Refuse(r) \/ Disconnect(r)
  PROVE  ServiceInv'
<1>1. Types /\ req[r] \in AnyRequest /\ work[r] \in AnyWork /\ Own(r) /\ Waits(r)
  BY DEF ServiceInv, Types
<1>2. UNCHANGED <<proverToml, proofFile, work>>
  BY DEF Refuse, Disconnect
<1>3. PICK pc \in {"failed", "gone"} :
        /\ req' = [req EXCEPT ![r] = [req[r] EXCEPT !.pc = pc]]
        /\ pc = "failed" <=> req[r].pc = "new"
        /\ pc = "gone" <=> req[r].pc = "await"
  BY DEF Refuse, Disconnect
<1>7. [req[r] EXCEPT !.pc = pc] \in AnyRequest
  BY <1>1 DEF AnyRequest
<1>8. /\ Stays(r) /\ req'[r].pc = pc
      /\ req'[r].answer = req[r].answer /\ req'[r].hit = req[r].hit
  BY <1>1, <1>2, <1>3, <1>7 DEF Stays, SameRequest, Types, AnyRequest
<1>4. Waits(r)'
  BY <1>1, <1>2, <1>3, <1>8 DEF Waits, Stays, SameRequest
<1>5. Own(r)'
  <2>1. Ends(req[r]) => Ends(req'[r])
    BY <1>1, <1>3, <1>8, ServiceAssumption DEF Ends, Stays, SameRequest, Waits
  <2>2. Dir(r)' = Dir(r) /\ (Alone(r)' <=> Alone(r)) /\ req'[r].circuit = req[r].circuit
        /\ req'[r].input = req[r].input
    BY <1>8 DEF Stays, SameRequest, Dir, Alone
  <2> QED BY <1>1, <1>2, <2>1, <2>2 DEF Own
<1>6. WritesOwn(r)
  BY <1>1, <1>2 DEF WritesOwn, Types
<1> QED BY <1>2, <1>4, <1>5, <1>6, <1>8, OthersKept

\* generate_proof and verify_proof: whoever is busy in the directory now shares it.
LEMMA AcceptStep ==
  ASSUME ServiceInv, NEW r \in Request, NEW op \in Op, NEW c \in Circuit, NEW x \in Input,
         NEW task \in TasksOf(op) \cap {"write toml", "write proof"}, Accept(r, op, c, x, task)
  PROVE  ServiceInv'
<1> DEFINE others == {q \in Request : Busy(q) /\ Dir(q) = <<op, c>>}
           new == [op |-> op, circuit |-> c, input |-> x, pc |-> "await",
                   shared |-> others # {}, hit |-> FALSE, answer |-> None]
<1>1. Types /\ req[r].pc = "new" /\ work[r].task = "none"
  BY DEF ServiceInv, Waits, Accept
<1>2. /\ req' = [q \in Request |->
            CASE q = r -> new
              [] q \in others -> [req[q] EXCEPT !.shared = TRUE]
              [] OTHER -> req[q]]
      /\ work' = [work EXCEPT ![r] = [task |-> task, seen |-> None]]
      /\ UNCHANGED <<proverToml, proofFile>>
  BY DEF Accept
<1>3. r \notin others
  BY <1>1 DEF Busy
<1>4. new \in AnyRequest /\ [task |-> task, seen |-> None] \in AnyWork
  BY DEF AnyRequest, AnyWork, TasksOf, Op
<1> HIDE DEF new, others
<1>5. ASSUME NEW q \in Request
      PROVE  req[q] \in AnyRequest /\ [req[q] EXCEPT !.shared = TRUE] \in AnyRequest
  <2>1. req[q] \in AnyRequest
    BY <1>1 DEF Types
  <2> QED BY <2>1 DEF AnyRequest
<1>6. req'[r] = new /\ work'[r].task = task
  BY <1>1, <1>2, <1>3 DEF Types
<1>7. ASSUME NEW q \in Request, q # r
      PROVE  /\ req'[q] \in AnyRequest /\ work'[q] = work[q]
             /\ req'[q].op = req[q].op /\ req'[q].circuit = req[q].circuit
             /\ req'[q].input = req[q].input /\ req'[q].pc = req[q].pc
             /\ req'[q].hit = req[q].hit /\ req'[q].answer = req[q].answer
             /\ req'[q].shared = (req[q].shared \/ q \in others)
  <2>1. req'[q] = IF q \in others THEN [req[q] EXCEPT !.shared = TRUE] ELSE req[q]
    BY <1>2, <1>7
  <2>2. req[q] \in AnyRequest
    BY <1>5, <1>7
  <2>3. work'[q] = work[q]
    <3>1. work' = [work EXCEPT ![r] = [task |-> task, seen |-> None]]
      BY <1>2
    <3> QED BY <1>1, <1>7, <3>1 DEF Types
  <2> QED BY <1>5, <1>7, <2>1, <2>2, <2>3, ZenonT(60) DEF AnyRequest
<1>8. /\ new.op = op /\ new.circuit = c /\ new.input = x /\ new.pc = "await"
      /\ new.shared = (others # {})
  BY DEF new
<1>9. Types'
  <2>1. req' \in [Request -> AnyRequest]
    BY <1>2, <1>4, <1>6, <1>7, ZenonT(60)
  <2>2. work' \in [Request -> AnyWork]
    BY <1>1, <1>2, <1>4 DEF Types
  <2> QED BY <1>1, <1>2, <2>1, <2>2 DEF Types
<1>10. ASSUME NEW q \in Request PROVE Waits(q)'
  <2>1. CASE q = r
    BY <1>6, <1>8, <2>1 DEF Waits, TasksOf
  <2>2. CASE q # r
    BY <1>7, <2>2, ZenonT(60) DEF ServiceInv, Waits
  <2> QED BY <2>1, <2>2
<1>11. Apart'
  <2> SUFFICES ASSUME NEW p \in Request, NEW q \in Request, p # q,
                      work'[p].task # "none", work'[q].task # "none", Dir(p)' = Dir(q)'
               PROVE  req'[p].shared
    BY DEF Apart
  <2>1. CASE p = r
    <3>1. Dir(q) = <<op, c>> /\ Busy(q)
      BY <1>6, <1>7, <1>8, <2>1 DEF Dir, Busy
    <3> QED BY <1>6, <1>8, <2>1, <3>1 DEF others
  <2>2. CASE q = r
    <3>1. Dir(p) = <<op, c>> /\ Busy(p)
      BY <1>6, <1>7, <1>8, <2>2 DEF Dir, Busy
    <3> QED BY <1>7, <2>2, <3>1 DEF others
  <2>3. CASE p # r /\ q # r
    <3>1. Dir(p) = Dir(q) /\ work[p].task # "none" /\ work[q].task # "none"
      BY <1>7, <2>3 DEF Dir
    <3> QED BY <1>7, <2>3, <3>1 DEF ServiceInv, Apart
  <2> QED BY <2>1, <2>2, <2>3
<1>12. ASSUME NEW q \in Request PROVE Own(q)'
  <2>1. CASE q = r
    <3>1. Ends(req'[r])
      BY <1>6, <1>8 DEF Ends
    <3> QED BY <1>6, <2>1, <3>1 DEF Own, TasksOf
  <2>2. CASE q # r
    <3>1. Own(q)
      BY DEF ServiceInv
    <3>2. Alone(q)' => Alone(q)
      BY <1>7, <2>2 DEF Alone
    <3>3. Ends(req[q]) => Ends(req'[q])
      BY <1>7, <2>2 DEF Ends
    <3> QED BY <1>2, <1>7, <2>2, <3>1, <3>2, <3>3 DEF Own, Dir
  <2> QED BY <2>1, <2>2
<1> QED BY <1>9, <1>10, <1>11, <1>12 DEF ServiceInv

\* The toml of the inputs: emptied, then filled.
LEMMA WriteTomlStep ==
  ASSUME ServiceInv, NEW r \in Request, WriteToml(r)
  PROVE  ServiceInv'
<1>1. work[r].task \in {"write toml", "fill toml"} /\ UNCHANGED proofFile
  BY DEF WriteToml, Doing
<1>2. /\ req[r].op = "generate" /\ req[r].circuit \in Circuit /\ req[r].input \in Input /\ Types
      /\ Dir(r) = <<"generate", req[r].circuit>>
  BY <1>1, Working DEF ServiceInv, TasksOf, Dir
<1>3. ASSUME NEW x \in Input \cup {Empty},
             proverToml' = [proverToml EXCEPT ![req[r].circuit] = x]
      PROVE  WritesOwn(r) /\ proverToml'[req[r].circuit] = x
  BY <1>1, <1>2, <1>3 DEF WritesOwn, Types
<1>4. CASE Doing(r, "write toml") /\ proverToml' = [proverToml EXCEPT ![req[r].circuit] = Empty]
           /\ Continue(r, "fill toml", None)
  <2>1. WritesOwn(r)
    BY <1>3, <1>4
  <2> QED BY <1>1, <1>2, <1>4, <2>1, ContinueStep DEF TasksOf
<1>5. CASE Doing(r, "fill toml")
           /\ proverToml' = [proverToml EXCEPT ![req[r].circuit] = req[r].input]
           /\ Ended(r, TRUE, "execute")
  <2>1. WritesOwn(r) /\ proverToml'[req[r].circuit] = req[r].input
    BY <1>2, <1>3, <1>5
  <2> QED BY <1>1, <1>2, <1>5, <2>1, EndedStep DEF TasksOf
<1>6. CASE Fails(r) /\ UNCHANGED proverToml
  BY <1>1, <1>6, FailsStep
<1> QED BY <1>4, <1>5, <1>6 DEF WriteToml

\* nargo execute succeeds on the inputs it finds: the request's own, if it is alone.
LEMMA ExecuteStep ==
  ASSUME ServiceInv, NEW r \in Request, Execute(r)
  PROVE  ServiceInv'
<1>1. work[r].task = "execute" /\ UNCHANGED <<proverToml, proofFile>>
  BY DEF Execute, Doing
<1>2. req[r].op = "generate" /\ Types /\ Own(r)
  BY <1>1, Working DEF ServiceInv, TasksOf
<1>3. Alone(r) => proverToml[req[r].circuit] = req[r].input
  BY <1>1, <1>2 DEF Own
<1>4. CASE Ended(r, proverToml[req[r].circuit] \in Satisfying, "prove")
  <2>1. WritesOwn(r)
    BY <1>1, <1>2 DEF WritesOwn, Types
  <2> QED BY <1>1, <1>2, <1>3, <1>4, <2>1, EndedStep DEF TasksOf
<1>5. CASE Fails(r)
  BY <1>1, <1>5, FailsStep
<1> QED BY <1>4, <1>5 DEF Execute

\* nargo prove: the witness, then the proof file.
LEMMA ProveStep ==
  ASSUME ServiceInv, NEW r \in Request, Prove(r)
  PROVE  ServiceInv'
<1>1. work[r].task \in {"prove", "empty proof", "store proof"} /\ UNCHANGED proverToml
  BY DEF Prove, Doing
<1>2. /\ req[r].op = "generate" /\ req[r].circuit \in Circuit /\ req[r].input \in Input
      /\ Dir(r) \in Op \X Circuit /\ Types /\ Own(r) /\ Waits(r)
  BY <1>1, Working DEF ServiceInv, TasksOf
<1>3. ASSUME NEW x \in Input \cup {Empty}, proofFile' = [proofFile EXCEPT ![Dir(r)] = x]
      PROVE  WritesOwn(r) /\ proofFile'[Dir(r)] = x
  BY <1>1, <1>2, <1>3 DEF WritesOwn, Types
<1>4. ASSUME UNCHANGED proofFile PROVE WritesOwn(r)
  BY <1>1, <1>2, <1>4 DEF WritesOwn, Types
<1>5. Satisfying \subseteq Input
  BY ServiceAssumption
<1>6. CASE Doing(r, "prove") /\ proverToml[req[r].circuit] \in Satisfying
           /\ Continue(r, "empty proof", proverToml[req[r].circuit]) /\ UNCHANGED proofFile
  <2>1. Alone(r) => proverToml[req[r].circuit] = req[r].input /\ req[r].input \in Satisfying
    BY <1>2, <1>6 DEF Own, Doing
  <2> QED BY <1>1, <1>2, <1>4, <1>5, <1>6, <2>1, ContinueStep DEF TasksOf
<1>7. CASE Doing(r, "empty proof") /\ proofFile' = [proofFile EXCEPT ![Dir(r)] = Empty]
           /\ Continue(r, "store proof", work[r].seen)
  <2>1. WritesOwn(r)
    BY <1>3, <1>7
  <2>2. /\ work[r].seen \in Satisfying
        /\ Alone(r) => work[r].seen = req[r].input /\ req[r].input \in Satisfying
    BY <1>2, <1>7 DEF Own, Waits, Doing
  <2> QED BY <1>1, <1>2, <1>5, <1>7, <2>1, <2>2, ContinueStep DEF TasksOf
<1>8. CASE Doing(r, "store proof") /\ proofFile' = [proofFile EXCEPT ![Dir(r)] = work[r].seen]
           /\ Ended(r, TRUE, "read proof")
  <2>1. /\ work[r].seen \in Satisfying
        /\ Alone(r) => work[r].seen = req[r].input /\ req[r].input \in Satisfying
    BY <1>2, <1>8 DEF Own, Waits, Doing
  <2>2. WritesOwn(r) /\ proofFile'[Dir(r)] = work[r].seen
    BY <1>3, <1>5, <1>8, <2>1
  <2> QED BY <1>1, <1>2, <1>8, <2>1, <2>2, EndedStep DEF TasksOf
<1>9. CASE Doing(r, "prove") /\ proverToml[req[r].circuit] \notin Satisfying
           /\ Ended(r, FALSE, "none") /\ UNCHANGED proofFile
  <2>1. Alone(r) => req[r].input \in Satisfying
    BY <1>2, <1>9 DEF Own, Doing
  <2>2. ~Alone(r)
    BY <1>2, <1>9, <2>1 DEF Own, Doing
  <2>3. Ended(r, FALSE, "read proof")
    BY <1>9 DEF Ended
  <2> QED BY <1>1, <1>2, <1>4, <1>9, <2>2, <2>3, EndedStep DEF TasksOf
<1>10. CASE Fails(r) /\ UNCHANGED proofFile
  BY <1>1, <1>10, FailsStep
<1> QED BY <1>6, <1>7, <1>8, <1>9, <1>10 DEF Prove

\* The answer of generate_proof is the file it reads.
LEMMA ReadProofStep ==
  ASSUME ServiceInv, NEW r \in Request, ReadProof(r)
  PROVE  ServiceInv'
<1>1. work[r].task = "read proof" /\ UNCHANGED <<proverToml, proofFile>>
  BY DEF ReadProof, Doing
<1>2. req[r].op = "generate" /\ Dir(r) \in Op \X Circuit /\ Types /\ Own(r)
  BY <1>1, Working DEF ServiceInv, TasksOf
<1>3. CASE Answer(r, proofFile[Dir(r)])
  <2>1. Alone(r) => proofFile[Dir(r)] = req[r].input /\ req[r].input \in Satisfying
    BY <1>1, <1>2 DEF Own
  <2>2. proofFile[Dir(r)] \in Input \cup {Empty}
    BY <1>2 DEF Types
  <2> QED BY <1>1, <1>2, <1>3, <2>1, <2>2, AnswerStep
<1>4. CASE Fails(r)
  BY <1>1, <1>4, FailsStep
<1> QED BY <1>3, <1>4 DEF ReadProof

\* The proof to verify: the file is emptied, then filled.
LEMMA WriteProofStep ==
  ASSUME ServiceInv, NEW r \in Request, WriteProof(r)
  PROVE  ServiceInv'
<1>1. work[r].task \in {"write proof", "fill proof"} /\ UNCHANGED proverToml
  BY DEF WriteProof, Doing
<1>2. /\ req[r].op = "verify" /\ req[r].circuit \in Circuit /\ req[r].input \in Input
      /\ Dir(r) \in Op \X Circuit /\ Types
  BY <1>1, Working DEF ServiceInv, TasksOf, Op
<1>3. ASSUME NEW x \in Input \cup {Empty}, proofFile' = [proofFile EXCEPT ![Dir(r)] = x]
      PROVE  WritesOwn(r) /\ proofFile'[Dir(r)] = x
  BY <1>1, <1>2, <1>3 DEF WritesOwn, Types
<1>4. CASE Doing(r, "write proof") /\ proofFile' = [proofFile EXCEPT ![Dir(r)] = Empty]
           /\ Continue(r, "fill proof", None)
  <2>1. WritesOwn(r)
    BY <1>3, <1>4
  <2> QED BY <1>1, <1>2, <1>4, <2>1, ContinueStep DEF TasksOf
<1>5. CASE Doing(r, "fill proof") /\ proofFile' = [proofFile EXCEPT ![Dir(r)] = req[r].input]
           /\ Ended(r, TRUE, "verify")
  <2>1. WritesOwn(r) /\ proofFile'[Dir(r)] = req[r].input
    BY <1>2, <1>3, <1>5
  <2> QED BY <1>1, <1>2, <1>5, <2>1, EndedStep DEF TasksOf
<1>6. CASE Fails(r) /\ UNCHANGED proofFile
  BY <1>1, <1>6, FailsStep
<1> QED BY <1>4, <1>5, <1>6 DEF WriteProof

\* The verdict of nargo verify on the file it finds.
LEMMA VerifyStep ==
  ASSUME ServiceInv, NEW r \in Request, Verify(r)
  PROVE  ServiceInv'
<1>1. work[r].task = "verify" /\ UNCHANGED <<proverToml, proofFile>>
  BY DEF Verify, Doing
<1>2. req[r].op = "verify" /\ Types /\ Own(r)
  BY <1>1, Working DEF ServiceInv, TasksOf, Op
<1>3. Alone(r) => proofFile[Dir(r)] = req[r].input
  BY <1>1, <1>2 DEF Own
<1>4. ASSUME NEW a \in BOOLEAN, Answer(r, a), a => proofFile[Dir(r)] \in Accepted
      PROVE  ServiceInv'
  BY <1>1, <1>2, <1>3, <1>4, AnswerStep
<1>5. CASE Fails(r)
  BY <1>1, <1>5, FailsStep
<1>6. CASE Answer(r, proofFile[Dir(r)] \in Accepted)
  <2>1. CASE proofFile[Dir(r)] \in Accepted
    <3>1. Answer(r, TRUE)
      BY <1>6, <2>1 DEF Answer
    <3> QED BY <1>4, <2>1, <3>1
  <2>2. CASE proofFile[Dir(r)] \notin Accepted
    <3>1. (proofFile[Dir(r)] \in Accepted) = FALSE
      BY <2>2
    <3>2. Answer(r, FALSE)
      BY <1>6, <3>1
    <3> QED BY <1>4, <3>2
  <2> QED BY <2>1, <2>2
<1>7. CASE Answer(r, FALSE)
  BY <1>4, <1>7
<1> QED BY <1>5, <1>6, <1>7 DEF Verify

-----------------------------------------------------------------------------
\* The invariant: each request's work is of its kind, work in one directory is
\* known to be shared, and a request that is alone finds what it left.
THEOREM ServiceInvariant == ServiceSpec => []ServiceInv
<1>1. ServiceInit => ServiceInv
  <2> SUFFICES ASSUME ServiceInit PROVE ServiceInv
    OBVIOUS
  <2>1. New \in AnyRequest /\ NoWork \in AnyWork
    BY DEF New, NoWork, AnyRequest, AnyWork
  <2>2. Types
    BY <2>1 DEF ServiceInit, Types
  <2>3. ASSUME NEW r \in Request
        PROVE  work[r].task = "none" /\ req[r].pc = "new" /\ req[r].input = None
    BY <2>3 DEF ServiceInit, New, NoWork
  <2>4. \A r \in Request : Waits(r)
    BY <2>3 DEF Waits
  <2>5. Apart
    BY <2>3 DEF Apart
  <2>6. \A r \in Request : Own(r)
    BY <2>3 DEF Own, Ends
  <2> QED BY <2>2, <2>4, <2>5, <2>6 DEF ServiceInv
<1>2. ServiceInv /\ [ServiceNext]_serviceVars => ServiceInv'
  <2> SUFFICES ASSUME ServiceInv, [ServiceNext]_serviceVars PROVE ServiceInv'
    OBVIOUS
  <2>1. ASSUME NEW r \in Request, NEW c \in Circuit, NEW x \in Input,
               generate_proof(r, c, x) \/ verify_proof(r, c, x)
        PROVE  ServiceInv'
    BY <2>1, AcceptStep DEF generate_proof, verify_proof, TasksOf, Op
  <2>2. ASSUME NEW r \in Request,
               \/ Refuse(r) \/ Disconnect(r) \/ WriteToml(r) \/ Execute(r) \/ Prove(r)
               \/ ReadProof(r) \/ WriteProof(r) \/ Verify(r)
        PROVE  ServiceInv'
    BY <2>2, LeavesStep, WriteTomlStep, ExecuteStep, ProveStep, ReadProofStep, WriteProofStep,
       VerifyStep
  <2>3. CASE UNCHANGED serviceVars
    BY <2>3 DEF serviceVars, ServiceInv, Types, Waits, Apart, Own, Ends, Alone, Dir
  <2> QED BY <2>1, <2>2, <2>3 DEF ServiceNext
<1> QED BY <1>1, <1>2, PTL DEF ServiceSpec

\* Every variable has its type, a handler waits for work that is being done,
\* and nargo proves what it could solve.
THEOREM ServiceTypeCorrect == ServiceSpec => []ServiceTypeOK
<1>1. ServiceInv => ServiceTypeOK
  <2> SUFFICES ASSUME ServiceInv, NEW r \in Request
               PROVE  /\ req[r].pc \in {"new", "await", "done", "failed", "gone"}
                      /\ req[r].pc = "await" => work[r].task # "none"
                      /\ work[r].task \in {"empty proof", "store proof"} =>
                           work[r].seen \in Satisfying
    BY DEF ServiceInv, Types, ServiceTypeOK
  <2>1. Waits(r) /\ req[r] \in AnyRequest
    BY DEF ServiceInv, Types
  <2> QED BY <2>1 DEF Waits, AnyRequest
<1> QED BY <1>1, ServiceInvariant, PTL

\* A request of generate_proof that nobody disturbed gets the proof of its own
\* inputs, whatever files the circuit's directory held before.
THEOREM OwnProofAlways == ServiceSpec => []OwnProofIfAlone
<1>1. ServiceInv => OwnProofIfAlone
  BY DEF ServiceInv, Own, Ends, OwnProofIfAlone
<1> QED BY <1>1, ServiceInvariant, PTL

\* A request of verify_proof that nobody disturbed is told that a proof is
\* valid only if its own proof is one that nargo accepts.
THEOREM OwnVerdictAlways == ServiceSpec => []OwnVerdictIfAlone
<1>1. ServiceInv => OwnVerdictIfAlone
  BY DEF ServiceInv, Own, Ends, OwnVerdictIfAlone
<1> QED BY <1>1, ServiceInvariant, PTL

\* The files of earlier requests make no request of generate_proof fail.
THEOREM LeftoversAlwaysHarmless == ServiceSpec => []LeftoversHarmless
<1>1. ServiceInv => LeftoversHarmless
  BY DEF ServiceInv, Own, Ends, LeftoversHarmless
<1> QED BY <1>1, ServiceInvariant, PTL
=============================================================================
