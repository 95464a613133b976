------------------------------ MODULE ZkService ------------------------------
(***************************************************************************)
(* The proof service (circuits/rust-zk-service): generate_proof and        *)
(* verify_proof of the Noir prover.  Every request to one circuit uses the *)
(* same files in the circuit's directory, and nothing keeps requests apart.*)
(*                                                                         *)
(* A handler awaits one piece of blocking work after another: writing a    *)
(* file, running nargo, reading a file.  `work' is what runs now for a     *)
(* request.  When the client goes away (the gateway gives up after 30      *)
(* seconds) the handler is dropped, but the work it waits for goes on.     *)
(* Writing a file first empties it.                                        *)
(*                                                                         *)
(* Inputs and proofs are names: a proof is named by the inputs it proves.  *)
(* The prover's cache never hits (the code inserts into a clone of it) and *)
(* the counters of the health endpoint are left out.                       *)
(***************************************************************************)
EXTENDS Naturals

CONSTANTS
  Circuit,     \* circuits of the Noir prover
  Installed,   \* <<op, circuit>> whose directory exists; the two ops name it differently
  Input,       \* inputs, and the proofs named by them
  Satisfying,  \* inputs that satisfy the circuit
  Accepted,    \* proofs that nargo verify accepts; the request's public inputs play no part
  Request,     \* requests that may arrive, each once
  Failures,    \* what may go wrong: "io", "nargo", "disconnect"
  Empty, None

Op == {"generate", "verify"}

ASSUME ServiceAssumption ==
  /\ Installed \subseteq Op \X Circuit
  /\ Satisfying \subseteq Input /\ Accepted \subseteq Input
  /\ Empty \notin Input /\ None \notin Input /\ Empty # None
  /\ Failures \subseteq {"io", "nargo", "disconnect"}

VARIABLES
  proverToml,  \* circuit -> the content of Prover.toml
  proofFile,   \* <<op, circuit>> -> the content of proofs/<circuit>.proof
  req,         \* the requests
  work         \* request -> the blocking work done for it

serviceVars == <<proverToml, proofFile, req, work>>

NoWork == [task |-> "none", seen |-> None]

New == [op |-> None, circuit |-> None, input |-> None, pc |-> "new",
        shared |-> FALSE, hit |-> FALSE, answer |-> None]

ServiceInit ==
  /\ proverToml = [c \in Circuit |-> Empty]
  /\ proofFile = [d \in Op \X Circuit |-> Empty]
  /\ req = [r \in Request |-> New]
  /\ work = [r \in Request |-> NoWork]

Dir(r) == <<req[r].op, req[r].circuit>>

MayFail(what) == what \in Failures

\* Something still happens in the directory for this request.
Busy(r) == req[r].pc = "await" \/ work[r].task # "none"

-----------------------------------------------------------------------------
\* The request is accepted and its first work begins; history: who shares a directory with whom.
Accept(r, op, c, x, task) ==
  LET others == {q \in Request : Busy(q) /\ Dir(q) = <<op, c>>} IN
  /\ req[r].pc = "new" /\ <<op, c>> \in Installed
  /\ req' = [q \in Request |->
       CASE q = r -> [op |-> op, circuit |-> c, input |-> x, pc |-> "await",
                      shared |-> others # {}, hit |-> FALSE, answer |-> None]
         [] q \in others -> [req[q] EXCEPT !.shared = TRUE]
         [] OTHER -> req[q]]
  /\ work' = [work EXCEPT ![r] = [task |-> task, seen |-> None]]
  /\ UNCHANGED <<proverToml, proofFile>>

\* A type that is not allowed, a circuit without directory, a proof that is not hex, a proof
\* for RISC Zero (whose prover and verifier are stubs): an error at once.
Refuse(r) ==
  /\ req[r].pc = "new"
  /\ req' = [req EXCEPT ![r].pc = "failed"]
  /\ UNCHANGED <<proverToml, proofFile, work>>

generate_proof(r, c, x) == Accept(r, "generate", c, x, "write toml")

verify_proof(r, c, x) == Accept(r, "verify", c, x, "write proof")

(* The work of r ended: the handler, if it still waits, goes on or fails.    *)
FaultEnded(r, ok, next) ==
  IF req[r].pc = "await" /\ ok
  THEN work' = [work EXCEPT ![r] = [task |-> next, seen |-> None]] /\ UNCHANGED req
  ELSE work' = [work EXCEPT ![r] = NoWork] /\ UNCHANGED req

Ended(r, ok, next) ==
  IF req[r].pc = "await" /\ ok
  THEN work' = [work EXCEPT ![r] = [task |-> next, seen |-> None]] /\ UNCHANGED req
  ELSE /\ work' = [work EXCEPT ![r] = NoWork]
       /\ req' = [req EXCEPT ![r].pc = IF @ = "await" THEN "failed" ELSE @]

\* The work of r could not be done; history: the request was hit by a failure.
Fails(r) ==
  /\ work' = [work EXCEPT ![r] = NoWork]
  /\ req' = [req EXCEPT ![r] = IF @.pc = "await" THEN [@ EXCEPT !.pc = "failed", !.hit = TRUE] ELSE @]

Continue(r, next, x) ==
  work' = [work EXCEPT ![r] = [task |-> next, seen |-> x]] /\ UNCHANGED req

Answer(r, a) ==
  /\ req' = [req EXCEPT ![r] = IF @.pc = "await" THEN [@ EXCEPT !.pc = "done", !.answer = a] ELSE @]
  /\ work' = [work EXCEPT ![r] = NoWork]

Doing(r, task) == work[r].task = task

\* Prover.toml is only written where there is none.
FaultWriteToml(r) ==
  /\ \/ /\ Doing(r, "write toml") /\ proverToml[req[r].circuit] # Empty
        /\ Ended(r, TRUE, "execute") /\ UNCHANGED proverToml
     \/ /\ Doing(r, "write toml") /\ proverToml[req[r].circuit] = Empty
        /\ Continue(r, "fill toml", None) /\ UNCHANGED proverToml
     \/ /\ Doing(r, "fill toml")
        /\ proverToml' = [proverToml EXCEPT ![req[r].circuit] = req[r].input]
        /\ Ended(r, TRUE, "execute")
  /\ UNCHANGED proofFile

WriteToml(r) ==
  /\ \/ /\ Doing(r, "write toml")
        /\ proverToml' = [proverToml EXCEPT ![req[r].circuit] = Empty]
        /\ Continue(r, "fill toml", None)
     \/ /\ Doing(r, "fill toml")
        /\ proverToml' = [proverToml EXCEPT ![req[r].circuit] = req[r].input]
        /\ Ended(r, TRUE, "execute")
     \/ /\ Doing(r, "write toml") \/ Doing(r, "fill toml")
        /\ MayFail("io") /\ Fails(r) /\ UNCHANGED proverToml
  /\ UNCHANGED proofFile

\* nargo execute: it solves the circuit for the inputs it finds.
Execute(r) ==
  /\ Doing(r, "execute")
  /\ \/ Ended(r, proverToml[req[r].circuit] \in Satisfying, "prove")
     \/ MayFail("nargo") /\ Fails(r)
  /\ UNCHANGED <<proverToml, proofFile>>

\* nargo prove: the inputs it finds, then the proof file.
FaultProve(r) ==
  /\ \/ /\ Doing(r, "prove")
        /\ proverToml[req[r].circuit] \in Satisfying
        /\ Continue(r, "empty proof", proverToml[req[r].circuit])
        /\ UNCHANGED proofFile
     \/ /\ Doing(r, "empty proof")
        /\ proofFile' = [proofFile EXCEPT ![Dir(r)] = Empty]
        /\ Continue(r, "store proof", work[r].seen)
     \/ /\ Doing(r, "store proof")
        /\ proofFile' = [proofFile EXCEPT ![Dir(r)] = work[r].seen]
        /\ Ended(r, TRUE, "read proof")
     \/ /\ Doing(r, "prove")
        /\ \/ proverToml[req[r].circuit] \notin Satisfying
           \/ MayFail("nargo")
        /\ Ended(r, TRUE, "read proof") /\ UNCHANGED proofFile
  /\ UNCHANGED proverToml

Prove(r) ==
  /\ \/ /\ Doing(r, "prove")
        /\ proverToml[req[r].circuit] \in Satisfying
        /\ Continue(r, "empty proof", proverToml[req[r].circuit])
        /\ UNCHANGED proofFile
     \/ /\ Doing(r, "empty proof")
        /\ proofFile' = [proofFile EXCEPT ![Dir(r)] = Empty]
        /\ Continue(r, "store proof", work[r].seen)
     \/ /\ Doing(r, "store proof")
        /\ proofFile' = [proofFile EXCEPT ![Dir(r)] = work[r].seen]
        /\ Ended(r, TRUE, "read proof")
     \/ /\ Doing(r, "prove")
        /\ \/ proverToml[req[r].circuit] \notin Satisfying /\ Ended(r, FALSE, "none")
           \/ MayFail("nargo") /\ Fails(r)
        /\ UNCHANGED proofFile
  /\ UNCHANGED proverToml

ReadProof(r) ==
  /\ Doing(r, "read proof")
  /\ \/ Answer(r, proofFile[Dir(r)])
     \/ MayFail("io") /\ Fails(r)
  /\ UNCHANGED <<proverToml, proofFile>>

FaultWriteProof(r) ==
  /\ \/ /\ Doing(r, "write proof")
        /\ proofFile' = [proofFile EXCEPT ![Dir(r)] = Empty]
        /\ Continue(r, "fill proof", None)
     \/ /\ Doing(r, "fill proof")
        /\ proofFile' = [proofFile EXCEPT ![Dir(r)] = req[r].input]
        /\ Ended(r, TRUE, "verify")
     \/ /\ Doing(r, "write proof") \/ Doing(r, "fill proof")
        /\ MayFail("io") /\ Ended(r, TRUE, "verify") /\ UNCHANGED proofFile
  /\ UNCHANGED proverToml

WriteProof(r) ==
  /\ \/ /\ Doing(r, "write proof")
        /\ proofFile' = [proofFile EXCEPT ![Dir(r)] = Empty]
        /\ Continue(r, "fill proof", None)
     \/ /\ Doing(r, "fill proof")
        /\ proofFile' = [proofFile EXCEPT ![Dir(r)] = req[r].input]
        /\ Ended(r, TRUE, "verify")
     \/ /\ Doing(r, "write proof") \/ Doing(r, "fill proof")
        /\ MayFail("io") /\ Fails(r) /\ UNCHANGED proofFile
  /\ UNCHANGED proverToml

\* nargo verify: the verdict is its exit status, whatever made it fail.
Verify(r) ==
  /\ Doing(r, "verify")
  /\ \/ Answer(r, proofFile[Dir(r)] \in Accepted)
     \/ MayFail("nargo") /\ (Answer(r, FALSE) \/ Fails(r))
  /\ UNCHANGED <<proverToml, proofFile>>

\* The client is gone and the handler dropped; its work goes on.
Disconnect(r) ==
  /\ MayFail("disconnect") /\ req[r].pc = "await"
  /\ req' = [req EXCEPT ![r].pc = "gone"]
  /\ UNCHANGED <<proverToml, proofFile, work>>

ServiceNext ==
  \E r \in Request :
    \/ \E c \in Circuit, x \in Input : generate_proof(r, c, x) \/ verify_proof(r, c, x)
    \/ Refuse(r) \/ Disconnect(r)
    \/ WriteToml(r) \/ Execute(r) \/ Prove(r) \/ ReadProof(r) \/ WriteProof(r) \/ Verify(r)

ServiceSpec == ServiceInit /\ [][ServiceNext]_serviceVars

-----------------------------------------------------------------------------
(* Every variable has its type; a handler waits for work that is being done, *)
(* and nargo only proves what it could solve.                                *)
ServiceTypeOK ==
  /\ proverToml \in [Circuit -> Input \cup {Empty}]
  /\ proofFile \in [Op \X Circuit -> Input \cup {Empty}]
  /\ \A r \in Request :
       /\ req[r].pc \in {"new", "await", "done", "failed", "gone"}
       /\ req[r].pc = "await" => work[r].task # "none"
       /\ work[r].task \in {"empty proof", "store proof"} => work[r].seen \in Satisfying

\* No other request, and no work that a dropped request left behind, was in the directory.
Alone(r) == ~req[r].shared

(* A request that is alone in its circuit's directory gets the proof of its  *)
(* own inputs, whatever earlier requests left there: the inputs of one that  *)
(* failed, the proof of another, a file that was emptied and not filled      *)
(* (NoirProver::generate_proof checks every exit status).  Requests that     *)
(* overlap can get each other's proofs.                                      *)
OwnProofIfAlone ==
  \A r \in Request :
    (req[r].op = "generate" /\ req[r].pc = "done" /\ Alone(r)) =>
       req[r].answer = req[r].input /\ req[r].input \in Satisfying

(* A request that is alone is told that a proof is valid only if nargo       *)
(* accepts the proof of this request, not one that an earlier request left   *)
(* (NoirProver::verify_proof).                                               *)
OwnVerdictIfAlone ==
  \A r \in Request :
    (req[r].op = "verify" /\ req[r].pc = "done" /\ Alone(r) /\ req[r].answer) =>
       req[r].input \in Accepted

(* What earlier requests left in the directory makes no request fail that is *)
(* alone, gives satisfying inputs and is not itself hit by a failure.        *)
LeftoversHarmless ==
  \A r \in Request :
    (req[r].op = "generate" /\ req[r].pc = "failed" /\ Alone(r) /\ ~req[r].hit) =>
       req[r].input \notin Satisfying
=============================================================================
