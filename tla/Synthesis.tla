------------------------------- MODULE Synthesis -------------------------------
(***************************************************************************)
(* Product synthesis (synthesis/engine.py, create_from_prompt): a prompt is  *)
(* checked against what the framework can do, written by the first provider  *)
(* that does not run out, then compiled, accepted by black-box checks and    *)
(* reviewed, with a bounded number of repairs in between.                    *)
(*                                                                          *)
(* A product directory holds an artifact: what its build, its server, its    *)
(* API and its storage do, and whether a reviewer would block it.            *)
(***************************************************************************)
EXTENDS Integers, FiniteSets, FiniteSetsExt

CONSTANTS
  Benchmarks,     \* prompts, numbers: the smallest is the first in scope
  Clouds,         \* cloud providers, numbers: the pool ranks the smallest first
  Unsupported,    \* prompts the capability negotiator refuses
  Artifacts,      \* the products a provider may write, records of Capabilities
  Template,       \* the product the deterministic generator writes
  MaxRepairs,     \* max_repair_cycles
  MaxFaults       \* bound: outages, unfinished reviews, crashes

Capabilities == [builds : BOOLEAN, starts : BOOLEAN, answers : BOOLEAN, persists : BOOLEAN,
                 blocked : BOOLEAN]

ASSUME SynthesisAssumption ==
  /\ Benchmarks \subseteq Nat \ {0} /\ Clouds \subseteq Nat \ {0} /\ Unsupported \subseteq Benchmarks
  /\ Artifacts \subseteq Capabilities /\ Template \in Artifacts
  /\ MaxRepairs \in Nat /\ MaxFaults \in Nat

VARIABLES
  syn,     \* the synthesis in progress, or the result of the last
  dirs,    \* the artifact in each product directory
  out,     \* the providers the pool holds exhausted
  seen     \* ghosts

synVars == <<syn, dirs, out, seen>>

Nobody == 0
Nothing == [builds |-> FALSE, starts |-> FALSE, answers |-> FALSE, persists |-> FALSE,
            blocked |-> FALSE]

Faulty == seen.faults < MaxFaults
Fault == seen' = [seen EXCEPT !.faults = @ + 1]

Minimum(S) == CHOOSE x \in S : \A y \in S : x <= y

\* The pool's order: the preferred provider first, the avoided one last.
Ranked(pool, prefer, avoid) ==
  IF prefer \in pool THEN prefer
  ELSE IF pool \ {avoid} # {} THEN Minimum(pool \ {avoid}) ELSE avoid

\* Full synthesis is never given to the local model.
Candidates == Clouds \ out
\* The local model has no quota: it must not keep the pool from being exhausted.
AllExhausted == Clouds \subseteq out

-----------------------------------------------------------------------------
(* The black-box checks, and the one that names a failure. *)

BuildCheck(a) == IF a.builds THEN {} ELSE {"build"}
\* A server that never answers its health probe is asked nothing else.
HealthCheck(a) == IF a.starts THEN {} ELSE {"health"}
\* Records are created and listed, and a bad one is rejected.
RecordChecks(a) == IF a.starts /\ ~a.answers THEN {"records"} ELSE {}
\* What survives a restart is asked of a second server, also where a record check failed.
RestartCheck(a) == IF a.starts /\ ~a.persists THEN {"restart"} ELSE {}

FailingChecks(a) ==
  IF BuildCheck(a) # {} THEN BuildCheck(a)
  ELSE HealthCheck(a) \cup RecordChecks(a) \cup RestartCheck(a)

AllPassed(a) == FailingChecks(a) = {}

\* The failure message begins with the first check that failed, in the order they ran.
FirstFailing(a) ==
  CASE BuildCheck(a) # {} -> "build"
    [] BuildCheck(a) = {} /\ HealthCheck(a) # {} -> "health"
    [] BuildCheck(a) = {} /\ RecordChecks(a) # {} -> "records"
    [] OTHER -> "restart"

-----------------------------------------------------------------------------
Idle == [pc |-> "idle", bench |-> 0, dir |-> "main", prefer |-> Nobody, avoid |-> Nobody,
         left |-> {}, maker |-> Nobody, repairs |-> 0, err |-> "none", detail |-> "none",
         status |-> "none"]

\* What a caller asks for.
Request(bench, dir, prefer, avoid) ==
  [Idle EXCEPT !.pc = "negotiate", !.bench = bench, !.dir = dir, !.prefer = prefer, !.avoid = avoid]

Artifact == dirs[<<syn.bench, syn.dir>>]
End(status) == syn' = [syn EXCEPT !.pc = "done", !.status = status]
\* Every provider has run out: the result names no implementer and no failed check.
EndExhausted == syn' = [syn EXCEPT !.pc = "done", !.status = "PROVIDER_POOL_EXHAUSTED",
                                   !.maker = Nobody, !.err = "none", !.detail = "none"]

\* A prompt the framework cannot satisfy is refused before anyone is asked.
Negotiate ==
  /\ syn.pc = "negotiate"
  /\ IF syn.bench \in Unsupported THEN End("PRODUCT_BLOCKED")
     ELSE IF AllExhausted THEN EndExhausted
     ELSE syn' = [syn EXCEPT !.pc = "attempt", !.left = Candidates]
  /\ UNCHANGED <<dirs, out, seen>>

\* A provider that leaves the product's files missing gets the generator's.
Initialised(a) == IF a = Nothing THEN Template ELSE a

\* The next candidate of the list drawn up before the first was asked.  It writes a
\* product, whatever its exit code says, or has run out and the next is asked.
AskProvider(after) ==
  LET provider == Ranked(syn.left, IF after = "attempt" THEN syn.prefer ELSE syn.maker, syn.avoid) IN
  IF syn.left = {} THEN EndExhausted /\ UNCHANGED <<dirs, out, seen>>
  ELSE \/ /\ \E a \in Artifacts \cup {Artifact} :
               dirs' = [dirs EXCEPT ![<<syn.bench, syn.dir>>] = Initialised(a)]
          /\ syn' = [syn EXCEPT !.pc = "compile", !.maker = provider, !.left = {}]
          /\ UNCHANGED <<out, seen>>
       \/ /\ Faulty /\ seen' = [seen EXCEPT !.faults = @ + 1, !.ran = @ \cup {provider}]
          /\ syn' = [syn EXCEPT !.left = @ \ {provider}]
          /\ out' = out \cup {provider}
          /\ UNCHANGED dirs

Attempt == syn.pc = "attempt" /\ AskProvider("attempt")

\* Every failed pass through the loop uses up one repair.
Counted(repairs, err) == repairs + 1

\* A failed stage is repaired while the budget lasts; the last error stands.
Repairing(err, detail) ==
  LET used == Counted(syn.repairs, err) IN
  IF used <= MaxRepairs
  THEN syn' = [syn EXCEPT !.pc = "repair", !.repairs = used, !.err = err, !.detail = detail,
                          !.left = Candidates]
  ELSE syn' = [syn EXCEPT !.pc = "done", !.repairs = used, !.err = err, !.detail = detail,
                          !.status = "REPAIR_BUDGET_EXHAUSTED"]

\* The provider at work is asked first; a repair is a new artifact, checked from the start.
Repair == syn.pc = "repair" /\ AskProvider("repair")

Compile ==
  /\ syn.pc = "compile"
  /\ IF Artifact.builds THEN syn' = [syn EXCEPT !.pc = "accept"] ELSE Repairing("compiler", "none")
  /\ UNCHANGED <<dirs, out, seen>>

Accepted(a) == AllPassed(a)

AcceptProduct ==
  /\ syn.pc = "accept"
  /\ IF Accepted(Artifact) THEN syn' = [syn EXCEPT !.pc = "review"]
     ELSE Repairing("acceptance", FirstFailing(Artifact))
  /\ UNCHANGED <<dirs, out, seen>>

\* The bundle is packaged with the report that accepted it.
Deliver == End("VERIFIED_PRODUCT")

\* No findings are no review: a required role nobody completed is repaired like a failure.
ReviewUnfinished == Faulty /\ Fault /\ Repairing("review", "none")

\* A blocker counts only while a repair is left to answer it.
Blocking(a) == a.blocked /\ syn.repairs < MaxRepairs

ReviewSettles ==
  /\ IF Blocking(Artifact) THEN Repairing("review", "none") ELSE Deliver
  /\ UNCHANGED seen

Review ==
  /\ syn.pc = "review"
  /\ ReviewUnfinished \/ ReviewSettles
  /\ UNCHANGED <<dirs, out>>

SynthesisStep == Negotiate \/ Attempt \/ Repair \/ Compile \/ AcceptProduct \/ Review

-----------------------------------------------------------------------------
(* What a failure is evidence of. *)

Success(result) == result.status = "VERIFIED_PRODUCT"

\* The negotiator and the compiler are deterministic; anything else is this attempt's
\* failure, and only provisionally the framework's.
GapType(result) ==
  CASE result.status = "PRODUCT_BLOCKED" -> "capability"
    [] result.err = "compiler" -> "compiler"
    [] result.err = "acceptance" -> "repair"
    [] OTHER -> "orchestration"

Proof(result) == GapType(result) \in {"capability", "compiler"}

\* Two failures are the same if their type and the failing check are the same.
Signature(result) == <<GapType(result), result.detail>>
=============================================================================
