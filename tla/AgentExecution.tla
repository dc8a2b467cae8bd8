--------------------------- MODULE AgentExecution ---------------------------
(***************************************************************************)
(* agent_execution.py: one call of a coding provider, from the spawn to    *)
(* the normalized result.                                                  *)
(*                                                                         *)
(* The provider is a process of its own: it prints, edits and ends when it *)
(* likes.  The harness only polls it.  One poll is the unit of time, so    *)
(* the deadline and the stall timeout are numbers of polls.  Abstracted:   *)
(* text (a provider prints signs), commands and environment, the two       *)
(* seconds between SIGTERM and SIGKILL.                                    *)
(***************************************************************************)
EXTENDS Naturals

CONSTANTS Providers,  \* resources that can be asked to work
          Adapter,    \* [Providers -> the class of their backend]
          Stall,      \* provider_stall_timeout_seconds, in polls
          Deadline,   \* timeout_seconds, in polls
          Signs       \* what a provider may print: see KnownSigns

\* A control line of quota or session; a tool event; a timeout in the transcript, of the network
\* or of the provider's own budget; a refused permission; agy's notice of partial output.
KnownSigns == {"limit", "tool", "timeout", "network", "refused", "partial"}

ASSUME AdapterAssumption == Adapter \in [Providers -> {"claude", "agy", "plain", "local"}]
ASSUME PollsAssumption == {Stall, Deadline} \subseteq Nat \ {0}
ASSUME SignsAssumption == Signs \subseteq KnownSigns

VARIABLES child,      \* the process: whether it runs, its exit code, what it has printed
          watch       \* what the harness knows of it

calls == <<child, watch>>

NoChild == [alive |-> FALSE, code |-> "none", said |-> {}]

Result == [ok |-> FALSE, timed |-> FALSE, source |-> "none", stop |-> "none",
           denied |-> FALSE, launch |-> "launched"]
Results == [ok: BOOLEAN, timed: BOOLEAN, source: {"none", "harness", "transcript", "budget"},
            stop: {"none", "stall", "limit"}, denied: BOOLEAN,
            launch: {"launched", "missing", "unknown"}]

(***************************************************************************)
(* The harness's account of a process that ended.                          *)
(***************************************************************************)
\* The markers of _TIMEOUT_MARKERS; agy's notice contains one of them.
SpeaksOfTimeout(said) == said \cap {"timeout", "network", "partial"} # {}

\* _build_result: the exit code decides, and the transcript only says whether time ran out.
Finished(code, said) ==
  [Result EXCEPT !.ok = code = "ok", !.timed = SpeaksOfTimeout(said),
                 !.source = IF SpeaksOfTimeout(said) THEN "transcript" ELSE "none"]
\* _build_timeout_result.
OutOfTime == [Result EXCEPT !.timed = TRUE, !.source = "harness"]
\* The watchdog's own record, which outranks an exit code that came first.
Stopped(reason) == [Result EXCEPT !.stop = reason]
\* execute, _launch: 127 for a backend that is not there or cannot be spawned.
NotLaunched == [Result EXCEPT !.launch = "missing"]
\* Any other exception: no marker of what happened to the process.
Raised == [Result EXCEPT !.launch = "unknown"]

\* ClaudeCodeBackend.execute: a denied tool turns a claimed success into a failure.
ClaudeSays(result, said) ==
  IF "refused" \in said THEN [result EXCEPT !.denied = TRUE, !.ok = FALSE] ELSE result

\* AgyBackend.execute: partial output is no success, and a timeout the transport did not
\* cause comes of our own budget.
AgySays(result, said) ==
  LET turn == IF "partial" \in said THEN [result EXCEPT !.ok = FALSE, !.timed = TRUE] ELSE result
  IN  IF turn.timed /\ turn.source # "harness" /\ "network" \notin said
      THEN [turn EXCEPT !.source = "budget"] ELSE turn

Account(p, result, said) ==
  CASE Adapter[p] = "claude" -> ClaudeSays(result, said)
    [] Adapter[p] = "agy" -> AgySays(result, said)
    [] OTHER -> result

\* What classify_result makes of it, as far as the attempt loop tells classes apart.
OurBudget(result) == result.source \in {"harness", "budget"}
ProviderTrouble(result, said) ==
  \/ result.stop # "none" \/ result.launch = "missing" \/ result.denied \/ result.timed
  \/ result.launch = "launched" /\ "limit" \in said
Class(result, said) ==
  IF result.ok THEN "none"
  ELSE IF result.stop # "stall" /\ OurBudget(result) THEN "budget"
  ELSE IF ProviderTrouble(result, said) THEN "eligible" ELSE "fatal"

(***************************************************************************)
(* The watchdog: ProviderStreamObserver.                                   *)
(***************************************************************************)
Unwatched == [elapsed |-> 0, quiet |-> 0, print |-> {}, heard |-> {}]

\* A terminal control line, heard for the first time or still on the screen.
ControlLine(said) == "limit" \in said
\* Progress is a tool event not heard before, or another repository fingerprint.
Progress(said, print) == ("tool" \in said \ watch.heard) \/ print # watch.print

QuietFor(said, print) == IF Progress(said, print) THEN 0 ELSE watch.quiet + 1

\* The verdict of one poll: the control line comes before the stall.
Verdict(said, print) ==
  IF ControlLine(said) THEN "limit" ELSE IF QuietFor(said, print) >= Stall THEN "stall" ELSE "none"

Observe(print) ==
  watch' = [elapsed |-> watch.elapsed + 1, quiet |-> QuietFor(child.said, print),
            print |-> print, heard |-> child.said]

(***************************************************************************)
(* The steps of a call.                                                    *)
(***************************************************************************)
\* Popen, and the observer's first look at the repository.
Spawn(print) ==
  /\ child' = [alive |-> TRUE, code |-> "none", said |-> {}]
  /\ watch' = [Unwatched EXCEPT !.print = print]

\* The provider prints, or ends.
Say(sign) ==
  /\ child.alive /\ sign \in Signs \ child.said
  /\ child' = [child EXCEPT !.said = @ \cup {sign}]
  /\ UNCHANGED watch
Exit(code) ==
  /\ child.alive
  /\ child' = [child EXCEPT !.alive = FALSE, !.code = code]
  /\ UNCHANGED watch

\* Mutant of Reap: SIGTERM is sent and nobody makes sure.
TerminateOnly == UNCHANGED child
\* terminate, wait, kill, wait: after this the child is gone, whatever it did on SIGTERM.
Reap == child' = [child EXCEPT !.alive = FALSE]

\* One turn of the polling loop: the watchdog speaks first, then the deadline.  Between the
\* loop's look at the process and either of them the process may have ended by itself.
PollOn(print) ==
  /\ child.alive /\ Verdict(child.said, print) = "none" /\ watch.elapsed + 1 < Deadline
  /\ Observe(print) /\ UNCHANGED child
StopWatched(print) ==
  /\ Verdict(child.said, print) # "none"
  /\ Reap /\ Observe(print)
StopAtDeadline(print) ==
  /\ Verdict(child.said, print) = "none" /\ watch.elapsed + 1 >= Deadline
  /\ Reap /\ Observe(print)
\* subprocess.run without a watchdog: the deadline alone stops it.
Wait ==
  /\ child.alive /\ watch.elapsed + 1 < Deadline
  /\ watch' = [watch EXCEPT !.elapsed = @ + 1] /\ UNCHANGED child
StopWaiting ==
  /\ child.alive /\ watch.elapsed + 1 >= Deadline
  /\ Reap /\ UNCHANGED watch

(***************************************************************************)
(* The local model, which has no process and edits nothing.                *)
(***************************************************************************)
\* OllamaLocalBackend.execute up to the generation: no runtime, no headroom, too long a prompt,
\* or the inference lock, which another process may hold at any time.
LocalRefused == [Result EXCEPT !.launch = "unknown"]
\* The answer of the endpoint, and the lock's release.
LocalReply(ok) == [Result EXCEPT !.ok = ok, !.launch = "unknown"]
=============================================================================
