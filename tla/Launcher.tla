------------------------------ MODULE Launcher ------------------------------
(***************************************************************************)
(* scripts/e2e/launcher.py: main() checks dependencies, starts the         *)
(* signaling server, runs the Playwright tests and prints the report, and  *)
(* calls cleanup() in a finally block.  cleanup is also the SIGINT/SIGTERM *)
(* handler: it terminates every process in the global `processes` list,   *)
(* waits for each up to 5 s, kills it on timeout, and then calls           *)
(* sys.exit(1), which raises SystemExit wherever the main thread was.     *)
(*                                                                         *)
(* Python runs a signal handler in the main thread between two bytecodes, *)
(* so a signal may interrupt main() at any step and also a running        *)
(* cleanup(): the handler's frame is pushed on the call stack.  The stack  *)
(* is a sequence of cleanup frames; main() moves only when it is empty.   *)
(* SystemExit is not an Exception, so it unwinds every cleanup frame, and *)
(* main's finally runs cleanup() once more if the exception crossed its   *)
(* try block.  subprocess.run kills its child when an exception crosses   *)
(* it: the version queries of check_dependencies, `pnpm build` and the    *)
(* `pnpm exec playwright test` process are each a child that lives while  *)
(* main() is blocked in subprocess.run.  argparse either returns the parsed flags or exits     *)
(* (status 0 for --help, 2 for a bad argument) before main() goes on.     *)
(***************************************************************************)
EXTENDS Integers, Sequences

CONSTANTS
    MaxSignals,  \* bound on SIGINT/SIGTERM deliveries in one run
    None         \* Python None: no return value or status yet

VARIABLES
    args,       \* [parse, report_only, no_server]: what argparse makes of
                \* the command line, and the two flags main() branches on
    pc,         \* main()'s position
    stack,      \* cleanup frames, innermost last
    processes,  \* the global list of registered Popen handles
    procState,  \* per child: "none", "starting", "listening", "running",
                \* "exited" or "stopped"
    signals,    \* number of signals delivered so far
    ret,        \* main()'s return value once the try body has produced it
    pending,    \* TRUE when an exception is crossing main's finally
    testsRC,    \* exit status of the Playwright run, None before it ends
    exitCode    \* the process exit status, None while running

vars == <<args, pc, stack, processes, procState, signals, ret, pending, testsRC, exitCode>>

\* The children: the version queries of check_dependencies (one at a
\* time), `pnpm build`, the signaling server and the Playwright test runner.
Procs == {"deps", "build", "server", "tests"}

\* Positions of main() inside `try:` (lines 291-312), and "finally" before
\* the finally clause starts.
TryRegion == {"build", "build_wait", "popen", "append", "poll", "tests", "tests_wait",
              "report", "finally"}

\* The child of the subprocess.run call main() is blocked in, by position.
RunChild == [pnpm_wait |-> "deps", pw_wait |-> "deps", build_wait |-> "build",
             tests_wait |-> "tests"]

\* What argparse does with the command line: return the namespace, print
\* the help and exit 0, or print an error and exit 2.
ParseOutcomes == {"ok", "help", "error"}

\* subprocess.run's returncode for the Playwright run.
TestReturnCodes == {0, 1, -9}

\* A child that is still a live process: the server while it boots and once
\* it listens, the test runner while it runs.
Alive(p) == procState[p] \in {"starting", "listening", "running"}

Frame(kind) == [kind |-> kind, i |-> 1, step |-> "term"]

Idle == stack = <<>>

Top == stack[Len(stack)]

Init ==
    /\ args \in [parse : ParseOutcomes, report_only : BOOLEAN, no_server : BOOLEAN]
    /\ pc = "parse"
    /\ stack = <<>>
    /\ processes = <<>>
    /\ procState = [p \in Procs |-> "none"]
    /\ signals = 0
    /\ ret = None
    /\ pending = FALSE
    /\ testsRC = None
    /\ exitCode = None

-----------------------------------------------------------------------------
(* main() leaves its try body with return value r, or with an exception.  *)
LeaveTry(r, exc) ==
    /\ pc' = "finally"
    /\ ret' = r
    /\ pending' = exc

(***************************************************************************)
(* sys.exit(1) at the end of the handler: SystemExit unwinds every cleanup *)
(* frame.  subprocess.run kills its own child on the way out (pnpm or     *)
(* node; what `pnpm exec` starts in turn is not modelled).  If main() was *)
(* inside its try block, the finally clause starts a new cleanup();        *)
(* otherwise the interpreter exits with status 1.                          *)
(***************************************************************************)
RaiseSystemExit ==
    /\ procState' = IF pc \in DOMAIN RunChild
                       THEN [procState EXCEPT ![RunChild[pc]] = "stopped"]
                       ELSE procState
    /\ IF pc \in TryRegion
         THEN /\ stack' = <<Frame("finally")>>
              /\ pc' = "in_finally"
              /\ pending' = TRUE
              /\ UNCHANGED exitCode
         ELSE /\ stack' = <<>>
              /\ pc' = "exit"
              /\ exitCode' = 1
              /\ UNCHANGED pending

\* A SIGINT or SIGTERM: the handler cleanup(signum) is called on top of
\* whatever the main thread is doing, a running cleanup included.
Signal ==
    /\ signals < MaxSignals
    /\ pc # "exit"
    /\ stack' = Append(stack, Frame("handler"))
    /\ signals' = signals + 1
    /\ UNCHANGED <<args, pc, processes, procState, ret, pending, testsRC, exitCode>>

\* cleanup, loop body first half: proc.terminate() sends SIGTERM.
CleanupTerminate ==
    /\ stack # <<>>
    /\ Top.step = "term"
    /\ Top.i <= Len(processes)
    /\ stack' = [stack EXCEPT ![Len(stack)].step = "wait"]
    /\ UNCHANGED <<args, pc, processes, procState, signals, ret, pending, testsRC, exitCode>>

\* Mutant: the loop skips a process after each one it stops.
NextProcSkip == [stack EXCEPT ![Len(stack)] = [@ EXCEPT !.step = "term", !.i = @ + 2]]

\* The for loop moves on to the next process.
NextProc == [stack EXCEPT ![Len(stack)] = [@ EXCEPT !.step = "term", !.i = @ + 1]]

\* cleanup, loop body second half: proc.wait(timeout=5).  A child that has
\* exited, or exits on SIGTERM within 5 s, is reaped and the loop moves
\* on; one that ignores SIGTERM makes wait raise TimeoutExpired.
CleanupWait ==
    /\ stack # <<>>
    /\ Top.step = "wait"
    /\ LET p == processes[Top.i]
       IN  \E honoursTerm \in BOOLEAN :
             IF ~Alive(p) \/ honoursTerm
               THEN /\ procState' = IF Alive(p) THEN [procState EXCEPT ![p] = "stopped"]
                                                ELSE procState
                    /\ stack' = NextProc
               ELSE /\ stack' = [stack EXCEPT ![Len(stack)].step = "kill"]
                    /\ UNCHANGED procState
    /\ UNCHANGED <<args, pc, processes, signals, ret, pending, testsRC, exitCode>>

\* Mutant: `except Exception: pass`, the child left running.
CleanupKillMissing ==
    /\ stack # <<>>
    /\ Top.step = "kill"
    /\ stack' = NextProc
    /\ UNCHANGED <<args, pc, processes, procState, signals, ret, pending, testsRC, exitCode>>

\* except Exception: proc.kill() -- SIGKILL cannot be ignored.
CleanupKill ==
    /\ stack # <<>>
    /\ Top.step = "kill"
    /\ procState' = [procState EXCEPT ![processes[Top.i]] = "stopped"]
    /\ stack' = NextProc
    /\ UNCHANGED <<args, pc, processes, signals, ret, pending, testsRC, exitCode>>

\* cleanup's loop is over.  As a handler (signum set) it calls sys.exit(1);
\* as main's finally clause it returns, and main() then returns its value
\* or lets the pending exception through.
CleanupDone ==
    /\ stack # <<>>
    /\ Top.step = "term"
    /\ Top.i > Len(processes)
    /\ IF Top.kind = "handler"
         THEN /\ RaiseSystemExit
              /\ UNCHANGED <<args, processes, signals, ret, testsRC>>
         ELSE /\ stack' = <<>>
              /\ pc' = IF pending THEN "exit" ELSE "returned"
              /\ exitCode' = IF pending THEN 1 ELSE exitCode
              /\ UNCHANGED <<args, processes, procState, signals, ret, pending, testsRC>>

-----------------------------------------------------------------------------
(* main(), one statement group at a time; it runs only when no cleanup    *)
(* frame is on the stack.                                                  *)

\* args = parser.parse_args(): --help and a bad argument (an unknown flag,
\* a --browsers that is not an int, a --project outside the choices) raise
\* SystemExit from inside argparse, before any child exists.
ParseArgs ==
    /\ Idle /\ pc = "parse"
    /\ CASE args.parse = "ok"    -> pc' = "start" /\ UNCHANGED exitCode
         [] args.parse = "help"  -> pc' = "exit" /\ exitCode' = 0
         [] args.parse = "error" -> pc' = "exit" /\ exitCode' = 2
    /\ UNCHANGED <<args, stack, processes, procState, signals, ret, pending, testsRC>>

\* if args.report_only: (line 280)
Start ==
    /\ Idle /\ pc = "start"
    /\ pc' = IF args.report_only THEN "gen_only" ELSE "deps_pnpm"
    /\ UNCHANGED <<args, stack, processes, procState, signals, ret, pending, testsRC, exitCode>>

\* generate_report(); return 0.  A results.json that json.load rejects
\* raises outside any try: traceback and status 1.
GenerateReportOnly ==
    /\ Idle /\ pc = "gen_only"
    /\ \E malformed \in BOOLEAN :
         IF malformed THEN pc' = "exit" /\ exitCode' = 1 /\ UNCHANGED ret
                      ELSE pc' = "returned" /\ ret' = 0 /\ UNCHANGED exitCode
    /\ UNCHANGED <<args, stack, processes, procState, signals, pending, testsRC>>

\* check_dependencies: subprocess.run(["pnpm", "--version"]), then
\* subprocess.run(["pnpm", "exec", "playwright", "--version"]), each
\* starting a child that main() waits for ...
StartQuery(at, wait) ==
    /\ Idle /\ pc = at
    /\ procState' = [procState EXCEPT !["deps"] = "running"]
    /\ pc' = wait
    /\ UNCHANGED <<args, stack, processes, signals, ret, pending, testsRC, exitCode>>

\* ... and that ends on its own.  A non-zero status (CalledProcessError) or
\* no pnpm at all (FileNotFoundError, no child) makes check_dependencies
\* return False and main() return 1; otherwise the next check runs.
QueryDone(wait, next) ==
    /\ Idle /\ pc = wait
    /\ procState' = [procState EXCEPT !["deps"] = "exited"]
    /\ \E ok \in BOOLEAN :
         IF ok THEN pc' = next /\ UNCHANGED ret
               ELSE pc' = "returned" /\ ret' = 1
    /\ UNCHANGED <<args, stack, processes, signals, pending, testsRC, exitCode>>

\* if not check_dependencies(): return 1
CheckDependencies ==
    \/ StartQuery("deps_pnpm", "pnpm_wait") \/ QueryDone("pnpm_wait", "deps_pw")
    \/ StartQuery("deps_pw", "pw_wait")     \/ QueryDone("pw_wait", "mkdir")

\* REPORTS_DIR.mkdir(...), then into the try block.
MakeReportsDir ==
    /\ Idle /\ pc = "mkdir"
    /\ pc' = IF args.no_server THEN "tests" ELSE "build"
    /\ UNCHANGED <<args, stack, processes, procState, signals, ret, pending, testsRC, exitCode>>

\* start_signaling_server: if dist/ exists, straight on to Popen; otherwise
\* subprocess.run(["pnpm", "build"]) starts the build ...
BuildServer ==
    /\ Idle /\ pc = "build"
    /\ \E distExists \in BOOLEAN :
         IF distExists THEN pc' = "popen" /\ UNCHANGED procState
         ELSE /\ procState' = [procState EXCEPT !["build"] = "running"]
              /\ pc' = "build_wait"
    /\ UNCHANGED <<args, stack, processes, signals, ret, pending, testsRC, exitCode>>

\* ... and check=True turns a failed build into CalledProcessError.
BuildDone ==
    /\ Idle /\ pc = "build_wait"
    /\ procState' = [procState EXCEPT !["build"] = "exited"]
    /\ \E fails \in BOOLEAN :
         IF fails THEN LeaveTry(None, TRUE)
                  ELSE pc' = "popen" /\ UNCHANGED <<ret, pending>>
    /\ UNCHANGED <<args, stack, processes, signals, testsRC, exitCode>>

\* proc = subprocess.Popen(["node", "dist/cli.js", ...]): the server process
\* exists from here on and starts booting.
SpawnServer ==
    /\ Idle /\ pc = "popen"
    /\ procState' = [procState EXCEPT !["server"] = "starting"]
    /\ pc' = "append"
    /\ UNCHANGED <<args, stack, processes, signals, ret, pending, testsRC, exitCode>>

\* processes.append(proc)
RegisterServer ==
    /\ Idle /\ pc = "append"
    /\ processes' = Append(processes, "server")
    /\ pc' = "poll"
    /\ UNCHANGED <<args, stack, procState, signals, ret, pending, testsRC, exitCode>>

\* time.sleep(2); if proc.poll() is not None: return None, and main()
\* returns 1.  poll() only tells an exited process from a live one: a
\* server still booting after the sleep passes the check.  How long the
\* sleep lasts is not modelled; the server's own steps interleave freely.
PollServer ==
    /\ Idle /\ pc = "poll"
    /\ IF procState["server"] = "exited"
         THEN LeaveTry(1, FALSE)
         ELSE /\ pc' = "tests"
              /\ UNCHANGED <<ret, pending>>
    /\ UNCHANGED <<args, stack, processes, procState, signals, testsRC, exitCode>>

\* run_tests: subprocess.run(["pnpm", "exec", "playwright", "test", ...])
\* starts the test runner ...
RunTests ==
    /\ Idle /\ pc = "tests"
    /\ procState' = [procState EXCEPT !["tests"] = "running"]
    /\ pc' = "tests_wait"
    /\ UNCHANGED <<args, stack, processes, signals, ret, pending, testsRC, exitCode>>

\* ... and returns its returncode when it exits: 0, 1 for failed tests, or
\* -9 when something outside the launcher kills it with SIGKILL.
TestsFinish ==
    /\ Idle /\ pc = "tests_wait"
    /\ \E rc \in TestReturnCodes : testsRC' = rc
    /\ procState' = [procState EXCEPT !["tests"] = "exited"]
    /\ pc' = "report"
    /\ UNCHANGED <<args, stack, processes, signals, ret, pending, exitCode>>

\* Mutant: main() returns 0 instead of the tests' exit code.
GenerateReportReturnZero ==
    /\ Idle /\ pc = "report"
    /\ \E malformed \in BOOLEAN :
         IF malformed THEN LeaveTry(None, TRUE) ELSE LeaveTry(0, FALSE)
    /\ UNCHANGED <<args, stack, processes, procState, signals, testsRC, exitCode>>

\* generate_report(); return exit_code.  A malformed results.json raises.
GenerateReport ==
    /\ Idle /\ pc = "report"
    /\ \E malformed \in BOOLEAN :
         IF malformed THEN LeaveTry(None, TRUE) ELSE LeaveTry(testsRC, FALSE)
    /\ UNCHANGED <<args, stack, processes, procState, signals, testsRC, exitCode>>

\* Mutant: no finally clause, main() returns without cleanup().
EnterFinallyMissing ==
    /\ Idle /\ pc = "finally"
    /\ pc' = IF pending THEN "exit" ELSE "returned"
    /\ exitCode' = IF pending THEN 1 ELSE exitCode
    /\ UNCHANGED <<args, stack, processes, procState, signals, ret, pending, testsRC>>

\* finally: cleanup()
EnterFinally ==
    /\ Idle /\ pc = "finally"
    /\ stack' = <<Frame("finally")>>
    /\ pc' = "in_finally"
    /\ UNCHANGED <<args, processes, procState, signals, ret, pending, testsRC, exitCode>>

\* sys.exit(main()): the status the parent sees is the int modulo 256.
Exit ==
    /\ Idle /\ pc = "returned"
    /\ exitCode' = ret % 256
    /\ pc' = "exit"
    /\ UNCHANGED <<args, stack, processes, procState, signals, ret, pending, testsRC>>

(***************************************************************************)
(* The signaling server's own steps (node dist/cli.js): it finishes        *)
(* booting and listens on its port, or it exits (port in use, a crash),    *)
(* at any moment relative to the launcher.                                 *)
(***************************************************************************)
ServerListens ==
    /\ procState["server"] = "starting"
    /\ procState' = [procState EXCEPT !["server"] = "listening"]
    /\ UNCHANGED <<args, pc, stack, processes, signals, ret, pending, testsRC, exitCode>>

ServerExits ==
    /\ procState["server"] \in {"starting", "listening"}
    /\ procState' = [procState EXCEPT !["server"] = "exited"]
    /\ UNCHANGED <<args, pc, stack, processes, signals, ret, pending, testsRC, exitCode>>

MainStep ==
    \/ ParseArgs \/ Start \/ GenerateReportOnly \/ CheckDependencies \/ MakeReportsDir
    \/ BuildServer \/ BuildDone \/ SpawnServer \/ RegisterServer \/ PollServer
    \/ RunTests \/ TestsFinish \/ GenerateReport \/ EnterFinally \/ Exit
    \/ CleanupTerminate \/ CleanupWait \/ CleanupKill \/ CleanupDone

Next == MainStep \/ Signal \/ ServerListens \/ ServerExits

\* The interpreter always makes progress; signals and the server's own
\* steps come from outside and are not assumed to happen at all.
Spec == Init /\ [][Next]_vars /\ WF_vars(MainStep)

-----------------------------------------------------------------------------

TypeOK ==
    /\ args \in [parse : ParseOutcomes, report_only : BOOLEAN, no_server : BOOLEAN]
    /\ pc \in {"parse", "start", "gen_only", "deps_pnpm", "pnpm_wait", "deps_pw", "pw_wait",
              "mkdir", "in_finally", "returned", "exit"} \cup TryRegion
    /\ stack \in Seq([kind : {"handler", "finally"}, i : 1..Len(processes) + 1, step : {"term", "wait", "kill"}])
    /\ processes \in Seq({"server"})
    /\ procState \in [Procs -> {"none", "starting", "listening", "running", "exited", "stopped"}]
    /\ signals \in 0..MaxSignals
    /\ ret \in {None, 0, 1} \cup TestReturnCodes
    /\ pending \in BOOLEAN
    /\ testsRC \in {None} \cup TestReturnCodes
    /\ exitCode \in {None} \cup (0..255)

(***************************************************************************)
(* When the launcher exits, every process in the `processes` list has      *)
(* exited or been stopped, whether main() returned, raised, or was         *)
(* interrupted by signals at any point, including inside a running         *)
(* cleanup().  About cleanup's terminate/wait/kill loop, its reentry as a  *)
(* signal handler and main's finally clause.                               *)
(***************************************************************************)
RegisteredStopped ==
    pc = "exit" => \A i \in 1..Len(processes) : ~Alive(processes[i])

(***************************************************************************)
(* When the launcher exits, no child it started is still running, the     *)
(* signaling server included.                                              *)
(***************************************************************************)
NoOrphan ==
    pc = "exit" => \A p \in Procs : ~Alive(p)

(***************************************************************************)
(* The launcher exits with status 0 only if it printed the help, ran the  *)
(* report-only mode or the Playwright run returned 0, and no signal was    *)
(* handled (the handler always ends in sys.exit(1)).  About the exit       *)
(* status flowing from run_tests through main's finally to sys.exit.       *)
(***************************************************************************)
ExitZeroOnlyIfTestsPassed ==
    pc = "exit" /\ exitCode = 0 =>
        /\ args.parse = "help" \/ args.report_only \/ testsRC = 0
        /\ signals = 0

(***************************************************************************)
(* The comment at line 116 says the sleep waits "for server to be ready":  *)
(* when main() starts the Playwright run with the launcher's own server,   *)
(* that server is listening.  About time.sleep(2) followed by proc.poll(), *)
(* which detects only a server that has already exited.                    *)
(***************************************************************************)
TestsStartWithServerReady ==
    [][pc = "tests" /\ pc' = "tests_wait" =>
         args.no_server \/ procState["server"] = "listening"]_vars
=============================================================================
